------------------------- MODULE AgentRuntimeProofs -------------------------
(***************************************************************************)
(* Proofs about AgentRuntime, for any tools, requests, paths, targets and  *)
(* limits and any number of crashes and faults: the budgets of a task hold *)
(* over all its runs, a first run that repeats itself stops, what is read  *)
(* is in scope, and an outcome has the evidence it needs.                  *)
(***************************************************************************)
EXTENDS AgentRuntime, SequenceTheorems, TLAPS

IInv ==
    /\ RuntimeTypeOK
    /\ WorkingCopy
    /\ Accounts
    /\ ReplansCounted
    /\ RepeatsCounted
    /\ EvidenceTraced
    /\ CallView
    /\ OutcomeGrounded

(* What is said of the task file and of the working copy, without the rest of the run. *)
TaskInv ==
    /\ disk \in RunTask /\ mem \in RunTask
    /\ WorkingCopy
    /\ Accounts
    /\ ReplansCounted
    /\ RepeatsCounted
    /\ EvidenceTraced
    /\ OutcomeGrounded

Pcs == Working \cup {"idle", "completed", "failing", "releasing"}

(* OutcomeGrounded, of any value of the task. *)
GroundedTask(m) ==
    /\ m.state \in {"COMPLETED", "WAITING_APPROVAL"} => m.evidence # <<>>
    /\ \A i \in DOMAIN m.evidence : m.evidence[i].ref \in 1..traced
    /\ m.state = "WAITING_APPROVAL" =>
          /\ request.action = m.action.tool /\ request.target = m.action.target.id
          /\ ~m.action.target.critical
          /\ \E i \in DOMAIN m.evidence :
                /\ m.evidence[i].tool = EvidenceTool[m.action.target.type]
                /\ m.evidence[i].sees = request.target

(* A value that a run may write when it goes on at nxt. *)
Sound(m, nxt) ==
    /\ m \in RunTask
    /\ calls <= m.toolCalls /\ (nxt = "guarded" => calls < m.toolCalls)
    /\ m.replans <= MaxReplans + 1 + crashes
    /\ RepeatsExact(m)
    /\ GroundedTask(m)
    /\ nxt \in Working =>
          /\ m.state \notin Settled
          /\ m.replans <= MaxReplans + crashes
          /\ crashes = 0 => m.evidence = <<>> \/ m.repeats < MaxNoProgressRepeats

(* The ways a save of m may end. *)
Outcome(m, nxt) ==
    /\ mem' = m
    /\ \/ disk' = m /\ pc' \in {nxt, "failing"}
       \/ disk' = disk /\ pc' = "failing"
    /\ faults' \in {faults, faults + 1}

LEMMA SaveOutcome ==
    ASSUME NEW m, NEW nxt, SaveAndTrace(m, nxt)
    PROVE  Outcome(m, nxt)
BY DEF SaveAndTrace, Save, Saved, Fault, Outcome

LEMMA FailOutcome ==
    ASSUME NEW m, FailWith(m)
    PROVE  Outcome(m, "failing")
BY DEF FailWith, Outcome

(* A working run's value may be written as it is. *)
LEMMA MemSound ==
    ASSUME IInv, pc \in Working
    PROVE  /\ mem = disk /\ mem.state \notin Settled
           /\ \A nxt \in Pcs : nxt # "guarded" => Sound(mem, nxt)
<1>1. mem = disk /\ mem.state \notin Settled
  BY DEF IInv, WorkingCopy
<1>2. /\ calls <= mem.toolCalls /\ mem.replans <= MaxReplans + crashes /\ RepeatsExact(mem)
      /\ crashes = 0 => mem.evidence = <<>> \/ mem.repeats < MaxNoProgressRepeats
      /\ mem.replans <= MaxReplans + 1 + crashes
  BY <1>1 DEF IInv, Accounts, ReplansCounted, RepeatsCounted, Working
<1>3. mem \in RunTask
  BY DEF IInv, RuntimeTypeOK
<1>4. GroundedTask(mem)
  BY <1>1 DEF IInv, OutcomeGrounded, GroundedTask
<1> QED
  BY <1>1, <1>2, <1>3, <1>4 DEF Sound

(***************************************************************************)
(* A step of a working run that writes a sound value keeps what is said of *)
(* the task, whichever way the save ends.                                  *)
(***************************************************************************)
LEMMA StepKeeps ==
    ASSUME IInv, pc \in Working, NEW m, NEW nxt \in Pcs \ {"idle"},
           Sound(m, nxt), Outcome(m, nxt),
           UNCHANGED <<request, due, crashes, calls, traced>>,
           consults' \in Nat, consults' <= m.iterations,
           consults' # consults => disk' = m
    PROVE  TaskInv' /\ pc' \in Pcs /\ faults' \in Nat
<1>1. pc' \in {nxt, "failing"} /\ mem' = m /\ disk' \in {m, disk}
      /\ (disk' # m => pc' = "failing" /\ disk' = disk)
      /\ pc' # "idle"
  BY DEF Outcome, Pcs
<1>2. mem = disk /\ mem \in RunTask /\ m \in RunTask
  BY DEF IInv, WorkingCopy, RuntimeTypeOK, Sound
<1>3. disk' \in RunTask /\ mem' \in RunTask
  BY <1>1, <1>2
<1>4. WorkingCopy'
  BY <1>1 DEF WorkingCopy, Sound, Working
<1>5. Accounts'
  <2>1. calls' = calls /\ calls <= m.toolCalls /\ calls <= disk.toolCalls /\ consults <= disk.iterations
    BY DEF Sound, IInv, Accounts
  <2>2. calls' <= disk'.toolCalls /\ consults' <= disk'.iterations
    BY <1>1, <2>1
  <2>3. pc' = "guarded" => calls' < disk'.toolCalls
    BY <1>1, <2>1 DEF Sound
  <2> QED
    BY <1>1, <2>1, <2>2, <2>3 DEF Accounts
<1>6. ReplansCounted'
  <2>1. m.replans <= MaxReplans + 1 + crashes /\ disk.replans <= MaxReplans + 1 + crashes
        /\ crashes' = crashes
    BY DEF Sound, IInv, ReplansCounted
  <2>2. pc' \in Working => m.replans <= MaxReplans + crashes /\ disk' = m
    BY <1>1 DEF Sound, Working
  <2> QED
    BY <1>1, <2>1, <2>2 DEF ReplansCounted
<1>7. RepeatsCounted'
  <2>1. RepeatsExact(m) /\ RepeatsExact(disk)
    BY DEF Sound, IInv, RepeatsCounted
  <2>2. RepeatsExact(disk') /\ RepeatsExact(mem')
    BY <1>1, <2>1
  <2>3. (RepeatsExact(disk))' /\ (RepeatsExact(mem))'
    BY <2>2 DEF RepeatsExact, Digest
  <2>4. pc' \in Working => disk' = m /\ nxt \in Working
    BY <1>1 DEF Working
  <2>5. crashes' = 0 /\ pc' \in Working => disk'.evidence = <<>> \/ disk'.repeats < MaxNoProgressRepeats
    BY <2>4 DEF Sound
  <2> QED
    BY <1>1, <2>3, <2>5 DEF RepeatsCounted
<1>8. EvidenceTraced'
  <2>1. \A v \in {m, disk} : \A i \in DOMAIN v.evidence : v.evidence[i].ref \in 1..traced
    BY DEF Sound, GroundedTask, IInv, EvidenceTraced
  <2> QED
    BY <1>1, <2>1 DEF EvidenceTraced
<1>9. OutcomeGrounded'
  <2>1. GroundedTask(m) /\ GroundedTask(disk)
    BY DEF Sound, IInv, OutcomeGrounded, GroundedTask
  <2>2. GroundedTask(disk')
    BY <1>1, <2>1
  <2> QED
    BY <2>2 DEF OutcomeGrounded, GroundedTask
<1>10. faults' \in Nat
  BY DEF Outcome, IInv, RuntimeTypeOK
<1> QED
  BY <1>1, <1>3, <1>4, <1>5, <1>6, <1>7, <1>8, <1>9, <1>10 DEF TaskInv, Pcs

(* The types of the variables that are no part of the task. *)
RunTypes ==
    /\ request \in Requests
    /\ decision \in Decisions \cup {NoDecision}
    /\ sight \in {"nothing"} \cup UNION {Sights(t) : t \in Tools}
    /\ scope \in [authorized : SUBSET Paths, excluded : SUBSET Paths]
    /\ finalOnly \in BOOLEAN /\ due \in BOOLEAN
    /\ traced \in Nat /\ calls \in Nat /\ consults \in Nat /\ crashes \in Nat

LEMMA TypesOfRun == IInv => RunTypes /\ pc \in Pcs /\ faults \in Nat /\ TaskInv
BY DEF IInv, RuntimeTypeOK, RunTypes, Pcs, TaskInv

LEMMA Assemble ==
    ASSUME TaskInv', pc' \in Pcs, faults' \in Nat, RunTypes', CallView'
    PROVE  IInv'
BY DEF IInv, RuntimeTypeOK, RunTypes, Pcs, TaskInv

-----------------------------------------------------------------------------
(* What a decision looks like. *)

LEMMA DecisionKinds ==
    ASSUME NEW d \in Decisions \cup {NoDecision}
    PROVE  \/ d.kind \in {"final", "replan", "none"}
           \/ /\ d.kind = "tool" /\ d.tool \in Tools /\ d.path \in Paths \cup {NoPath}
              /\ d.tool \notin FileTools => d.path = NoPath
           \/ d.kind = "action_request" /\ d.tool \in ManagedActions /\ d.target \in Targets
<1>1. CASE d = NoDecision
  BY <1>1 DEF NoDecision
<1>2. CASE d \in [kind : {"final", "replan"}, tool : {""}, path : {NoPath}, target : {NoTarget}]
  BY <1>2
<1>3. CASE d \in [kind : {"tool"}, tool : Tools \cap FileTools, path : Paths \cup {NoPath},
                  target : {NoTarget}]
  BY <1>3
<1>4. CASE d \in [kind : {"tool"}, tool : Tools \ FileTools, path : {NoPath}, target : {NoTarget}]
  BY <1>4
<1>5. CASE d \in [kind : {"action_request"}, tool : ManagedActions, path : {NoPath},
                  target : Targets]
  BY <1>5
<1> QED
  BY <1>1, <1>2, <1>3, <1>4, <1>5 DEF Decisions

LEMMA ToolDecision ==
    ASSUME NEW d \in Decisions \cup {NoDecision}, d.kind = "tool"
    PROVE  /\ d.tool \in Tools /\ d.path \in Paths \cup {NoPath}
           /\ d.tool \notin FileTools => d.path = NoPath
BY DecisionKinds

LEMMA ActionDecision ==
    ASSUME NEW d \in Decisions \cup {NoDecision}, d.kind = "action_request"
    PROVE  d.tool \in ManagedActions /\ d.target \in Targets
BY DecisionKinds

LEMMA ReplanDecision ==
    /\ [NoDecision EXCEPT !.kind = "replan"] \in Decisions
    /\ [NoDecision EXCEPT !.kind = "replan"].kind = "replan"
BY DEF Decisions, NoDecision

-----------------------------------------------------------------------------
(* One lemma for each action. *)

LEMMA Limits ==
    /\ MaxIterations \in Nat /\ MaxToolCalls \in Nat /\ MaxReplans \in Nat
    /\ MaxNoProgressRepeats \in Nat
    /\ TaskTimeout \in 0..TaskTimeout /\ LeaseTTL \in 0..LeaseTTL
    /\ TaskTimeout \in Nat /\ LeaseTTL \in Nat
BY RuntimeAssumption

LEMMA InitIInv == Init => IInv
<1> SUFFICES ASSUME Init PROVE IInv
  OBVIOUS
<1>1. disk = NewTask /\ mem = NewTask /\ pc = "idle" /\ traced = 0 /\ calls = 0 /\ consults = 0
      /\ crashes = 0 /\ faults = 0 /\ scope = NoScope /\ request \in Requests
      /\ finalOnly = FALSE /\ decision = NoDecision /\ sight = "nothing" /\ due = TRUE
  BY DEF Init
<1>2. NewTask \in RunTask /\ NewTask.evidence = <<>> /\ NewTask.repeats = 0 /\ NewTask.state = "CREATED"
      /\ NewTask.toolCalls = 0 /\ NewTask.iterations = 0 /\ NewTask.replans = 0
  BY RuntimeAssumption, <<>> \in Seq(Observations) DEF NewTask, RunTask, States, Settled
<1>3. RuntimeTypeOK
  <2>1. NoScope \in [authorized : SUBSET Paths, excluded : SUBSET Paths]
    BY DEF NoScope
  <2>2. pc \in Working \cup {"idle", "completed", "failing", "releasing"}
    BY <1>1
  <2>3. {traced, calls, consults, crashes, faults} \subseteq Nat
    BY <1>1
  <2> QED
    BY <1>1, <1>2, <2>1, <2>2, <2>3 DEF RuntimeTypeOK
<1>4. RepeatsExact(NewTask)
  BY <1>2 DEF RepeatsExact
<1>5. RepeatsCounted
  BY <1>1, <1>2, <1>4 DEF RepeatsCounted
<1>6. WorkingCopy /\ CallView
  BY <1>1 DEF WorkingCopy, CallView, Working
<1>7. Accounts /\ ReplansCounted
  BY <1>1, <1>2, RuntimeAssumption DEF Accounts, ReplansCounted, Working
<1>8. EvidenceTraced /\ OutcomeGrounded
  BY <1>1, <1>2 DEF EvidenceTraced, OutcomeGrounded
<1> QED
  BY <1>3, <1>5, <1>6, <1>7, <1>8 DEF IInv

LEMMA ClaimKeeps == IInv /\ Claim => IInv'
<1> SUFFICES ASSUME IInv, Claim PROVE IInv'
  OBVIOUS
<1> USE TypesOfRun
<1> DEFINE claimed == [disk EXCEPT !.token = disk.fence + 1, !.fence = disk.fence + 1,
                                   !.expires = LeaseTTL]
<1>1. disk' = claimed /\ mem' = claimed /\ pc = "idle" /\ due /\ pc' = "enter" /\ finalOnly' = FALSE
      /\ disk.state \notin Settled
      /\ UNCHANGED <<request, due, crashes, faults, scope, decision, sight, traced, calls, consults>>
  BY DEF Claim, fixed
<1>2. claimed \in RunTask /\ claimed.state = disk.state /\ claimed.evidence = disk.evidence
      /\ claimed.repeats = disk.repeats /\ claimed.toolCalls = disk.toolCalls
      /\ claimed.iterations = disk.iterations /\ claimed.replans = disk.replans
      /\ claimed.action = disk.action
  <2>1. disk \in RunTask
    BY DEF TaskInv
  <2>2. claimed \in RunTask
    <3>1. disk.fence \in Nat
      BY <2>1 DEF RunTask
    <3>2. PICK f \in Nat : f = disk.fence + 1
      BY <3>1
    <3>3. [disk EXCEPT !.token = f, !.fence = f, !.expires = LeaseTTL] \in RunTask
      BY <2>1, Limits DEF RunTask
    <3> QED
      BY <3>2, <3>3
  <2>3. DOMAIN disk = {"state", "planned", "iterations", "toolCalls", "replans", "repeats",
                       "evidence", "deadline", "action", "token", "fence", "expires"}
    BY <2>1 DEF RunTask
  <2> QED
    BY <2>2, <2>3
<1> HIDE DEF claimed
<1>3. WorkingCopy'
  BY <1>1, <1>2 DEF WorkingCopy
<1>4. Accounts' /\ ReplansCounted'
  BY <1>1, <1>2 DEF IInv, Accounts, ReplansCounted
<1>5. RepeatsCounted'
  <2>1. (RepeatsExact(disk))' /\ (RepeatsExact(mem))'
    BY <1>1, <1>2 DEF IInv, RepeatsCounted, RepeatsExact, Digest
  <2> QED
    BY <1>1, <1>2, <2>1 DEF IInv, RepeatsCounted
<1>6. EvidenceTraced' /\ OutcomeGrounded'
  BY <1>1, <1>2 DEF IInv, EvidenceTraced, OutcomeGrounded
<1>7. TaskInv'
  BY <1>1, <1>2, <1>3, <1>4, <1>5, <1>6 DEF TaskInv
<1>8. RunTypes' /\ CallView' /\ pc' \in Pcs
  BY <1>1 DEF RunTypes, CallView, Pcs, Working
<1> QED
  BY <1>1, <1>7, <1>8, Assemble

LEMMA EnterKeeps == IInv /\ Enter => IInv'
<1> SUFFICES ASSUME IInv, Enter PROVE IInv'
  OBVIOUS
<1> USE TypesOfRun
<1>1. pc = "enter" /\ pc \in Working
      /\ UNCHANGED <<request, due, crashes, finalOnly, decision, sight, traced, calls, consults>>
  BY DEF Enter, fixed, Working
<1>2. scope' \in [authorized : SUBSET Paths, excluded : SUBSET Paths]
      /\ scope'.excluded = request.excluded
  BY RuntimeAssumption DEF Enter, DeriveGeneralReadScope, RunTypes
<1> DEFINE m == IF mem.planned THEN mem
                ELSE [mem EXCEPT !.planned = TRUE, !.state = "PLANNING", !.deadline = TaskTimeout]
<1>3. Outcome(m, "loop")
  <2>1. CASE mem.planned
    BY <2>1, <1>1, MemSound DEF Enter, Outcome
  <2>2. CASE ~mem.planned
    BY <2>2, SaveOutcome DEF Enter
  <2> QED
    BY <2>1, <2>2
<1>4. m \in RunTask /\ m.state \notin Settled /\ m.evidence = mem.evidence /\ m.repeats = mem.repeats
      /\ m.toolCalls = mem.toolCalls /\ m.iterations = mem.iterations /\ m.replans = mem.replans
  <2>1. mem \in RunTask /\ mem.state \notin Settled
    BY <1>1, MemSound DEF TaskInv
  <2>2. m \in RunTask
    BY <2>1, Limits DEF RunTask, States
  <2>3. m.state \in {mem.state, "PLANNING"} /\ m.evidence = mem.evidence /\ m.repeats = mem.repeats
        /\ m.toolCalls = mem.toolCalls /\ m.iterations = mem.iterations /\ m.replans = mem.replans
    BY <2>1 DEF RunTask
  <2> QED
    BY <2>1, <2>2, <2>3 DEF Settled
<1> HIDE DEF m
<1>5. Sound(m, "loop")
  <2>1. Sound(mem, "loop")
    BY <1>1, MemSound DEF Pcs, Working
  <2>2. RepeatsExact(m) /\ GroundedTask(m)
    BY <2>1, <1>4 DEF Sound, RepeatsExact, Digest, GroundedTask, Settled
  <2> QED
    BY <2>1, <2>2, <1>4 DEF Sound
<1>6. consults' \in Nat /\ consults' <= m.iterations
  BY <1>1, <1>4 DEF RunTypes, IInv, Accounts
<1>7. TaskInv' /\ pc' \in Pcs /\ faults' \in Nat
  BY <1>1, <1>3, <1>5, <1>6, StepKeeps DEF Pcs, Working
<1>8. RunTypes'
  BY <1>1, <1>2 DEF RunTypes
<1>9. CallView'
  BY <1>1, <1>2, <1>3 DEF CallView, Outcome
<1> QED
  BY <1>7, <1>8, <1>9, Assemble

(* A value that adds to the counters only, and holds no outcome that needs evidence. *)
LEMMA SoundFrom ==
    ASSUME IInv, pc \in Working, NEW m \in RunTask, NEW nxt \in Pcs,
           m.evidence = mem.evidence, m.repeats = mem.repeats,
           m.toolCalls >= mem.toolCalls, nxt = "guarded" => m.toolCalls > mem.toolCalls,
           m.replans <= MaxReplans + 1 + crashes,
           nxt \in Working => m.replans <= MaxReplans + crashes /\ m.state \notin Settled,
           m.state \notin {"COMPLETED", "WAITING_APPROVAL"}
    PROVE  Sound(m, nxt)
<1>1. mem = disk /\ mem \in RunTask
  BY MemSound DEF IInv, RuntimeTypeOK
<1>2. calls <= mem.toolCalls /\ calls \in Nat /\ mem.toolCalls \in Nat /\ m.toolCalls \in Nat
  BY <1>1, Limits DEF IInv, Accounts, Working, RunTask, RuntimeTypeOK
<1>3. calls <= m.toolCalls /\ (nxt = "guarded" => calls < m.toolCalls)
  BY <1>2
<1>4. RepeatsExact(m)
  BY DEF IInv, RepeatsCounted, RepeatsExact, Digest
<1>5. GroundedTask(m)
  BY DEF IInv, EvidenceTraced, GroundedTask
<1>6. nxt \in Working /\ crashes = 0 => m.evidence = <<>> \/ m.repeats < MaxNoProgressRepeats
  BY <1>1 DEF IInv, RepeatsCounted
<1> QED
  BY <1>3, <1>4, <1>5, <1>6 DEF Sound

LEMMA BeginKeeps == IInv /\ BeginGeneralDecision => IInv'
<1> SUFFICES ASSUME IInv, BeginGeneralDecision PROVE IInv'
  OBVIOUS
<1> USE TypesOfRun
<1> DEFINE final == ShouldFinalizeGeneral(mem)
           begun == CountIteration(mem)
           next == [begun EXCEPT !.state = "INVESTIGATING"]
<1>1. pc = "loop" /\ pc \in Working /\ finalOnly' = final
      /\ UNCHANGED <<request, due, crashes, scope, decision, sight, traced, calls>>
      /\ consults' = consults + (IF pc' = "deciding" /\ ~final THEN 1 ELSE 0)
  BY DEF BeginGeneralDecision, fixed, Working
<1>2. mem = disk /\ mem \in RunTask /\ mem.state \notin Settled /\ mem.iterations \in 0..MaxIterations
      /\ consults \in Nat /\ consults <= mem.iterations /\ consults' \in Nat
      /\ mem.replans <= MaxReplans + crashes /\ mem.replans <= MaxReplans + 1 + crashes
      /\ mem.toolCalls \in Nat
  <2>1. mem = disk /\ mem \in RunTask /\ mem.state \notin Settled
    BY <1>1, MemSound DEF TaskInv
  <2>2. mem.iterations \in 0..MaxIterations /\ mem.toolCalls \in Nat
    BY <2>1, Limits DEF RunTask
  <2>3. consults \in Nat /\ consults' \in Nat
    BY <1>1 DEF RunTypes
  <2>4. consults <= mem.iterations
    BY <1>1 DEF TaskInv, Accounts
  <2>5. mem.replans <= MaxReplans + crashes /\ mem.replans <= MaxReplans + 1 + crashes
    BY <1>1, <2>1 DEF TaskInv, ReplansCounted
  <2> QED
    BY <2>1, <2>2, <2>3, <2>4, <2>5
<1>3. begun \in RunTask /\ begun.iterations \in {mem.iterations, mem.iterations + 1}
      /\ (mem.iterations < MaxIterations => begun.iterations = mem.iterations + 1)
      /\ begun.evidence = mem.evidence /\ begun.repeats = mem.repeats /\ begun.replans = mem.replans
      /\ begun.toolCalls = mem.toolCalls /\ begun.state = mem.state
  <2>1. PICK k \in 0..MaxIterations : k = IF mem.iterations >= MaxIterations THEN mem.iterations
                                           ELSE mem.iterations + 1
    BY <1>2, Limits
  <2>2. begun = [mem EXCEPT !.iterations = k]
    BY <2>1, <1>2 DEF CountIteration, RunTask
  <2>3. begun \in RunTask
    BY <2>2, <1>2 DEF RunTask
  <2>4. begun.iterations = k
      /\ begun.evidence = mem.evidence /\ begun.repeats = mem.repeats /\ begun.replans = mem.replans
      /\ begun.toolCalls = mem.toolCalls /\ begun.state = mem.state
    BY <2>2, <1>2 DEF RunTask
  <2> QED
    BY <2>1, <2>3, <2>4, <1>2, Limits
<1> HIDE DEF begun
<1>4. next \in RunTask /\ next.iterations = begun.iterations
      /\ next.evidence = mem.evidence /\ next.repeats = mem.repeats /\ next.replans = mem.replans
      /\ next.toolCalls = mem.toolCalls /\ next.state = "INVESTIGATING"
  BY <1>3 DEF RunTask, States
<1> HIDE DEF next
<1>5. ASSUME NEW m \in RunTask, NEW nxt \in {"failing", "deciding"}, Outcome(m, nxt),
             Sound(m, nxt), consults' <= m.iterations
      PROVE  IInv'
  <2>1. pc' \in {"failing", "deciding"} /\ (pc' = "deciding" => disk' = m)
    BY <1>5 DEF Outcome
  <2>2. consults' # consults => disk' = m
    BY <2>1, <1>1, <1>2
  <2>3. TaskInv' /\ pc' \in Pcs /\ faults' \in Nat
    BY <1>1, <1>2, <1>5, <2>2, StepKeeps DEF Pcs, Working
  <2>4. RunTypes'
    BY <1>1, <1>2 DEF RunTypes, ShouldFinalizeGeneral
  <2>5. CallView'
    BY <1>1, <2>1 DEF IInv, CallView, Working
  <2> QED
    BY <2>3, <2>4, <2>5, Assemble
<1>6. CASE FailWith(mem)
  <2>1. Outcome(mem, "failing") /\ Sound(mem, "failing")
    BY <1>6, <1>1, FailOutcome, MemSound DEF Pcs
  <2>2. consults' <= mem.iterations
    BY <2>1, <1>1, <1>2 DEF Outcome
  <2> QED
    BY <2>1, <2>2, <1>2, <1>5
<1>7. CASE FailWith(begun)
  <2>1. Outcome(begun, "failing")
    BY <1>7, FailOutcome
  <2>2. Sound(begun, "failing")
    BY <1>1, <1>2, <1>3, SoundFrom DEF Pcs, Settled, Working
  <2>3. consults' <= begun.iterations
    BY <2>1, <1>1, <1>2, <1>3 DEF Outcome
  <2> QED
    BY <2>1, <2>2, <2>3, <1>3, <1>5
<1>8. CASE (mem.iterations >= MaxIterations => final) /\ Save(next, "deciding")
  <2>1. Outcome(next, "deciding")
    BY <1>8, SaveOutcome DEF SaveAndTrace
  <2>2. Sound(next, "deciding")
    BY <1>1, <1>2, <1>4, SoundFrom DEF Pcs, Settled, Working
  <2>3. consults' <= next.iterations
    BY <1>8, <2>1, <1>1, <1>2, <1>3, <1>4, Limits
  <2> QED
    BY <2>1, <2>2, <2>3, <1>4, <1>5
<1> QED
  BY <1>6, <1>7, <1>8 DEF BeginGeneralDecision, begun, next

(* Nothing of the task, and of what is said of it, changes. *)
LEMMA QuietKeeps ==
    ASSUME IInv, UNCHANGED <<request, disk, mem, pc, due, crashes, calls, traced, consults, faults>>
    PROVE  TaskInv' /\ pc' \in Pcs /\ faults' \in Nat
BY TypesOfRun DEF TaskInv, WorkingCopy, Accounts, ReplansCounted, RepeatsCounted, RepeatsExact,
       Digest, EvidenceTraced, OutcomeGrounded

(* A step that leaves the task as it is, and goes on or fails. *)
LEMMA MoveKeeps ==
    ASSUME IInv, pc \in Working, NEW nxt \in Pcs \ {"idle", "guarded"}, Outcome(mem, nxt),
           UNCHANGED <<request, due, crashes, calls, traced, consults>>
    PROVE  TaskInv' /\ pc' \in Pcs /\ faults' \in Nat
<1>1. Sound(mem, nxt)
  BY MemSound
<1>2. consults \in Nat /\ consults <= mem.iterations
  BY TypesOfRun DEF IInv, Accounts, Working, RunTypes
<1> QED
  BY <1>1, <1>2, StepKeeps

LEMMA DecideTimesOutKeeps == IInv /\ DecideTimesOut => IInv'
<1> SUFFICES ASSUME IInv, DecideTimesOut PROVE IInv'
  OBVIOUS
<1> USE TypesOfRun
<1>1. pc = "deciding" /\ pc \in Working
      /\ UNCHANGED <<request, due, crashes, scope, sight, traced, calls, consults>>
  BY DEF DecideTimesOut, fixed, Working
<1>2. CASE AskToFinalize
  <2>1. TaskInv' /\ pc' \in Pcs /\ faults' \in Nat
    BY <1>1, <1>2, QuietKeeps DEF AskToFinalize
  <2>2. RunTypes' /\ CallView'
    BY <1>1, <1>2 DEF AskToFinalize, RunTypes, CallView, IInv
  <2> QED
    BY <2>1, <2>2, Assemble
<1>3. CASE FailWith(mem) /\ UNCHANGED <<finalOnly, decision>>
  <2>1. TaskInv' /\ pc' \in Pcs /\ faults' \in Nat
    BY <1>1, <1>3, FailOutcome, MoveKeeps DEF Pcs
  <2>2. RunTypes' /\ CallView'
    BY <1>1, <1>3 DEF FailWith, RunTypes, CallView, Working
  <2> QED
    BY <2>1, <2>2, Assemble
<1> QED
  BY <1>2, <1>3 DEF DecideTimesOut

LEMMA DecideFailsKeeps == IInv /\ DecideFails => IInv'
<1> SUFFICES ASSUME IInv, DecideFails PROVE IInv'
  OBVIOUS
<1> USE TypesOfRun
<1>1. pc = "deciding" /\ pc \in Working /\ FailWith(mem)
      /\ UNCHANGED <<request, due, crashes, scope, finalOnly, decision, sight, traced, calls, consults>>
  BY DEF DecideFails, fixed, Working
<1>2. TaskInv' /\ pc' \in Pcs /\ faults' \in Nat
  BY <1>1, FailOutcome, MoveKeeps DEF Pcs
<1>3. RunTypes' /\ CallView'
  BY <1>1 DEF FailWith, RunTypes, CallView, Working
<1> QED
  BY <1>2, <1>3, Assemble

LEMMA DecideKeeps ==
    ASSUME IInv, NEW d \in Decisions, Decide(d)
    PROVE  IInv'
<1> USE TypesOfRun
<1>1. pc = "deciding" /\ pc \in Working
      /\ UNCHANGED <<request, due, crashes, scope, sight, traced, calls, consults>>
  BY DEF Decide, fixed, Working
<1>2. CASE AskToFinalize
  <2>1. TaskInv' /\ pc' \in Pcs /\ faults' \in Nat
    BY <1>1, <1>2, QuietKeeps DEF AskToFinalize
  <2>2. RunTypes' /\ CallView'
    BY <1>1, <1>2 DEF AskToFinalize, RunTypes, CallView, IInv
  <2> QED
    BY <2>1, <2>2, Assemble
<1>3. CASE FailWith(mem) /\ UNCHANGED <<finalOnly, decision>>
  <2>1. TaskInv' /\ pc' \in Pcs /\ faults' \in Nat
    BY <1>1, <1>3, FailOutcome, MoveKeeps DEF Pcs
  <2>2. RunTypes' /\ CallView'
    BY <1>1, <1>3 DEF FailWith, RunTypes, CallView, Working
  <2> QED
    BY <2>1, <2>2, Assemble
<1>4. CASE /\ \/ decision' = ReplanWithoutEvidence(d) /\ pc' = "dispatch" /\ UNCHANGED faults
              \/ Fault /\ UNCHANGED decision
           /\ UNCHANGED <<mem, disk, finalOnly>>
  <2>1. Outcome(mem, "dispatch")
    BY <1>1, <1>4, MemSound DEF Outcome, Fault
  <2>2. TaskInv' /\ pc' \in Pcs /\ faults' \in Nat
    BY <1>1, <2>1, MoveKeeps DEF Pcs, Working
  <2>3. decision' \in Decisions \cup {NoDecision}
    BY <1>4, ReplanDecision DEF ReplanWithoutEvidence, RunTypes
  <2>4. RunTypes'
    BY <1>1, <1>4, <2>3 DEF RunTypes
  <2>5. CallView'
    BY <1>1, <2>1 DEF Outcome, CallView, Working, IInv
  <2> QED
    BY <2>2, <2>4, <2>5, Assemble
<1> QED
  BY <1>2, <1>3, <1>4 DEF Decide

-----------------------------------------------------------------------------
(* The pipeline's answers. *)

(* The policies of the two managed actions. *)
LEMMA ManagedPolicies ==
    ASSUME NEW t \in ManagedActions
    PROVE  t \in DOMAIN Catalog /\ Catalog[t].base \in {"L1", "L2"}
<1>1. CASE t = "service.restart"
  BY <1>1 DEF Catalog, WritePolicy
<1>2. CASE t = "process.terminate"
  BY <1>2 DEF Catalog, WritePolicy
<1> QED
  BY <1>1, <1>2 DEF ManagedActions

(* A critical target is never offered for approval. *)
LEMMA CriticalDenied ==
    ASSUME NEW d, d.tool \in ManagedActions, d.target.critical = TRUE
    PROVE  Evaluate(ManagedProposal(d)).final # "REQUIRE_APPROVAL"
<1> DEFINE p == ManagedProposal(d)
<1>1. p.tool = d.tool /\ p.effect = "write" /\ p.target.critical = TRUE /\ p.batch = 1
      /\ p.reversible = FALSE /\ p.rollback = FALSE /\ p.unstable = FALSE /\ p.lab = TRUE
  BY DEF ManagedProposal
<1> HIDE DEF p
<1>2. Known(p.tool) /\ Catalog[p.tool].base \in {"L1", "L2"}
  BY <1>1, ManagedPolicies DEF Known
<1>3. Score(p) >= 80 /\ Score(p) \in Int
  <2>1. PICK sum \in Int : sum = [L0 |-> 5, L1 |-> 20, L2 |-> 50, L3 |-> 90][Catalog[p.tool].base]
                + Points(p.effect = "write", 10)
                + Points(p.target.critical, 50)
                + Points(p.batch >= 10, 35) + Points(p.batch \in 2..9, 10)
                + Points(p.effect = "write" /\ ~p.reversible, 15)
                + Points(p.reversible /\ ~p.rollback, 10)
                + Points(p.unstable, 10)
                - Points(p.lab /\ ~p.target.critical, 10)
    BY <1>1, <1>2 DEF Points
  <2>2. sum >= 80
    BY <1>1, <1>2, <2>1 DEF Points
  <2>3. Score(p) = IF sum < 0 THEN 0 ELSE IF sum > 100 THEN 100 ELSE sum
    BY <1>2, <2>1 DEF Score
  <2> QED
    BY <2>2, <2>3
<1>4. LevelForScore(Score(p)) = "L3"
  BY <1>3 DEF LevelForScore
<1>5. Evaluate(p).final = "DENY"
  BY <1>4 DEF Evaluate
<1> QED
  BY <1>5 DEF p

(* A call the pipeline allows is a read of the catalogue. *)
LEMMA AllowedIsRead ==
    ASSUME NEW tool, Evaluate(ReadProposal(tool)).final = "ALLOW"
    PROVE  Known(tool) /\ Catalog[tool].effect = "read"
<1> DEFINE p == ReadProposal(tool)
<1>1. p.tool = tool /\ p.effect = "read"
  BY DEF ReadProposal
<1> HIDE DEF p
<1>2. StaticAllows(p)
  <2>1. SUFFICES ASSUME ~StaticAllows(p) PROVE FALSE
    OBVIOUS
  <2>2. Evaluate(p) = [level |-> "", final |-> "DENY"]
    BY <2>1 DEF Evaluate
  <2>3. [level |-> "", final |-> "DENY"].final = "DENY"
    OBVIOUS
  <2>4. "DENY" # "ALLOW"
    OBVIOUS
  <2> QED
    BY <2>2, <2>3, <2>4, Zenon DEF p
<1> QED
  BY <1>1, <1>2 DEF StaticAllows

-----------------------------------------------------------------------------
(* A decision is dealt with, and the run goes on or fails. *)
LEMMA DispatchKeeps ==
    ASSUME IInv, pc \in Working \ {"enter"}, NEW m, NEW nxt \in Pcs \ {"idle", "guarded", "observed"},
           Sound(m, nxt), Outcome(m, nxt), m.iterations = mem.iterations,
           Handled, UNCHANGED dispatching
    PROVE  IInv'
<1> USE TypesOfRun
<1>1. UNCHANGED <<request, due, crashes, scope, finalOnly, traced, calls, consults>>
  BY DEF dispatching, fixed
<1>2. consults' \in Nat /\ consults' <= m.iterations
  BY <1>1 DEF RunTypes, IInv, Accounts, Working
<1>3. TaskInv' /\ pc' \in Pcs /\ faults' \in Nat
  BY <1>1, <1>2, StepKeeps
<1>4. RunTypes'
  BY <1>1 DEF RunTypes, Handled
<1>5. pc' \notin {"guarded", "observed"}
  BY DEF Outcome
<1>6. CallView'
  BY <1>1, <1>5 DEF IInv, CallView
<1> QED
  BY <1>3, <1>4, <1>6, Assemble

(* The counters of a working run, as numbers. *)
LEMMA MemTypes ==
    ASSUME IInv, pc \in Working
    PROVE  /\ mem \in RunTask /\ mem.state \notin Settled
           /\ mem.replans \in Nat /\ mem.toolCalls \in 0..MaxToolCalls /\ crashes \in Nat
           /\ mem.repeats \in Nat /\ mem.evidence \in Seq(Observations)
           /\ mem.replans <= MaxReplans + crashes
<1>1. mem \in RunTask /\ mem = disk /\ mem.state \notin Settled /\ crashes \in Nat
  BY MemSound DEF IInv, RuntimeTypeOK
<1>2. /\ mem.replans \in Nat /\ mem.toolCalls \in 0..MaxToolCalls
      /\ mem.repeats \in Nat /\ mem.evidence \in Seq(Observations)
  BY <1>1 DEF RunTask
<1>3. mem.replans <= MaxReplans + crashes
  BY <1>1 DEF IInv, ReplansCounted
<1> QED
  BY <1>1, <1>2, <1>3

(* The working copy with one more replan, in any state. *)
LEMMA OneMoreReplan ==
    ASSUME IInv, pc \in Working, NEW s \in {mem.state, "REPLANNING"}, NEW nxt \in Pcs \ {"guarded"}, NEW m,
           m = [mem EXCEPT !.replans = @ + 1, !.state = s],
           nxt \in Working => m.replans <= MaxReplans
    PROVE  Sound(m, nxt) /\ m.iterations = mem.iterations
<1>1. /\ mem \in RunTask /\ mem.state \notin Settled
      /\ mem.replans \in Nat /\ mem.toolCalls \in Nat /\ crashes \in Nat
      /\ mem.replans <= MaxReplans + crashes
  BY MemTypes, Limits
<1>2. s \in States /\ s \notin Settled
  BY <1>1 DEF RunTask, States, Settled
<1>3. PICK k \in Nat : k = mem.replans + 1
  BY <1>1
<1>4. m = [mem EXCEPT !.replans = k, !.state = s]
  BY <1>1, <1>3 DEF RunTask
<1>5. m \in RunTask
  BY <1>1, <1>2, <1>4 DEF RunTask
<1>6. m.evidence = mem.evidence /\ m.repeats = mem.repeats /\ m.toolCalls = mem.toolCalls
      /\ m.replans = k /\ m.state = s /\ m.iterations = mem.iterations
  BY <1>1, <1>4 DEF RunTask
<1>7. m.replans <= MaxReplans + 1 + crashes
      /\ (nxt \in Working => m.replans <= MaxReplans + crashes)
  BY <1>1, <1>3, <1>6, Limits
<1>8. m.state \notin {"COMPLETED", "WAITING_APPROVAL"}
  BY <1>2, <1>6 DEF Settled
<1>9. m.toolCalls >= mem.toolCalls /\ nxt # "guarded"
  BY <1>1, <1>6
<1> QED
  BY <1>2, <1>5, <1>6, <1>7, <1>8, <1>9, SoundFrom

LEMMA ReplanKeeps == IInv /\ Replan => IInv'
<1> SUFFICES ASSUME IInv, Replan PROVE IInv'
  OBVIOUS
<1> DEFINE m == [mem EXCEPT !.replans = @ + 1]
           next == [m EXCEPT !.state = "REPLANNING"]
<1>1. pc = "dispatch" /\ pc \in Working \ {"enter"} /\ Handled /\ UNCHANGED dispatching
  BY DEF Replan, Working
<1>2. mem \in RunTask
  BY <1>1, MemTypes
<1>3. m = [mem EXCEPT !.replans = @ + 1, !.state = mem.state]
      /\ next = [mem EXCEPT !.replans = @ + 1, !.state = "REPLANNING"]
      /\ next.replans = m.replans
  BY <1>2 DEF RunTask
<1>4. CASE FailWith(m)
  <2>1. Outcome(m, "failing")
    BY <1>4, FailOutcome
  <2> HIDE DEF m
  <2>2. Sound(m, "failing") /\ m.iterations = mem.iterations
    BY <1>1, <1>3, OneMoreReplan DEF Pcs, Working
  <2> QED
    BY <1>1, <2>1, <2>2, DispatchKeeps DEF Pcs, Working
<1>5. CASE ~(m.replans > MaxReplans) /\ SaveAndTrace(next, "loop")
  <2>1. Outcome(next, "loop")
    BY <1>5, SaveOutcome
  <2>2. m.replans <= MaxReplans
    BY <1>1, <1>2, <1>5, MemTypes, Limits DEF RunTask
  <2> HIDE DEF m, next
  <2>3. Sound(next, "loop") /\ next.iterations = mem.iterations
    BY <1>1, <1>3, <2>2, OneMoreReplan DEF Pcs, Working
  <2> QED
    BY <1>1, <2>1, <2>3, DispatchKeeps DEF Pcs, Working
<1> QED
  BY <1>4, <1>5 DEF Replan

LEMMA RefuseReadKeeps == IInv /\ RefuseRead => IInv'
<1> SUFFICES ASSUME IInv, RefuseRead PROVE IInv'
  OBVIOUS
<1> DEFINE m == [mem EXCEPT !.replans = @ + 1, !.state = "REPLANNING"]
           nxt == IF m.replans > MaxReplans THEN "failing" ELSE "loop"
<1>1. pc = "dispatch" /\ pc \in Working \ {"enter"} /\ Handled /\ UNCHANGED dispatching
  BY DEF RefuseRead, Working
<1>2. Outcome(m, nxt)
  BY SaveOutcome DEF RefuseRead
<1>3. nxt \in {"failing", "loop"}
  OBVIOUS
<1>4. nxt \in Working => m.replans <= MaxReplans
  <2>1. m.replans \in Nat
    BY <1>1, MemTypes DEF RunTask
  <2> QED
    BY <2>1, Limits DEF Working
<1>5. m = [mem EXCEPT !.replans = @ + 1, !.state = "REPLANNING"]
  OBVIOUS
<1> HIDE DEF m, nxt
<1>6. Sound(m, nxt) /\ m.iterations = mem.iterations
  BY <1>1, <1>3, <1>4, <1>5, OneMoreReplan DEF Pcs, Working
<1> QED
  BY <1>1, <1>2, <1>3, <1>6, DispatchKeeps DEF Pcs, Working

LEMMA CompleteKeeps == IInv /\ CompleteGeneral => IInv'
<1> SUFFICES ASSUME IInv, CompleteGeneral PROVE IInv'
  OBVIOUS
<1> DEFINE m == [mem EXCEPT !.state = "COMPLETED"]
<1>1. pc = "dispatch" /\ pc \in Working \ {"enter"} /\ Handled /\ UNCHANGED dispatching
  BY DEF CompleteGeneral, Working
<1>2. CASE FailWith(mem)
  BY <1>1, <1>2, FailOutcome, MemSound, DispatchKeeps DEF Pcs, Working
<1>3. CASE mem.evidence # <<>> /\ Save(m, "completed")
  <2>1. Outcome(m, "completed")
    BY <1>3, SaveOutcome DEF SaveAndTrace
  <2>2. m \in RunTask /\ m.evidence = mem.evidence /\ m.repeats = mem.repeats
        /\ m.toolCalls = mem.toolCalls /\ m.replans = mem.replans /\ m.iterations = mem.iterations
        /\ m.state = "COMPLETED"
    BY <1>1, MemTypes DEF RunTask, States, Settled
  <2> HIDE DEF m
  <2>3. Sound(mem, "failing")
    BY <1>1, MemSound DEF Pcs
  <2>4. RepeatsExact(m) /\ GroundedTask(m)
    BY <1>3, <2>2, <2>3 DEF Sound, RepeatsExact, Digest, GroundedTask
  <2>5. Sound(m, "completed")
    BY <2>2, <2>3, <2>4 DEF Sound, Working
  <2> QED
    BY <1>1, <2>1, <2>2, <2>5, DispatchKeeps DEF Pcs, Working
<1> QED
  BY <1>2, <1>3 DEF CompleteGeneral

LEMMA PrepareKeeps == IInv /\ PrepareGeneralManagedAction => IInv'
<1> SUFFICES ASSUME IInv, PrepareGeneralManagedAction PROVE IInv'
  OBVIOUS
<1> DEFINE m == [mem EXCEPT !.state = "WAITING_APPROVAL", !.action = decision]
<1>1. pc = "dispatch" /\ pc \in Working \ {"enter"} /\ Handled /\ UNCHANGED dispatching
      /\ decision.kind = "action_request" /\ decision \in Decisions \cup {NoDecision}
  BY DEF PrepareGeneralManagedAction, Working, IInv, RuntimeTypeOK
<1>2. CASE FailWith(mem)
  BY <1>1, <1>2, FailOutcome, MemSound, DispatchKeeps DEF Pcs, Working
<1>3. CASE /\ RequestAuthorises(request, decision)
           /\ EvidenceSupports(mem, decision.target)
           /\ Evaluate(ManagedProposal(decision)).final = "REQUIRE_APPROVAL"
           /\ SaveAndTrace(m, "releasing")
  <2>1. Outcome(m, "releasing")
    BY <1>3, SaveOutcome
  <2>2. m \in RunTask /\ m.evidence = mem.evidence /\ m.repeats = mem.repeats
        /\ m.toolCalls = mem.toolCalls /\ m.replans = mem.replans /\ m.iterations = mem.iterations
        /\ m.state = "WAITING_APPROVAL" /\ m.action = decision
    BY <1>1, MemTypes DEF RunTask, States, Settled
  <2> HIDE DEF m
  <2>3. Sound(mem, "failing")
    BY <1>1, MemSound DEF Pcs
  <2>4. RepeatsExact(m)
    BY <2>2, <2>3 DEF Sound, RepeatsExact, Digest
  <2>5. decision.target.critical \in BOOLEAN
    BY <1>1, ActionDecision, RuntimeAssumption
  <2>6. ~decision.target.critical
    BY <1>1, <1>3, <2>5, ActionDecision, CriticalDenied
  <2>7. \E i \in DOMAIN m.evidence :
            /\ m.evidence[i].tool = EvidenceTool[m.action.target.type]
            /\ m.evidence[i].sees = request.target
    BY <1>3, <2>2 DEF EvidenceSupports, Shows, RequestAuthorises
  <2>8. m.evidence # <<>>
    BY <2>7
  <2>9. GroundedTask(m)
    BY <1>3, <2>2, <2>3, <2>6, <2>7, <2>8 DEF Sound, GroundedTask, RequestAuthorises
  <2>10. Sound(m, "releasing")
    BY <2>2, <2>3, <2>4, <2>9 DEF Sound, Working
  <2> QED
    BY <1>1, <2>1, <2>2, <2>10, DispatchKeeps DEF Pcs, Working
<1> QED
  BY <1>2, <1>3 DEF PrepareGeneralManagedAction

LEMMA ReserveKeeps == IInv /\ ReserveToolCall => IInv'
<1> SUFFICES ASSUME IInv, ReserveToolCall PROVE IInv'
  OBVIOUS
<1> USE TypesOfRun
<1> DEFINE m == [mem EXCEPT !.toolCalls = @ + 1]
<1>1. pc = "dispatch" /\ pc \in Working \ {"enter"} /\ decision.kind = "tool"
      /\ ~ScopeViolation(scope, decision)
      /\ UNCHANGED <<request, due, crashes, scope, finalOnly, traced, calls, consults>>
      /\ IF pc' = "failing" THEN Handled ELSE UNCHANGED <<decision, sight>>
  BY DEF ReserveToolCall, Working, dispatching, fixed
<1>2. CASE FailWith(mem)
  <2>1. TaskInv' /\ pc' \in Pcs /\ faults' \in Nat /\ pc' = "failing"
    BY <1>1, <1>2, FailOutcome, MoveKeeps DEF Pcs, FailWith
  <2>2. RunTypes' /\ CallView'
    BY <1>1, <2>1 DEF RunTypes, CallView, Working, Handled
  <2> QED
    BY <2>1, <2>2, Assemble
<1>3. CASE ~(mem.toolCalls >= MaxToolCalls) /\ SaveAndTrace(m, "guarded")
  <2>1. Outcome(m, "guarded")
    BY <1>3, SaveOutcome
  <2>2. PICK k \in 0..MaxToolCalls : k = mem.toolCalls + 1
    BY <1>1, <1>3, MemTypes, Limits
  <2>3. m = [mem EXCEPT !.toolCalls = k]
    BY <1>1, <2>2, MemTypes DEF RunTask
  <2>4. m \in RunTask
    BY <1>1, <2>3, MemTypes DEF RunTask
  <2>5. m.evidence = mem.evidence /\ m.repeats = mem.repeats
        /\ m.toolCalls = k /\ m.replans = mem.replans /\ m.iterations = mem.iterations
        /\ m.state = mem.state
    BY <1>1, <2>3, MemTypes DEF RunTask
  <2> HIDE DEF m
  <2>6. mem.state \notin Settled /\ m.replans <= MaxReplans + crashes
        /\ m.replans <= MaxReplans + 1 + crashes
        /\ m.toolCalls >= mem.toolCalls /\ m.toolCalls > mem.toolCalls
    BY <1>1, <2>2, <2>5, MemTypes, Limits
  <2>7. Sound(m, "guarded")
    BY <1>1, <2>4, <2>5, <2>6, SoundFrom DEF Pcs, Settled, Working
  <2>8. consults' \in Nat /\ consults' <= m.iterations
    BY <1>1, <2>5 DEF RunTypes, IInv, Accounts, Working
  <2>9. TaskInv' /\ pc' \in Pcs /\ faults' \in Nat
    BY <1>1, <2>1, <2>7, <2>8, StepKeeps DEF Pcs, Working
  <2>10. RunTypes'
    BY <1>1 DEF RunTypes, Handled
  <2>11. pc' \in {"failing", "guarded"}
    BY <2>1 DEF Outcome
  <2>12. CallView'
    <3>1. CASE pc' = "failing"
      BY <3>1 DEF CallView, Working
    <3>2. CASE pc' = "guarded"
      BY <1>1, <3>2 DEF IInv, CallView, Working, ScopeViolation
    <3> QED
      BY <2>11, <3>1, <3>2
  <2> QED
    BY <2>9, <2>10, <2>12, Assemble
<1> QED
  BY <1>2, <1>3 DEF ReserveToolCall

LEMMA CallToolKeeps == IInv /\ CallTool => IInv'
<1> SUFFICES ASSUME IInv, CallTool PROVE IInv'
  OBVIOUS
<1> USE TypesOfRun
<1>1. pc = "guarded" /\ pc \in Working
      /\ UNCHANGED <<request, due, crashes, scope, finalOnly, consults, disk, mem>>
  BY DEF CallTool, Working, fixed
<1>2. decision.kind = "tool" /\ decision.tool \in Tools /\ ~ScopeViolation(scope, decision)
      /\ scope.excluded = request.excluded
  BY <1>1, ToolDecision DEF IInv, CallView, RunTypes, Working
<1>3. mem = disk /\ mem.state \notin Settled /\ calls \in Nat /\ traced \in Nat
      /\ mem.toolCalls \in Nat /\ calls < mem.toolCalls
  BY <1>1, MemTypes, MemSound, Limits DEF RunTypes, IInv, Accounts
<1>4. calls' \in Nat /\ traced' \in Nat /\ calls' \in {calls, calls + 1} /\ traced' \in {traced, traced + 1}
      /\ pc' \in {"observed", "failing"} /\ faults' \in Nat /\ calls' <= mem.toolCalls
  BY <1>3 DEF CallTool, CallAndTrace, Fault
<1>5. WorkingCopy'
  BY <1>1, <1>3 DEF WorkingCopy
<1>6. Accounts'
  BY <1>1, <1>3, <1>4 DEF TaskInv, Accounts
<1>7. ReplansCounted'
  BY <1>1, <1>4 DEF TaskInv, ReplansCounted
<1>8. RepeatsCounted'
  BY <1>1, <1>4 DEF TaskInv, RepeatsCounted, RepeatsExact, Digest
<1>9. \A n \in 1..traced : n \in 1..traced'
  BY <1>3, <1>4
<1>10. EvidenceTraced'
  BY <1>1, <1>9 DEF TaskInv, EvidenceTraced
<1>11. OutcomeGrounded'
  BY <1>1, <1>9 DEF TaskInv, OutcomeGrounded
<1>12. TaskInv' /\ pc' \in Pcs
  BY <1>1, <1>4, <1>5, <1>6, <1>7, <1>8, <1>10, <1>11 DEF TaskInv, Pcs, Working
<1>13. RunTypes'
  <2>1. sight' \in {"nothing"} \cup UNION {Sights(t) : t \in Tools}
    BY <1>2 DEF CallTool, CallAndTrace, Handled
  <2>2. decision' \in {decision, NoDecision}
    BY DEF CallTool, CallAndTrace, Handled
  <2> QED
    BY <1>1, <1>4, <2>1, <2>2 DEF RunTypes
<1>14. CallView'
  <2>1. CASE pc' = "failing"
    BY <2>1 DEF CallView, Working
  <2>2. CASE pc' = "observed"
    <3>1. decision' = decision /\ traced' = traced + 1
          /\ Evaluate(ReadProposal(decision.tool)) = [level |-> "L0", final |-> "ALLOW"]
      BY <2>2 DEF CallTool, CallAndTrace, Fault
    <3>2. (Evaluate(ReadProposal(decision.tool)).final = "ALLOW")'
      BY <3>1
    <3>3. traced' > 0
      BY <3>1, <1>3
    <3> QED
      BY <1>1, <1>2, <2>2, <3>1, <3>2, <3>3 DEF CallView, Working, ScopeViolation
  <2> QED
    BY <1>4, <2>1, <2>2
<1> QED
  BY <1>4, <1>12, <1>13, <1>14, Assemble

(* Recording an observation keeps the count of repetitions exact. *)
LEMMA RecordExact ==
    ASSUME NEW t \in RunTask, RepeatsExact(t), NEW o \in Observations, NEW m,
           m = RecordObservation(t, o)
    PROVE  m \in RunTask /\ RepeatsExact(m) /\ m.evidence = Append(t.evidence, o)
           /\ m.state = t.state /\ m.toolCalls = t.toolCalls /\ m.iterations = t.iterations
           /\ m.replans = t.replans
<1>1. t.evidence \in Seq(Observations) /\ t.repeats \in Nat
  BY DEF RunTask
<1>2. PICK r \in Nat : r = IF Same(t, o) THEN t.repeats + 1 ELSE 0
  BY <1>1
<1>3. m = [t EXCEPT !.repeats = r, !.evidence = Append(t.evidence, o)]
  BY <1>2 DEF RecordObservation, RunTask
<1>4. Append(t.evidence, o) \in Seq(Observations)
  BY <1>1
<1>5. m \in RunTask
  BY <1>3, <1>4 DEF RunTask
<1>6. m.evidence = Append(t.evidence, o) /\ m.repeats = r
      /\ m.state = t.state /\ m.toolCalls = t.toolCalls /\ m.iterations = t.iterations
      /\ m.replans = t.replans
  BY <1>3 DEF RunTask
<1>7. RepeatsExact(m)
  <2>1. PICK n \in Nat : n = Len(t.evidence)
    BY <1>1
  <2>2. Len(m.evidence) = n + 1 /\ m.evidence[n + 1] = o
        /\ \A i \in 1..n : m.evidence[i] = t.evidence[i]
    BY <1>1, <1>6, <2>1
  <2>3. SUFFICES ASSUME n + 1 > r + 1
                 PROVE  Digest(m.evidence[n + 1 - r - 1]) # Digest(m.evidence[n + 1])
    <3>1. Len(m.evidence) # 0
      BY <2>2
    <3> QED
      BY <1>6, <2>2, <3>1 DEF RepeatsExact
  <2>4. t.evidence # <<>>
    BY <1>1, <1>2, <2>1, <2>3
  <2>5. CASE Same(t, o)
    <3>1. r = t.repeats + 1 /\ n > t.repeats + 1
      BY <1>1, <1>2, <2>1, <2>3, <2>5
    <3>2. Digest(t.evidence[n - t.repeats - 1]) # Digest(t.evidence[n])
      BY <2>1, <3>1 DEF RepeatsExact
    <3>3. Digest(t.evidence[n]) = Digest(o)
      BY <2>1, <2>5 DEF Same
    <3>4. n + 1 - r - 1 = n - t.repeats - 1 /\ n - t.repeats - 1 \in 1..n
      BY <1>1, <3>1
    <3>5. m.evidence[n + 1 - r - 1] = t.evidence[n - t.repeats - 1]
      BY <2>2, <3>4
    <3> QED
      BY <2>2, <3>2, <3>3, <3>5
  <2>6. CASE ~Same(t, o)
    <3>1. r = 0 /\ n + 1 - r - 1 = n /\ n \in 1..n
      BY <1>2, <2>3, <2>6
    <3>2. Digest(t.evidence[n]) # Digest(o)
      BY <2>1, <2>4, <2>6 DEF Same
    <3> QED
      BY <2>2, <3>1, <3>2
  <2> QED
    BY <2>5, <2>6
<1> QED
  BY <1>5, <1>6, <1>7

LEMMA ObserveKeeps == IInv /\ Observe => IInv'
<1> SUFFICES ASSUME IInv, Observe PROVE IInv'
  OBVIOUS
<1> USE TypesOfRun
<1> DEFINE m == RecordObservation(mem, Observation)
           nxt == IF m.repeats >= MaxNoProgressRepeats THEN "failing" ELSE "loop"
<1>1. pc = "observed" /\ pc \in Working \ {"enter"} /\ Handled /\ UNCHANGED dispatching
  BY DEF Observe, Working
<1>2. Outcome(m, nxt)
  BY SaveOutcome DEF Observe
<1>3. nxt \in {"failing", "loop"} /\ (nxt = "loop" => ~(m.repeats >= MaxNoProgressRepeats))
  OBVIOUS
<1>4. Observation \in Observations /\ Observation.ref = traced /\ traced \in Nat /\ traced > 0
  <2>1. decision.kind = "tool" /\ traced > 0
    BY <1>1 DEF IInv, CallView
  <2>2. decision.tool \in Tools /\ decision.path \in Paths \cup {NoPath} /\ traced \in Nat
    BY <2>1, ToolDecision DEF RunTypes
  <2>3. "nothing" \in Sights(decision.tool)
    BY DEF Sights
  <2>4. sight \in UNION {Sights(t) : t \in Tools}
    BY <2>2, <2>3 DEF RunTypes
  <2> QED
    BY <2>1, <2>2, <2>4 DEF Observation, Observations
<1>5. mem \in RunTask /\ mem.evidence \in Seq(Observations) /\ mem.state \notin Settled
      /\ mem.replans <= MaxReplans + crashes /\ mem.replans \in Nat /\ crashes \in Nat
  BY <1>1, MemTypes
<1>6. Sound(mem, "failing")
  BY <1>1, MemSound DEF Pcs
<1>7. RepeatsExact(mem)
  BY <1>6 DEF Sound
<1>8. m = RecordObservation(mem, Observation)
  OBVIOUS
<1> HIDE DEF m, nxt
<1>9. m \in RunTask /\ RepeatsExact(m) /\ m.evidence = Append(mem.evidence, Observation)
      /\ m.state = mem.state /\ m.toolCalls = mem.toolCalls /\ m.iterations = mem.iterations
      /\ m.replans = mem.replans
  BY <1>4, <1>5, <1>7, <1>8, RecordExact
<1>10. GroundedTask(m)
  <2>1. \A i \in DOMAIN mem.evidence : mem.evidence[i].ref \in 1..traced
    BY <1>6 DEF Sound, GroundedTask
  <2>2. \A i \in DOMAIN m.evidence :
            m.evidence[i] = Observation \/ (i \in DOMAIN mem.evidence /\ m.evidence[i] = mem.evidence[i])
    BY <1>4, <1>5, <1>9
  <2>3. traced \in 1..traced
    BY <1>4
  <2>4. \A i \in DOMAIN m.evidence : m.evidence[i].ref \in 1..traced
    BY <1>4, <2>1, <2>2, <2>3
  <2> QED
    BY <1>5, <1>9, <2>4 DEF GroundedTask, Settled
<1>11. Sound(m, nxt)
  <2>1. calls <= m.toolCalls /\ nxt # "guarded" /\ m.replans <= MaxReplans + 1 + crashes
    BY <1>3, <1>6, <1>9 DEF Sound
  <2>2. nxt \in Working => nxt = "loop"
    BY <1>3 DEF Working
  <2>3. nxt = "loop" => m.repeats < MaxNoProgressRepeats
    BY <1>3, <1>9, Limits DEF RunTask
  <2> QED
    BY <1>5, <1>9, <1>10, <2>1, <2>2, <2>3 DEF Sound
<1> QED
  BY <1>1, <1>2, <1>3, <1>9, <1>11, DispatchKeeps DEF Pcs, Working

(* What is said of the task file alone does not depend on where a finished run is. *)
LEMMA PublishKeeps == IInv /\ PublishAnswer => IInv'
<1> SUFFICES ASSUME IInv, PublishAnswer PROVE IInv'
  OBVIOUS
<1> USE TypesOfRun
<1>1. pc = "completed" /\ pc' \in {"releasing", "failing"} /\ faults' \in Nat
      /\ UNCHANGED <<request, due, crashes, scope, finalOnly, traced, calls, consults,
                     disk, mem, decision, sight>>
  BY DEF PublishAnswer, Fault, dispatching, fixed
<1>2. TaskInv'
  BY <1>1 DEF TaskInv, WorkingCopy, Accounts, ReplansCounted, RepeatsCounted, RepeatsExact,
       Digest, EvidenceTraced, OutcomeGrounded, Working
<1>3. RunTypes' /\ CallView' /\ pc' \in Pcs
  BY <1>1 DEF RunTypes, CallView, Working, Pcs
<1> QED
  BY <1>1, <1>2, <1>3, Assemble

LEMMA FailRunKeeps == IInv /\ FailRun => IInv'
<1> SUFFICES ASSUME IInv, FailRun PROVE IInv'
  OBVIOUS
<1> USE TypesOfRun
<1> DEFINE m == [mem EXCEPT !.state = "FAILED"]
<1>1. pc = "failing" /\ pc' = "releasing" /\ faults' \in Nat /\ mem' = m /\ disk' \in {disk, m}
      /\ UNCHANGED <<request, due, crashes, scope, finalOnly, traced, calls, consults,
                     decision, sight>>
  BY DEF FailRun, dispatching, fixed
<1>2. mem \in RunTask
  BY DEF TaskInv
<1>3. m \in RunTask /\ m.evidence = mem.evidence /\ m.repeats = mem.repeats
      /\ m.toolCalls = mem.toolCalls /\ m.replans = mem.replans /\ m.iterations = mem.iterations
      /\ m.state = "FAILED"
  BY <1>2 DEF RunTask, States, Settled
<1> HIDE DEF m
<1>4. disk' \in RunTask /\ mem' \in RunTask
  BY <1>1, <1>3 DEF TaskInv
<1>5. WorkingCopy'
  BY <1>1 DEF WorkingCopy, Working
<1>6. Accounts'
  BY <1>1, <1>3 DEF TaskInv, Accounts
<1>7. ReplansCounted'
  BY <1>1, <1>3 DEF TaskInv, ReplansCounted, Working
<1>8. RepeatsCounted'
  <2>1. RepeatsExact(m) /\ RepeatsExact(disk)
    BY <1>3 DEF TaskInv, RepeatsCounted, RepeatsExact, Digest
  <2>2. RepeatsExact(disk') /\ RepeatsExact(mem')
    BY <1>1, <2>1
  <2>3. (RepeatsExact(disk))' /\ (RepeatsExact(mem))'
    BY <2>2 DEF RepeatsExact, Digest
  <2> QED
    BY <1>1, <2>3 DEF RepeatsCounted, Working
<1>9. EvidenceTraced'
  BY <1>1, <1>3 DEF TaskInv, EvidenceTraced
<1>10. OutcomeGrounded'
  <2>1. GroundedTask(disk) /\ GroundedTask(m)
    BY <1>3 DEF TaskInv, OutcomeGrounded, EvidenceTraced, GroundedTask
  <2>2. GroundedTask(disk')
    BY <1>1, <2>1
  <2> QED
    BY <1>1, <2>2 DEF OutcomeGrounded, GroundedTask
<1>11. TaskInv'
  BY <1>4, <1>5, <1>6, <1>7, <1>8, <1>9, <1>10 DEF TaskInv
<1>12. RunTypes' /\ CallView' /\ pc' \in Pcs
  BY <1>1 DEF RunTypes, CallView, Working, Pcs
<1> QED
  BY <1>1, <1>11, <1>12, Assemble

LEMMA OneMoreCrash ==
    \A r, a, b \in Nat :
        r <= a + 1 + b =>
            /\ r <= a + (b + 1) /\ r <= a + 1 + (b + 1)
            /\ 0 <= a + 1 + b /\ 0 <= a + 1 + (b + 1)
OBVIOUS

(* The run is over: what is left is the task file, with or without its lease. *)
LEMMA OverKeeps ==
    ASSUME IInv, disk' \in RunTask, mem' = NewTask, pc' = "idle",
           disk'.state = disk.state, disk'.evidence = disk.evidence, disk'.repeats = disk.repeats,
           disk'.toolCalls = disk.toolCalls, disk'.iterations = disk.iterations,
           disk'.replans = disk.replans, disk'.action = disk.action,
           decision' = NoDecision, sight' = "nothing", scope' = NoScope, finalOnly' = FALSE,
           UNCHANGED <<request, traced, calls, consults>>, faults' \in Nat, due' \in BOOLEAN,
           \/ crashes' = crashes /\ due' = FALSE
           \/ crashes' = crashes + 1
    PROVE  IInv'
<1> USE TypesOfRun
<1>1. NewTask \in RunTask /\ NewTask.evidence = <<>> /\ NewTask.repeats = 0 /\ NewTask.replans = 0
  BY RuntimeAssumption, <<>> \in Seq(Observations) DEF NewTask, RunTask, States, Settled
<1>2. crashes \in Nat /\ disk.replans \in Nat /\ MaxReplans \in Nat
  BY Limits DEF RunTypes, TaskInv, RunTask
<1>3. WorkingCopy' /\ CallView'
  BY DEF WorkingCopy, CallView, Working
<1>4. Accounts'
  BY DEF TaskInv, Accounts
<1>5. ReplansCounted'
  <2>1. disk.replans <= MaxReplans + 1 + crashes
    BY DEF TaskInv, ReplansCounted
  <2>2. /\ disk.replans <= MaxReplans + (crashes + 1)
        /\ disk.replans <= MaxReplans + 1 + (crashes + 1)
        /\ 0 <= MaxReplans + 1 + crashes /\ 0 <= MaxReplans + 1 + (crashes + 1)
    BY <1>2, <2>1, OneMoreCrash
  <2>3. CASE crashes' = crashes /\ due' = FALSE
    BY <1>1, <2>1, <2>2, <2>3 DEF ReplansCounted, Working
  <2>4. CASE crashes' = crashes + 1
    BY <1>1, <2>2, <2>4 DEF ReplansCounted, Working
  <2> QED
    BY <2>3, <2>4
<1>6. RepeatsCounted'
  <2>1. (RepeatsExact(disk))'
    BY DEF TaskInv, RepeatsCounted, RepeatsExact, Digest
  <2>2. (RepeatsExact(mem))'
    BY <1>1 DEF RepeatsExact
  <2>3. crashes' = 0 => due' = FALSE
    BY <1>2
  <2> QED
    BY <2>1, <2>2, <2>3 DEF RepeatsCounted, Working
<1>7. EvidenceTraced'
  BY <1>1 DEF TaskInv, EvidenceTraced
<1>8. OutcomeGrounded'
  BY DEF TaskInv, OutcomeGrounded
<1>9. TaskInv'
  BY <1>1, <1>3, <1>4, <1>5, <1>6, <1>7, <1>8 DEF TaskInv
<1>10. RunTypes' /\ pc' \in Pcs
  <2>1. crashes' \in Nat
    BY <1>2
  <2>2. scope' \in [authorized : SUBSET Paths, excluded : SUBSET Paths]
    BY DEF NoScope
  <2> QED
    BY <2>1, <2>2 DEF RunTypes, Pcs
<1> QED
  BY <1>3, <1>9, <1>10, Assemble

LEMMA ReleaseKeeps == IInv /\ ReleaseTask => IInv'
<1> SUFFICES ASSUME IInv, ReleaseTask PROVE IInv'
  OBVIOUS
<1> USE TypesOfRun
<1> DEFINE released == [disk EXCEPT !.token = 0, !.expires = 0]
<1>1. disk' \in {disk, released} /\ mem' = NewTask /\ pc' = "idle" /\ due' = FALSE
      /\ decision' = NoDecision /\ sight' = "nothing" /\ scope' = NoScope /\ finalOnly' = FALSE
      /\ UNCHANGED <<request, traced, calls, consults, crashes, faults>>
  BY DEF ReleaseTask
<1>2. disk \in RunTask
  BY DEF TaskInv
<1>3. released \in RunTask /\ released.state = disk.state /\ released.evidence = disk.evidence
      /\ released.repeats = disk.repeats /\ released.toolCalls = disk.toolCalls
      /\ released.iterations = disk.iterations /\ released.replans = disk.replans
      /\ released.action = disk.action
  <2>1. 0 \in 0..LeaseTTL
    BY Limits
  <2>2. released \in RunTask
    BY <1>2, <2>1 DEF RunTask
  <2> QED
    BY <1>2, <2>2 DEF RunTask
<1> HIDE DEF released
<1> QED
  BY <1>1, <1>2, <1>3, OverKeeps

LEMMA CrashKeeps == IInv /\ Crash => IInv'
<1> SUFFICES ASSUME IInv, Crash PROVE IInv'
  OBVIOUS
<1> USE TypesOfRun
<1>1. mem' = NewTask /\ pc' = "idle" /\ due' = TRUE /\ crashes' = crashes + 1
      /\ decision' = NoDecision /\ sight' = "nothing" /\ scope' = NoScope /\ finalOnly' = FALSE
      /\ UNCHANGED <<request, disk, traced, calls, consults, faults>>
  BY DEF Crash
<1>2. disk \in RunTask
  BY DEF TaskInv
<1> QED
  BY <1>1, <1>2, OverKeeps

(* Time passes: only the time left changes, on disk and in memory alike. *)
LEMMA CloserTask ==
    ASSUME NEW t \in RunTask
    PROVE  /\ Closer(t) \in RunTask
           /\ Closer(t).state = t.state /\ Closer(t).evidence = t.evidence
           /\ Closer(t).repeats = t.repeats /\ Closer(t).toolCalls = t.toolCalls
           /\ Closer(t).iterations = t.iterations /\ Closer(t).replans = t.replans
           /\ Closer(t).action = t.action
<1>1. t.deadline \in 0..TaskTimeout /\ t.expires \in 0..LeaseTTL
  BY DEF RunTask
<1>2. PICK a \in 0..TaskTimeout : a = Later(t.deadline)
  BY <1>1, Limits DEF Later
<1>3. PICK b \in 0..LeaseTTL : b = Later(t.expires)
  BY <1>1, Limits DEF Later
<1>4. Closer(t) = [t EXCEPT !.deadline = a, !.expires = b]
  BY <1>2, <1>3 DEF Closer, RunTask
<1> DEFINE c == [t EXCEPT !.deadline = a, !.expires = b]
<1>5. c \in RunTask
  BY DEF RunTask
<1>6. /\ c.state = t.state /\ c.evidence = t.evidence
      /\ c.repeats = t.repeats /\ c.toolCalls = t.toolCalls
      /\ c.iterations = t.iterations /\ c.replans = t.replans
      /\ c.action = t.action
  BY DEF RunTask
<1> HIDE DEF c
<1>7. Closer(t) = c
  BY <1>4 DEF c
<1> QED
  BY <1>5, <1>6, <1>7

LEMMA TickKeeps == IInv /\ Tick => IInv'
<1> SUFFICES ASSUME IInv, Tick PROVE IInv'
  OBVIOUS
<1> USE TypesOfRun
<1>1. disk' = Closer(disk) /\ mem' = Closer(mem)
      /\ UNCHANGED <<request, due, crashes, scope, finalOnly, traced, calls, consults,
                     pc, decision, sight, faults>>
  BY DEF Tick, dispatching, fixed
<1>2. disk \in RunTask /\ mem \in RunTask
  BY DEF TaskInv
<1>3. /\ disk' \in RunTask
      /\ disk'.state = disk.state /\ disk'.evidence = disk.evidence
      /\ disk'.repeats = disk.repeats /\ disk'.toolCalls = disk.toolCalls
      /\ disk'.iterations = disk.iterations /\ disk'.replans = disk.replans
      /\ disk'.action = disk.action
  BY <1>1, <1>2, CloserTask
<1>4. /\ mem' \in RunTask
      /\ mem'.state = mem.state /\ mem'.evidence = mem.evidence
      /\ mem'.repeats = mem.repeats /\ mem'.toolCalls = mem.toolCalls
      /\ mem'.iterations = mem.iterations /\ mem'.replans = mem.replans
  BY <1>1, <1>2, CloserTask
<1>5. mem = disk => mem' = disk'
  BY <1>1
<1>6. WorkingCopy'
  BY <1>1, <1>3, <1>5 DEF TaskInv, WorkingCopy
<1>7. Accounts' /\ ReplansCounted'
  BY <1>1, <1>3, <1>4 DEF TaskInv, Accounts, ReplansCounted
<1>8. RepeatsCounted'
  BY <1>1, <1>3, <1>4 DEF TaskInv, RepeatsCounted, RepeatsExact, Digest
<1>9. EvidenceTraced' /\ OutcomeGrounded'
  BY <1>1, <1>3, <1>4 DEF TaskInv, EvidenceTraced, OutcomeGrounded
<1>10. TaskInv'
  BY <1>3, <1>4, <1>6, <1>7, <1>8, <1>9 DEF TaskInv
<1>11. RunTypes' /\ CallView'
  BY <1>1 DEF RunTypes, IInv, CallView, ScopeViolation
<1> QED
  BY <1>1, <1>10, <1>11, Assemble

LEMMA StepKeepsIInv == IInv /\ [Next]_vars => IInv'
<1> SUFFICES ASSUME IInv, [Next]_vars PROVE IInv'
  OBVIOUS
<1>1. CASE Step
  BY <1>1, ClaimKeeps, EnterKeeps, BeginKeeps, DecideTimesOutKeeps, ReplanKeeps, CompleteKeeps,
     PublishKeeps, PrepareKeeps, RefuseReadKeeps, ReserveKeeps, CallToolKeeps, ObserveKeeps,
     FailRunKeeps, ReleaseKeeps DEF Step
<1>2. CASE PlannerAnswers
  BY <1>2, DecideFailsKeeps, DecideKeeps DEF PlannerAnswers
<1>3. CASE UNCHANGED vars
  BY <1>3 DEF vars, IInv, RuntimeTypeOK, WorkingCopy, Accounts, ReplansCounted, RepeatsCounted,
       RepeatsExact, Digest, EvidenceTraced, CallView, OutcomeGrounded
<1> QED
  BY <1>1, <1>2, <1>3, CrashKeeps, TickKeeps DEF Next

LEMMA IInvAlways == Spec => []IInv
<1> QED
  BY InitIInv, StepKeepsIInv, PTL DEF Spec

-----------------------------------------------------------------------------
(* What follows. *)

LEMMA BudgetsFollow == IInv => BudgetsHold
<1> SUFFICES ASSUME IInv PROVE BudgetsHold
  OBVIOUS
<1>1. disk.toolCalls \in 0..MaxToolCalls /\ disk.iterations \in 0..MaxIterations
      /\ calls \in Nat /\ consults \in Nat
  BY DEF IInv, RuntimeTypeOK, RunTask
<1>2. calls <= disk.toolCalls /\ consults <= disk.iterations
  BY DEF IInv, Accounts
<1> QED
  BY <1>1, <1>2, Limits DEF BudgetsHold

LEMMA ProgressFollows == IInv => ProgressRequired
<1> SUFFICES ASSUME IInv, pc \in {"deciding", "dispatch", "guarded"}, crashes = 0,
                    Len(mem.evidence) > MaxNoProgressRepeats
             PROVE  \E i \in (Len(mem.evidence) - MaxNoProgressRepeats)..Len(mem.evidence) :
                       Digest(mem.evidence[i]) # Digest(mem.evidence[Len(mem.evidence)])
  BY DEF ProgressRequired
<1>1. pc \in Working
  BY DEF Working
<1>2. mem.evidence \in Seq(Observations) /\ mem.repeats \in Nat /\ mem = disk
  BY <1>1, MemTypes, MemSound
<1>3. PICK n \in Nat : n = Len(mem.evidence)
  BY <1>2
<1>4. n > MaxNoProgressRepeats /\ mem.evidence # <<>>
  BY <1>2, <1>3, Limits
<1>5. mem.repeats < MaxNoProgressRepeats
  BY <1>1, <1>2, <1>4 DEF IInv, RepeatsCounted
<1>6. n > mem.repeats + 1 /\ n - mem.repeats - 1 \in (n - MaxNoProgressRepeats)..n
  BY <1>2, <1>4, <1>5, Limits
<1>7. Digest(mem.evidence[n - mem.repeats - 1]) # Digest(mem.evidence[n])
  BY <1>3, <1>6 DEF IInv, RepeatsCounted, RepeatsExact
<1> QED
  BY <1>3, <1>6, <1>7

(***************************************************************************)
(* RuntimeInvHolds: whatever the planner answers, whatever fails and       *)
(* however often the server restarts, the counters in the task file        *)
(* account for every call of a tool and every consultation of the planner  *)
(* (ReserveToolCall and beginGeneralDecision save before they go on), so   *)
(* the budgets hold over all runs of a task, and a first run that only     *)
(* repeats an observation stops.                                           *)
(***************************************************************************)
THEOREM RuntimeInvHolds == Spec => []RuntimeInv
<1>1. IInv => RuntimeInv
  BY BudgetsFollow, ProgressFollows DEF IInv, RuntimeInv
<1> QED
  BY <1>1, IInvAlways, PTL

(***************************************************************************)
(* OutcomeGroundedAlways: a task completes or waits for an approval only   *)
(* with evidence that the trace holds, and waits only for the action the   *)
(* operator asked for, on a target that evidence shows and that the risk   *)
(* engine does not hold to be critical.                                    *)
(***************************************************************************)
THEOREM OutcomeGroundedAlways == Spec => []OutcomeGrounded
<1>1. IInv => OutcomeGrounded
  BY DEF IInv
<1> QED
  BY <1>1, IInvAlways, PTL

(* Two paths that contain a third lie one within the other. *)
LEMMA PrefixesComparable ==
    ASSUME NEW x \in Seq(STRING), NEW y \in Seq(STRING), NEW p \in Seq(STRING),
           PathWithinScope(x, p), PathWithinScope(y, p)
    PROVE  PathWithinScope(x, y) \/ PathWithinScope(y, x)
<1>1. \A s \in {x, y} : Len(s) <= Len(p) /\ \A i \in 1..Len(s) : s[i] = p[i]
  BY DEF PathWithinScope
<1>2. ASSUME NEW a \in {x, y}, NEW b \in {x, y}, Len(a) <= Len(b)
      PROVE  PathWithinScope(a, b)
  <2>1. a \in Seq(STRING) /\ b \in Seq(STRING)
    OBVIOUS
  <2>2. SubSeq(b, 1, Len(a)) \in Seq(STRING) /\ Len(SubSeq(b, 1, Len(a))) = Len(a)
        /\ \A i \in 1..Len(a) : SubSeq(b, 1, Len(a))[i] = b[i]
    BY <1>2, <2>1
  <2>3. \A i \in 1..Len(a) : SubSeq(b, 1, Len(a))[i] = a[i]
    BY <1>1, <1>2, <2>1, <2>2
  <2>4. SubSeq(b, 1, Len(a)) = a
    BY <2>1, <2>2, <2>3, SeqEqual
  <2> QED
    BY <1>2, <2>4 DEF PathWithinScope
<1> QED
  BY <1>2

LEMMA PrefixesTransitive ==
    ASSUME NEW x \in Seq(STRING), NEW y \in Seq(STRING), NEW p \in Seq(STRING),
           PathWithinScope(x, y), PathWithinScope(y, p)
    PROVE  PathWithinScope(x, p)
<1>1. Len(x) <= Len(y) /\ Len(y) <= Len(p) /\ Len(x) <= Len(p)
  BY DEF PathWithinScope
<1>2. \A i \in 1..Len(x) : x[i] = p[i]
  BY <1>1 DEF PathWithinScope
<1>3. SubSeq(p, 1, Len(x)) \in Seq(STRING) /\ Len(SubSeq(p, 1, Len(x))) = Len(x)
      /\ \A i \in 1..Len(x) : SubSeq(p, 1, Len(x))[i] = p[i]
  BY <1>1
<1>4. SubSeq(p, 1, Len(x)) = x
  BY <1>2, <1>3, SeqEqual
<1> QED
  BY <1>1, <1>4 DEF PathWithinScope

(* What ScopeViolation leaves for a tool to touch. *)
LEMMA AllowedTouches ==
    ASSUME NEW s \in [authorized : SUBSET Paths, excluded : SUBSET Paths],
           NEW d \in Decisions \cup {NoDecision}, d.kind = "tool", ~ScopeViolation(s, d)
    PROVE  /\ \A p \in Touches(d), x \in s.excluded : ~PathWithinScope(x, p)
           /\ s.authorized # {} =>
                 /\ Touches(d) # {}
                 /\ \A p \in Touches(d) : \E a \in s.authorized : PathWithinScope(a, p)
<1>1. /\ d.path \in Paths \cup {NoPath} /\ (d.tool \notin FileTools => d.path = NoPath)
      /\ NoPath \notin Paths /\ Paths \subseteq Seq(STRING)
      /\ s.authorized \subseteq Paths /\ s.excluded \subseteq Paths
  BY ToolDecision, RuntimeAssumption DEF NoPath
<1>2. Traverses(d.tool) => d.tool \in FileTools
  BY DEF Traverses, FileTools
<1>3. CASE s = NoScope
  BY <1>3 DEF NoScope
<1>4. CASE s # NoScope /\ d.tool \notin FileTools
  <2>1. s.authorized = {}
    BY <1>4 DEF ScopeViolation
  <2>2. Touches(d) = {}
    BY <1>1, <1>2, <1>4 DEF Touches
  <2> QED
    BY <2>1, <2>2
<1>5. CASE s # NoScope /\ d.tool \in FileTools
  <2>1. d.path \in Paths
    BY <1>1, <1>5 DEF ScopeViolation
  <2>2. \A x \in s.excluded :
            /\ ~PathWithinScope(x, d.path)
            /\ Traverses(d.tool) => ~PathWithinScope(d.path, x)
    BY <1>5 DEF ScopeViolation
  <2>3. s.authorized # {} => \E a \in s.authorized : PathWithinScope(a, d.path)
    BY <1>5 DEF ScopeViolation
  <2>4. ASSUME NEW p \in Touches(d)
        PROVE  p \in Paths /\ (p = d.path \/ (Traverses(d.tool) /\ PathWithinScope(d.path, p)))
    BY <2>4 DEF Touches
  <2>5. ASSUME NEW p \in Touches(d), NEW x \in s.excluded, PathWithinScope(x, p)
        PROVE  FALSE
    <3>1. CASE p = d.path
      BY <2>2, <2>5, <3>1
    <3>2. CASE Traverses(d.tool) /\ PathWithinScope(d.path, p)
      <4>1. x \in Seq(STRING) /\ p \in Seq(STRING) /\ d.path \in Seq(STRING)
        BY <1>1, <2>1, <2>4
      <4>2. PathWithinScope(x, d.path) \/ PathWithinScope(d.path, x)
        BY <2>5, <3>2, <4>1, PrefixesComparable
      <4> QED
        BY <2>2, <3>2, <4>2
    <3> QED
      BY <2>4, <3>1, <3>2
  <2>6. d.path \in Touches(d)
    BY <2>1 DEF Touches
  <2>7. ASSUME s.authorized # {}, NEW p \in Touches(d)
        PROVE  \E a \in s.authorized : PathWithinScope(a, p)
    <3>1. PICK a \in s.authorized : PathWithinScope(a, d.path)
      BY <2>3, <2>7
    <3>2. CASE p = d.path
      BY <3>1, <3>2
    <3>3. CASE PathWithinScope(d.path, p)
      <4>1. a \in Seq(STRING) /\ p \in Seq(STRING) /\ d.path \in Seq(STRING)
        BY <1>1, <2>1, <2>4
      <4> QED
        BY <3>1, <3>3, <4>1, PrefixesTransitive
    <3> QED
      BY <2>4, <3>2, <3>3
  <2> QED
    BY <2>5, <2>6, <2>7
<1> QED
  BY <1>3, <1>4, <1>5

(***************************************************************************)
(* ReadsInScopeAlways: a tool is called only if the catalogue has it as a  *)
(* read, and validateGeneralReadScope keeps all it touches, below the path *)
(* it is given too, out of what the operator excluded and inside what the  *)
(* request or the session names.                                           *)
(***************************************************************************)
THEOREM ReadsInScopeAlways == Spec => []ReadsInScope
<1>1. IInv => ReadsInScope
  <2> SUFFICES ASSUME IInv, pc = "observed" PROVE ReadsInScope
    BY DEF ReadsInScope
  <2>1. scope.excluded = request.excluded /\ decision.kind = "tool" /\ ~ScopeViolation(scope, decision)
        /\ Evaluate(ReadProposal(decision.tool)).final = "ALLOW"
    BY DEF IInv, CallView, Working
  <2>2. scope \in [authorized : SUBSET Paths, excluded : SUBSET Paths]
        /\ decision \in Decisions \cup {NoDecision}
    BY DEF IInv, RuntimeTypeOK
  <2>3. Known(decision.tool) /\ Catalog[decision.tool].effect = "read"
    BY <2>1, AllowedIsRead
  <2>4. /\ \A p \in Touches(decision), x \in scope.excluded : ~PathWithinScope(x, p)
        /\ scope.authorized # {} =>
              /\ Touches(decision) # {}
              /\ \A p \in Touches(decision) : \E a \in scope.authorized : PathWithinScope(a, p)
    BY <2>1, <2>2, AllowedTouches
  <2> QED
    BY <2>1, <2>3, <2>4 DEF ReadsInScope
<1> QED
  BY <1>1, IInvAlways, PTL
=============================================================================
