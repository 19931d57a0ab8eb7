------------------------- MODULE ServerPartsProofs -------------------------
(***************************************************************************)
(* Proofs about the small parts of the server, for any constants: fencing  *)
(* excludes every worker but the last claimant (TaskStore); the roots in   *)
(* force, and the paths that actions are bound to and act on, stay within  *)
(* what the administrator configured (Settings); a page that follows a     *)
(* task gets its events in order and without a silent gap, and is told of  *)
(* an end only when that end is on disk (EventStream); and the admission   *)
(* of messages neither leaks what it counts nor leaves half a task however *)
(* calls, failures, confirmations and restarts interleave (Admission).     *)
(***************************************************************************)
EXTENDS TaskStore, Admission, EventStream, Settings,
        SequenceTheorems, FiniteSetTheorems, WellFoundedInduction, TLAPS

(* TaskStore. *)

LEMMA NewTaskType == NewTask \in Task /\ NewTask.token = 0 /\ NewTask.fence = 0
BY TaskStoreAssumption DEF NewTask, Task, FirstValue

(* A claim draws the fence nobody has drawn before. *)
LEMMA ClaimInv ==
    ASSUME FenceInv, NEW w \in Workers, ClaimTask(w)
    PROVE  FenceInv'
<1> DEFINE claimed == [disk EXCEPT !.token = disk.fence + 1,
                                   !.fence = disk.fence + 1,
                                   !.expires = clock + LeaseTTL]
<1>0. /\ disk \in Task /\ disk.fence \in Nat /\ disk.fence + 1 \in Nat
      /\ clock + LeaseTTL \in Nat
  BY TaskStoreAssumption DEF FenceInv, TaskTypeOK, Task
<1>1. /\ claimed \in Task /\ claimed.token = disk.fence + 1
      /\ claimed.fence = disk.fence + 1 /\ claimed.value = disk.value
      /\ disk.fence \in Nat
  <2> DEFINE f == disk.fence + 1
             e == clock + LeaseTTL
  <2>1. f \in Nat /\ e \in Nat
    BY <1>0
  <2>2. claimed = [disk EXCEPT !.token = f, !.fence = f, !.expires = e]
    OBVIOUS
  <2> HIDE DEF f, e, claimed
  <2>3. /\ claimed \in Task /\ claimed.token = f /\ claimed.fence = f
        /\ claimed.value = disk.value
    BY <1>0, <2>1, <2>2 DEF Task
  <2> QED BY <1>0, <2>3 DEF f
<1>2. /\ disk' = claimed /\ writer' = {w} /\ working' = working \cup {w}
      /\ copy' = [copy EXCEPT ![w] = claimed] /\ w \notin working /\ clock' = clock
  BY DEF ClaimTask
<1> HIDE DEF claimed
<1>3. TaskTypeOK'
  BY <1>1, <1>2 DEF FenceInv, TaskTypeOK
<1>4. copy'[w] = claimed /\ \A u \in working : copy'[u] = copy[u]
  BY <1>2 DEF FenceInv, TaskTypeOK
<1>5. \A u \in working : copy[u].fence \in 1..disk.fence
  BY DEF FenceInv
<1>6. disk'.token \in {0, disk'.fence}
  BY <1>1, <1>2
<1>7. ASSUME NEW u \in working'
      PROVE  /\ copy'[u].token = copy'[u].fence
             /\ copy'[u].fence \in 1..disk'.fence
             /\ disk'.token = copy'[u].token => writer' = {u}
             /\ \A x \in working' : copy'[x].fence = copy'[u].fence => x = u
  <2>1. CASE u = w
    BY <2>1, <1>1, <1>2, <1>4, <1>5
  <2>2. CASE u \in working
    <3>1. copy'[u].token = copy'[u].fence /\ copy'[u].fence \in 1..disk.fence
      BY <2>2, <1>4 DEF FenceInv
    <3>2. disk'.token # copy'[u].token
      BY <3>1, <1>1, <1>2
    <3>3. \A x \in working' : copy'[x].fence = copy'[u].fence => x = u
      BY <2>2, <3>1, <1>1, <1>2, <1>4 DEF FenceInv
    <3> QED BY <3>1, <3>2, <3>3, <1>1, <1>2
  <2> QED BY <1>2, <2>1, <2>2
<1> QED BY <1>3, <1>6, <1>7 DEF FenceInv

(* A save, accepted or not, leaves every lease as it is. *)
LEMMA SaveInv ==
    ASSUME FenceInv, NEW w \in Workers, NEW v \in Values,
           SaveTask(w, v) \/ SaveFails(w, v)
    PROVE  FenceInv'
<1> DEFINE written == [copy[w] EXCEPT !.value = v]
<1>1. /\ written \in Task /\ written.token = copy[w].token /\ written.fence = copy[w].fence
      /\ w \in working
      /\ copy' = [copy EXCEPT ![w] = written]
      /\ UNCHANGED <<clock, working>>
      /\ \/ UNCHANGED <<disk, writer>>
         \/ disk' = written /\ writer' = {w} /\ WriteAllowed(disk, written, Fresh)
  BY DEF SaveTask, SaveFails, FenceInv, TaskTypeOK, Task
<1> HIDE DEF written
<1>2. TaskTypeOK'
  BY <1>1 DEF FenceInv, TaskTypeOK
<1>3. \A u \in working : /\ copy'[u].token = copy[u].token
                         /\ copy'[u].fence = copy[u].fence
  BY <1>1 DEF FenceInv, TaskTypeOK
<1>4. copy[w].token = copy[w].fence /\ copy[w].fence # 0
  BY <1>1 DEF FenceInv
<1>5. disk'.token = disk.token /\ disk'.fence = disk.fence
  <2>1. CASE UNCHANGED <<disk, writer>>
    BY <2>1
  <2>2. CASE disk' = written /\ WriteAllowed(disk, written, Fresh)
    BY <2>2, <1>1, <1>4 DEF WriteAllowed, FenceInv, TaskTypeOK, Task
  <2> QED BY <1>1, <2>1, <2>2
<1>6. writer' = writer
  <2>1. CASE disk' = written /\ writer' = {w} /\ WriteAllowed(disk, written, Fresh)
    BY <2>1, <1>1, <1>4 DEF WriteAllowed, FenceInv, TaskTypeOK, Task
  <2> QED BY <1>1, <2>1
<1> QED BY <1>1, <1>2, <1>3, <1>5, <1>6 DEF FenceInv

LEMMA ReleaseInv ==
    ASSUME FenceInv, NEW w \in Workers, ReleaseTask(w)
    PROVE  FenceInv'
<1> DEFINE free == [disk EXCEPT !.token = 0, !.expires = 0]
<1>1. /\ free \in Task /\ free.token = 0 /\ free.fence = disk.fence
  BY DEF FenceInv, TaskTypeOK, Task
<1>2. /\ w \in working /\ working' = working \ {w} /\ clock' = clock
      /\ copy' = [copy EXCEPT ![w] = NewTask]
      /\ \/ UNCHANGED <<disk, writer>>
         \/ disk' = free /\ writer' = {w}
  BY DEF ReleaseTask
<1> HIDE DEF free
<1>3. TaskTypeOK'
  BY <1>1, <1>2, NewTaskType DEF FenceInv, TaskTypeOK
<1>4. \A u \in working' : u \in working /\ copy'[u] = copy[u]
  BY <1>2 DEF FenceInv, TaskTypeOK
<1>5. CASE UNCHANGED <<disk, writer>>
  BY <1>3, <1>4, <1>5 DEF FenceInv
<1>6. CASE disk' = free /\ writer' = {w}
  <2>1. \A u \in working' : /\ copy'[u].token = copy'[u].fence
                            /\ copy'[u].fence \in 1..disk'.fence
                            /\ copy'[u].token # 0
    BY <1>1, <1>4, <1>6 DEF FenceInv, TaskTypeOK, Task
  <2> QED BY <1>1, <1>3, <1>4, <1>6, <2>1 DEF FenceInv
<1> QED BY <1>2, <1>5, <1>6

LEMMA DeathInv ==
    ASSUME FenceInv, NEW w \in Workers, WorkerDies(w)
    PROVE  FenceInv'
<1>1. TaskTypeOK'
  BY NewTaskType DEF WorkerDies, FenceInv, TaskTypeOK
<1>2. \A u \in working' : u \in working /\ copy'[u] = copy[u]
  BY DEF WorkerDies, FenceInv, TaskTypeOK
<1> QED BY <1>1, <1>2 DEF WorkerDies, FenceInv

LEMMA FenceStep == FenceInv /\ [TaskNext]_taskVars => FenceInv'
<1> SUFFICES ASSUME FenceInv, [TaskNext]_taskVars PROVE FenceInv'
  OBVIOUS
<1>1. CASE Tick
  BY <1>1, TaskStoreAssumption DEF Tick, FenceInv, TaskTypeOK
<1>2. CASE UNCHANGED taskVars
  BY <1>2 DEF taskVars, FenceInv, TaskTypeOK
<1> QED BY <1>1, <1>2, ClaimInv, SaveInv, ReleaseInv, DeathInv DEF TaskNext

(***************************************************************************)
(* FenceInv holds in every state: types, tokens that are fences, and no    *)
(* fence held by two workers.                                              *)
(***************************************************************************)
THEOREM FenceInvariant == TaskSpec => []FenceInv
<1>1. TaskInit => FenceInv
  BY NewTaskType, TaskStoreAssumption DEF TaskInit, FenceInv, TaskTypeOK, Task
<1> QED BY <1>1, FenceStep, PTL DEF TaskSpec

(***************************************************************************)
(* validateTaskWrite accepts the saves of one worker at most, the one that *)
(* wrote the task last.                                                    *)
(***************************************************************************)
THEOREM ExclusiveWriterHolds == TaskSpec => []ExclusiveWriter
<1>1. FenceInv => ExclusiveWriter
  <2> SUFFICES ASSUME FenceInv, NEW w \in Workers, CanWrite(w)
               PROVE  writer = {w}
    BY DEF ExclusiveWriter
  <2>1. w \in working /\ copy[w].token = copy[w].fence /\ copy[w].fence # 0
    BY DEF CanWrite, FenceInv
  <2>2. disk.token = copy[w].token
    BY <2>1 DEF CanWrite, WriteAllowed
  <2> QED BY <2>1, <2>2 DEF FenceInv
<1> QED BY <1>1, FenceInvariant, PTL

(***************************************************************************)
(* No update is lost between workers: whoever changes the content of the   *)
(* task changes what it claimed or wrote itself, and fences only grow.     *)
(***************************************************************************)
THEOREM NoLostUpdateHolds == TaskSpec => NoLostUpdate
<1>1. FenceInv /\ [TaskNext]_taskVars => [NoLostUpdateStep]_taskVars
  <2> SUFFICES ASSUME FenceInv, TaskNext PROVE NoLostUpdateStep
    OBVIOUS
  <2>0. disk \in Task /\ disk.fence \in Nat
    BY DEF FenceInv, TaskTypeOK, Task
  <2>1. ASSUME NEW w \in Workers, ClaimTask(w) PROVE NoLostUpdateStep
    <3>1. disk'.fence = disk.fence + 1 /\ disk'.value = disk.value
      BY <2>0, <2>1 DEF ClaimTask, Task
    <3> QED BY <2>0, <3>1 DEF NoLostUpdateStep
  <2>2. ASSUME NEW w \in Workers, NEW v \in Values, SaveTask(w, v)
        PROVE  NoLostUpdateStep
    <3> DEFINE written == [copy[w] EXCEPT !.value = v]
    <3>1. CASE WriteAllowed(disk, written, Fresh)
      <4>1. /\ w \in working /\ written.token = copy[w].token
            /\ written.fence = copy[w].fence /\ disk' = written /\ writer' = {w}
        BY <2>2, <3>1 DEF SaveTask, FenceInv, TaskTypeOK, Task
      <4> HIDE DEF written
      <4>2. copy[w].token = copy[w].fence /\ copy[w].fence \in 1..disk.fence
        BY <4>1 DEF FenceInv
      <4>3. disk.token = copy[w].token /\ disk'.fence = disk.fence
        BY <2>0, <3>1, <4>1, <4>2 DEF WriteAllowed
      <4>4. writer = {w}
        BY <4>1, <4>3 DEF FenceInv
      <4> QED BY <2>0, <4>1, <4>3, <4>4 DEF NoLostUpdateStep
    <3>2. CASE ~WriteAllowed(disk, written, Fresh)
      BY <2>2, <3>2 DEF SaveTask, NoLostUpdateStep
    <3> QED BY <3>1, <3>2
  <2>3. ASSUME NEW w \in Workers, ReleaseTask(w) PROVE NoLostUpdateStep
    <3>1. CASE ReleaseAllowed(disk, copy[w].token, copy[w].fence)
      <4>1. /\ disk'.fence = disk.fence /\ disk'.value = disk.value
            /\ writer' = {w} /\ w \in working
        BY <2>0, <2>3, <3>1 DEF ReleaseTask, Task
      <4>2. writer = {w}
        BY <3>1, <4>1 DEF ReleaseAllowed, FenceInv
      <4> QED BY <2>0, <4>1, <4>2 DEF NoLostUpdateStep
    <3>2. CASE ~ReleaseAllowed(disk, copy[w].token, copy[w].fence)
      BY <2>3, <3>2 DEF ReleaseTask, NoLostUpdateStep
    <3> QED BY <3>1, <3>2
  <2>4. CASE disk' = disk
    BY <2>4 DEF NoLostUpdateStep
  <2> QED BY <2>1, <2>2, <2>3, <2>4 DEF TaskNext, SaveFails, WorkerDies, Tick
<1> QED BY <1>1, FenceInvariant, PTL DEF TaskSpec, NoLostUpdate

-----------------------------------------------------------------------------
(* Settings. *)

(* What is inside something inside a root is inside that root. *)
LEMMA InsideTransitive ==
    ASSUME NEW p \in Seq(STRING), NEW q \in Seq(STRING), NEW r \in Seq(STRING),
           Inside(p, q), Inside(q, r)
    PROVE  Inside(p, r)
<1>1. /\ Len(q) <= Len(p) /\ \A i \in 1..Len(q) : q[i] = p[i]
      /\ Len(r) <= Len(q) /\ \A i \in 1..Len(r) : r[i] = q[i]
  BY DEF Inside, IsPrefix
<1>2. Len(r) <= Len(p) /\ \A i \in 1..Len(r) : r[i] = p[i]
  BY <1>1
<1> QED BY <1>2 DEF Inside, IsPrefix

(* A path that is resolved is a path. *)
LEMMA ResolvedIsPath ==
    ASSUME leadsTo \in LinkTargets \cup {Link}, NEW p \in Seq(STRING)
    PROVE  Resolved(p) \in Seq(STRING)
<1>1. leadsTo \in Seq(STRING) /\ Link \in Seq(STRING)
  BY SettingsAssumption
<1>2. CASE Inside(p, Link)
  <2>1. SubSeq(p, Len(Link) + 1, Len(p)) \in Seq(STRING)
    BY <1>1
  <2> QED BY <1>1, <1>2, <2>1 DEF Resolved
<1>3. CASE ~Inside(p, Link)
  BY <1>3 DEF Resolved
<1> QED BY <1>2, <1>3

-----------------------------------------------------------------------------
SettingValues == Seq(STRING) \cup Provider

(* The variables are functions of the right domain. *)
SettingsShape ==
    /\ file \in [Kinds -> SUBSET SettingValues] /\ live \in [Kinds -> SUBSET SettingValues]
    /\ reported \in [Kinds -> SUBSET SettingValues]
    /\ saving \in [Kinds -> [at : {"idle", "save", "apply"}, value : SUBSET SettingValues]]
    /\ unclear \in [Kinds -> SUBSET SUBSET SettingValues]
    /\ reloaded \in [Kinds -> BOOLEAN]

(* What a call that holds the mutex, and memory, may rely on. *)
SettingsHeld ==
    /\ \A k \in Kinds : saving[k].at = "apply" => file[k] = saving[k].value
    /\ \A k \in Kinds : ~reloaded[k] => live[k] = reported[k]
    /\ saving["roots"].at # "idle" => ValidRoots(saving["roots"].value)
    /\ action.at = "bound" => action.path = action.real

SettingsInv == SettingsShape /\ SettingsHeld /\ SettingsKept /\ RootsHold

LEMMA KindFacts ==
    /\ "roots" \in Kinds /\ "llm" \in Kinds
    /\ \A k \in Kinds : k = "roots" \/ k = "llm"
    /\ ValuesOf("roots") = SUBSET Seq(STRING)
    /\ ValuesOf("llm") = {{}} \cup {{p} : p \in Provider}
    /\ \A k \in Kinds : \A v \in ValuesOf(k) : v \in SUBSET SettingValues
    /\ \A k \in Kinds : {} \in ValuesOf(k)
BY DEF Kinds, ValuesOf, SettingValues

LEMMA SettingsInitInv == SettingsInit => SettingsInv
<1> SUFFICES ASSUME SettingsInit PROVE SettingsInv
  OBVIOUS
<1>1. LabRoots \in ValuesOf("roots") /\ EnvProvider \in ValuesOf("llm")
  BY SettingsAssumption, KindFacts DEF Provider
<1>2. /\ live["roots"] = LabRoots /\ live["llm"] = EnvProvider
      /\ \A k \in Kinds : live[k] \in {LabRoots, EnvProvider} /\ live[k] \in ValuesOf(k)
  BY <1>1, KindFacts DEF SettingsInit
<1>3. SettingsShape
  BY <1>2, KindFacts DEF SettingsInit, SettingsShape, NoSave
<1>4. SettingsHeld
  BY KindFacts DEF SettingsInit, SettingsHeld, NoSave, NoAction
<1>5. SettingsKept
  <2>1. \A k \in Kinds : /\ file[k] = {} /\ saving[k] = NoSave /\ unclear[k] = {}
                         /\ reported[k] = live[k]
    BY DEF SettingsInit
  <2>2. NoSave.at = "idle" /\ NoSave.value = {}
    BY DEF NoSave
  <2>3. leadsTo \in LinkTargets \cup {Link} /\ alive \in BOOLEAN
    BY DEF SettingsInit
  <2> QED BY <1>2, <2>1, <2>2, <2>3, KindFacts DEF SettingsKept
<1>6. ValidRoots(LabRoots)
  <2>1. \A r \in LabRoots : Inside(r, r)
    BY SettingsAssumption DEF Inside, IsPrefix
  <2> QED BY <2>1, SettingsAssumption DEF ValidRoots, WithinMaximum, InsideAny, LoadConfig
<1>7. RootsHold
  BY <1>2, <1>6 DEF SettingsInit, RootsHold, NoAction
<1> QED BY <1>3, <1>4, <1>5, <1>7 DEF SettingsInv

(* A call takes the mutex with a value that was checked. *)
LEMMA BeginInv ==
    ASSUME SettingsInv, NEW k \in Kinds, NEW value \in ValuesOf(k), Begin(k, value),
           k = "roots" => ValidRoots(value)
    PROVE  SettingsInv'
<1> DEFINE c == [at |-> "save", value |-> value]
<1>1. /\ saving[k] = NoSave /\ NoSave.at = "idle"
      /\ saving' = [saving EXCEPT ![k] = c]
      /\ UNCHANGED <<leadsTo, file, live, action, touched, alive, reported, unclear, reloaded>>
  BY DEF Begin, NoSave
<1>2. c \in [at : {"idle", "save", "apply"}, value : SUBSET SettingValues] /\ c.at = "save" /\ c.value = value
  BY KindFacts
<1> HIDE DEF c
<1>3. saving'[k] = c /\ \A m \in Kinds : m # k => saving'[m] = saving[m]
  BY <1>1 DEF SettingsInv, SettingsShape
<1>4. SettingsShape'
  BY <1>1, <1>2 DEF SettingsInv, SettingsShape
<1>5. SettingsHeld'
  BY <1>1, <1>2, <1>3, KindFacts DEF SettingsInv, SettingsHeld
<1>6. SettingsKept'
  BY <1>1, <1>2, <1>3 DEF SettingsInv, SettingsKept
<1>7. RootsHold'
  BY <1>1 DEF SettingsInv, RootsHold
<1> QED BY <1>4, <1>5, <1>6, <1>7 DEF SettingsInv

(* A change is accepted only with a checked value of the right kind. *)
LEMMA ChangeInv ==
    ASSUME SettingsInv,
           \/ \E roots \in Requests : PutAllowlist(roots)
           \/ \E model \in Models, keys \in {{}} \cup {{key} : key \in Keys} :
                 PutLLMConfig(model, keys)
           \/ DeleteLLMConfig
    PROVE  SettingsInv'
<1>1. ASSUME NEW roots \in Requests, PutAllowlist(roots) PROVE SettingsInv'
  <2>1. roots \subseteq Seq(STRING) /\ leadsTo \in LinkTargets \cup {Link}
    BY SettingsAssumption DEF SettingsInv, SettingsKept
  <2>2. Normalized(roots) \in ValuesOf("roots")
    BY <2>1, ResolvedIsPath, KindFacts DEF Normalized
  <2> QED BY <1>1, <2>2, BeginInv, KindFacts DEF PutAllowlist
<1>2. ASSUME NEW model \in Models, NEW keys \in {{}} \cup {{key} : key \in Keys},
             PutLLMConfig(model, keys)
      PROVE  SettingsInv'
  <2>1. live["llm"] \subseteq Provider
    <3>1. live["llm"] \in ValuesOf("llm")
      BY KindFacts DEF SettingsInv, SettingsKept
    <3> QED BY <3>1, KindFacts
  <2>2. PICK key \in (IF keys # {} THEN keys ELSE {p.key : p \in live["llm"]}) :
               Begin("llm", {[model |-> model, key |-> key]})
    BY <1>2 DEF PutLLMConfig
  <2>3. key \in Keys
    BY <2>1, <2>2 DEF Provider
  <2>4. [model |-> model, key |-> key] \in Provider
    BY <2>3 DEF Provider
  <2>5. {[model |-> model, key |-> key]} \in ValuesOf("llm")
    BY <2>4, KindFacts
  <2> QED BY <2>2, <2>5, BeginInv, KindFacts
<1>3. CASE DeleteLLMConfig
  BY <1>3, BeginInv, KindFacts DEF DeleteLLMConfig
<1> QED BY <1>1, <1>2, <1>3

LEMMA SaveSettingInv ==
    ASSUME SettingsInv, NEW k \in Kinds, SaveSetting(k)
    PROVE  SettingsInv'
<1> DEFINE v == saving[k].value
<1>1. /\ saving[k].at = "save" /\ v \in SUBSET SettingValues /\ v \in ValuesOf(k)
      /\ file' = [file EXCEPT ![k] = v]
      /\ saving' = [saving EXCEPT ![k].at = "apply"]
      /\ UNCHANGED <<leadsTo, live, action, touched, alive, reported, unclear, reloaded>>
  BY DEF SaveSetting, SettingsInv, SettingsShape, SettingsKept
<1>2. /\ file'[k] = v /\ saving'[k].at = "apply" /\ saving'[k].value = v
      /\ \A m \in Kinds : m # k => file'[m] = file[m] /\ saving'[m] = saving[m]
  BY <1>1 DEF SettingsInv, SettingsShape
<1>3. SettingsShape'
  BY <1>1 DEF SettingsInv, SettingsShape
<1>4. SettingsHeld'
  BY <1>1, <1>2, KindFacts DEF SettingsInv, SettingsHeld
<1>5. SettingsKept'
  BY <1>1, <1>2 DEF SettingsInv, SettingsKept
<1>6. RootsHold'
  BY <1>1 DEF SettingsInv, RootsHold
<1> QED BY <1>3, <1>4, <1>5, <1>6 DEF SettingsInv

LEMMA SaveSettingFailsInv ==
    ASSUME SettingsInv, NEW k \in Kinds, SaveSettingFails(k)
    PROVE  SettingsInv'
<1> DEFINE v == saving[k].value
<1>1. /\ saving[k].at = "save" /\ v \in SUBSET SettingValues /\ v \in ValuesOf(k)
      /\ \/ UNCHANGED <<file, unclear>>
         \/ /\ file' = [file EXCEPT ![k] = v]
            /\ unclear' = [unclear EXCEPT ![k] = unclear[k] \cup {v}]
      /\ saving' = [saving EXCEPT ![k] = NoSave]
      /\ NoSave \in [at : {"idle", "save", "apply"}, value : SUBSET SettingValues]
      /\ NoSave.at = "idle" /\ NoSave.value = {}
      /\ UNCHANGED <<leadsTo, live, action, touched, alive, reported, reloaded>>
  BY DEF SaveSettingFails, SettingsInv, SettingsShape, SettingsKept, NoSave
<1>2. /\ saving'[k] = NoSave
      /\ \/ file'[k] = file[k] /\ unclear'[k] = unclear[k]
         \/ file'[k] = v /\ unclear'[k] = unclear[k] \cup {v}
      /\ \A m \in Kinds : m # k => /\ file'[m] = file[m] /\ saving'[m] = saving[m]
                                    /\ unclear'[m] = unclear[m]
  BY <1>1 DEF SettingsInv, SettingsShape
<1>3. SettingsShape'
  <2>1. file' \in [Kinds -> SUBSET SettingValues]
    BY <1>1 DEF SettingsInv, SettingsShape
  <2>2. unclear' \in [Kinds -> SUBSET SUBSET SettingValues]
    <3> HIDE DEF v
    <3>1. unclear[k] \cup {v} \in SUBSET SUBSET SettingValues
      BY <1>1 DEF SettingsInv, SettingsShape
    <3> QED BY <1>1, <3>1 DEF SettingsInv, SettingsShape
  <2>3. saving' \in [Kinds -> [at : {"idle", "save", "apply"}, value : SUBSET SettingValues]]
    BY <1>1 DEF SettingsInv, SettingsShape
  <2> QED BY <1>1, <2>1, <2>2, <2>3 DEF SettingsInv, SettingsShape
<1>4. SettingsHeld'
  BY <1>1, <1>2, KindFacts DEF SettingsInv, SettingsHeld
<1>5. SettingsKept'
  BY <1>1, <1>2, KindFacts DEF SettingsInv, SettingsKept
<1>6. RootsHold'
  BY <1>1 DEF SettingsInv, RootsHold
<1> QED BY <1>3, <1>4, <1>5, <1>6 DEF SettingsInv

LEMMA ApplyInv ==
    ASSUME SettingsInv, NEW k \in Kinds, Apply(k)
    PROVE  SettingsInv'
<1> DEFINE v == saving[k].value
<1>1. /\ saving[k].at = "apply" /\ v \in SUBSET SettingValues /\ v \in ValuesOf(k) /\ file[k] = v
      /\ k = "roots" => ValidRoots(v)
      /\ live' = [live EXCEPT ![k] = v] /\ reported' = [reported EXCEPT ![k] = v]
      /\ unclear' = [unclear EXCEPT ![k] = {}] /\ reloaded' = [reloaded EXCEPT ![k] = FALSE]
      /\ saving' = [saving EXCEPT ![k] = NoSave]
      /\ NoSave \in [at : {"idle", "save", "apply"}, value : SUBSET SettingValues]
      /\ NoSave.at = "idle" /\ NoSave.value = {}
      /\ UNCHANGED <<leadsTo, file, action, touched, alive>>
  BY DEF Apply, SettingsInv, SettingsShape, SettingsHeld, SettingsKept, NoSave
<1>2. /\ saving'[k] = NoSave /\ live'[k] = v /\ reported'[k] = v /\ unclear'[k] = {}
      /\ \A m \in Kinds : m # k => /\ live'[m] = live[m] /\ reported'[m] = reported[m]
                                    /\ unclear'[m] = unclear[m] /\ reloaded'[m] = reloaded[m]
                                    /\ saving'[m] = saving[m]
  BY <1>1 DEF SettingsInv, SettingsShape
<1>3. SettingsShape'
  BY <1>1 DEF SettingsInv, SettingsShape
<1>4. SettingsHeld'
  BY <1>1, <1>2, KindFacts DEF SettingsInv, SettingsHeld
<1>5. SettingsKept'
  BY <1>1, <1>2, KindFacts DEF SettingsInv, SettingsKept
<1>6. RootsHold'
  BY <1>1, <1>2, KindFacts DEF SettingsInv, RootsHold
<1> QED BY <1>3, <1>4, <1>5, <1>6 DEF SettingsInv

(* An action is bound to a path inside a managed root, hence inside a configured one. *)
LEMMA SnapshotFileInv ==
    ASSUME SettingsInv, NEW p \in Paths, SnapshotFile(p)
    PROVE  SettingsInv'
<1>1. /\ Resolved(p) \in Seq(STRING) /\ QuarantineRoot \in Seq(STRING)
      /\ LabRoots \subseteq Seq(STRING)
  BY SettingsAssumption, ResolvedIsPath DEF SettingsInv, SettingsKept
<1>2. live["roots"] \subseteq Seq(STRING) /\ ValidRoots(live["roots"])
  BY KindFacts DEF SettingsInv, SettingsKept, RootsHold
<1>3. PICK r \in live["roots"] \cup {QuarantineRoot} : Inside(Resolved(p), r)
  BY DEF SnapshotFile, InsideAny, InForce
<1>4. InsideAny(Resolved(p), LabRoots \cup {QuarantineRoot})
  <2>1. CASE r = QuarantineRoot
    BY <1>3, <2>1 DEF InsideAny
  <2>2. CASE r \in live["roots"]
    <3>1. PICK s \in LabRoots : Inside(r, s)
      BY <1>2, <2>2 DEF ValidRoots, WithinMaximum, InsideAny
    <3>2. Inside(Resolved(p), s)
      BY <1>1, <1>2, <1>3, <2>2, <3>1, InsideTransitive
    <3> QED BY <3>2 DEF InsideAny
  <2> QED BY <1>3, <2>1, <2>2
<1>5. /\ action'.path = Resolved(p) /\ action'.real = Resolved(p)
      /\ UNCHANGED <<leadsTo, file, live, saving, touched, alive, reported, unclear, reloaded>>
  BY DEF SnapshotFile
<1>6. SettingsShape' /\ SettingsHeld' /\ SettingsKept'
  BY <1>5 DEF SettingsInv, SettingsShape, SettingsHeld, SettingsKept
<1>7. RootsHold'
  BY <1>4, <1>5 DEF SettingsInv, RootsHold
<1> QED BY <1>6, <1>7 DEF SettingsInv

LEMMA ActionInv ==
    ASSUME SettingsInv, ExecuteFile \/ DropAction \/ \E t \in LinkTargets \cup {Link} : Relink(t)
    PROVE  SettingsInv'
<1>1. /\ UNCHANGED <<file, live, saving, alive, reported, unclear, reloaded>>
      /\ leadsTo' \in LinkTargets \cup {Link}
      /\ action' = action \/ action' = NoAction
  BY DEF ExecuteFile, DropAction, Relink, SettingsInv, SettingsKept
<1>2. SettingsShape' /\ SettingsHeld' /\ SettingsKept'
  BY <1>1 DEF SettingsInv, SettingsShape, SettingsHeld, SettingsKept, NoAction
<1>3. \A p \in touched' : InsideAny(p, LabRoots \cup {QuarantineRoot})
  BY DEF ExecuteFile, DropAction, Relink, SettingsInv, SettingsHeld, RootsHold
<1>4. RootsHold'
  <2>1. NoAction.at # "bound"
    BY DEF NoAction
  <2>2. action'.at = "bound" => InsideAny(action'.real, LabRoots \cup {QuarantineRoot})
    BY <1>1, <2>1 DEF SettingsInv, RootsHold
  <2>3. ValidRoots(live'["roots"])
    BY <1>1 DEF SettingsInv, RootsHold
  <2> QED BY <1>3, <2>2, <2>3 DEF RootsHold
<1> QED BY <1>2, <1>4 DEF SettingsInv

LEMMA StopServerInv ==
    ASSUME SettingsInv, StopServer
    PROVE  SettingsInv'
<1>1. /\ alive' = FALSE
      /\ unclear' = [k \in Kinds |-> IF saving[k].at = "apply"
                                     THEN unclear[k] \cup {saving[k].value} ELSE unclear[k]]
      /\ saving' = [k \in Kinds |-> NoSave]
      /\ UNCHANGED <<leadsTo, file, live, action, touched, reported, reloaded>>
      /\ NoSave \in [at : {"idle", "save", "apply"}, value : SUBSET SettingValues]
      /\ NoSave.at = "idle" /\ NoSave.value = {}
  BY DEF StopServer, NoSave
<1>2. \A k \in Kinds : /\ saving'[k] = NoSave
                       /\ unclear[k] \subseteq unclear'[k]
                       /\ unclear'[k] \subseteq unclear[k] \cup {saving[k].value}
                       /\ saving[k].at = "apply" => saving[k].value \in unclear'[k]
  BY <1>1
<1>3. SettingsShape'
  BY <1>1 DEF SettingsInv, SettingsShape
<1>4. SettingsHeld'
  BY <1>1, <1>2, KindFacts DEF SettingsInv, SettingsHeld
<1>5. SettingsKept'
  <2>1. ASSUME NEW k \in Kinds
        PROVE  /\ file'[k] = file[k] /\ live'[k] = live[k] /\ reported'[k] = reported[k]
               /\ reloaded'[k] = reloaded[k] /\ saving'[k] = NoSave
    BY <1>1
  <2>2. ASSUME NEW k \in Kinds
        PROVE  {file[k], live[k], {}, reported[k]} \cup unclear'[k] \subseteq ValuesOf(k)
    <3>1. /\ unclear'[k] \subseteq unclear[k] \cup {saving[k].value}
          /\ {} \in ValuesOf(k)
      BY <1>2, KindFacts
    <3>2. {file[k], live[k], saving[k].value, reported[k]} \cup unclear[k] \subseteq ValuesOf(k)
      BY DEF SettingsInv, SettingsKept
    <3> QED BY <3>1, <3>2
  <2>3. ASSUME NEW k \in Kinds
        PROVE  ~reloaded[k] => live[k] = reported[k]
    BY DEF SettingsInv, SettingsHeld
  <2>4. ASSUME NEW k \in Kinds
        PROVE  \/ file[k] \in {reported[k]} \cup unclear'[k]
               \/ file[k] = {} /\ reported[k] \in {LabRoots, EnvProvider}
    <3>1. /\ unclear[k] \subseteq unclear'[k]
          /\ saving[k].at = "apply" => saving[k].value \in unclear'[k]
      BY <1>2
    <3>2. saving[k].at = "apply" => file[k] = saving[k].value
      BY DEF SettingsInv, SettingsHeld
    <3>3. saving[k].at # "apply" =>
                \/ file[k] \in {reported[k]} \cup unclear[k]
                \/ file[k] = {} /\ reported[k] \in {LabRoots, EnvProvider}
      BY DEF SettingsInv, SettingsKept
    <3> QED BY <3>1, <3>2, <3>3
  <2>5. leadsTo' \in LinkTargets \cup {Link} /\ alive' \in BOOLEAN
    BY <1>1 DEF SettingsInv, SettingsKept
  <2> QED BY <1>1, <2>1, <2>2, <2>3, <2>4, <2>5 DEF SettingsKept
<1>6. RootsHold'
  BY <1>1 DEF SettingsInv, RootsHold
<1> QED BY <1>3, <1>4, <1>5, <1>6 DEF SettingsInv

(* The start checks the roots of the file again, with the links as they are by now. *)
LEMMA StartServerInv ==
    ASSUME SettingsInv, StartServer
    PROVE  SettingsInv'
<1>1. LoadedRoots # {} /\ ValidRoots(LoadedRoots) /\ LoadedRoots \in ValuesOf("roots")
  <2>1. file["roots"] \subseteq Seq(STRING) /\ leadsTo \in LinkTargets \cup {Link}
    BY KindFacts DEF SettingsInv, SettingsKept
  <2>2. Normalized(file["roots"]) \in ValuesOf("roots") /\ LabRoots \in ValuesOf("roots")
    BY <2>1, ResolvedIsPath, KindFacts, SettingsAssumption DEF Normalized
  <2> QED BY <2>2, KindFacts DEF StartServer, LoadedRoots
<1>2. LoadedProvider \in ValuesOf("llm")
  <2>1. file["llm"] \in ValuesOf("llm")
    BY KindFacts DEF SettingsInv, SettingsKept
  <2> QED BY <2>1, KindFacts, SettingsAssumption DEF LoadedProvider, Provider
<1>3. /\ alive' = TRUE
      /\ live' = [k \in Kinds |-> IF k = "roots" THEN LoadedRoots ELSE LoadedProvider]
      /\ reloaded' = [k \in Kinds |-> TRUE]
      /\ UNCHANGED <<leadsTo, file, saving, action, touched, reported, unclear>>
  BY DEF StartServer
<1>4. /\ live'["roots"] = LoadedRoots
      /\ \A k \in Kinds : live'[k] \in ValuesOf(k) /\ reloaded'[k]
  BY <1>1, <1>2, <1>3, KindFacts
<1>5. live' \in [Kinds -> SUBSET SettingValues]
  BY <1>1, <1>2, <1>3, KindFacts
<1>6. SettingsShape'
  BY <1>3, <1>5 DEF SettingsInv, SettingsShape
<1>7. SettingsHeld'
  BY <1>3, <1>4 DEF SettingsInv, SettingsHeld
<1>8. SettingsKept'
  BY <1>3, <1>4 DEF SettingsInv, SettingsKept
<1>9. RootsHold'
  BY <1>1, <1>3, <1>4 DEF SettingsInv, RootsHold
<1> QED BY <1>6, <1>7, <1>8, <1>9 DEF SettingsInv

(* The invariant is inductive: one step per operation. *)
LEMMA SettingsNextInv == SettingsInv /\ [SettingsNext]_settingsVars => SettingsInv'
<1> SUFFICES ASSUME SettingsInv, [SettingsNext]_settingsVars PROVE SettingsInv'
  OBVIOUS
<1>1. CASE UNCHANGED settingsVars
  BY <1>1 DEF settingsVars, SettingsInv, SettingsShape, SettingsHeld, SettingsKept, RootsHold
<1>2. CASE SettingsNext
  BY <1>2, ChangeInv, SaveSettingInv, SaveSettingFailsInv, ApplyInv, SnapshotFileInv,
     ActionInv, StopServerInv, StartServerInv DEF SettingsNext
<1> QED BY <1>1, <1>2

(* The settings keep their inductive invariant. *)
LEMMA SettingsInvariant == SettingsSpec => []SettingsInv
BY SettingsInitInv, SettingsNextInv, PTL DEF SettingsSpec

(***************************************************************************)
(* Whatever is asked for, whatever the links become and however saves fail *)
(* and servers restart, the managed roots and the files that actions are   *)
(* bound to and act on are within the administrator's configuration        *)
(* (UpdateManagedRoots, NewConfigManager, SnapshotFile, Authorize).        *)
(***************************************************************************)
THEOREM RootsHoldAlways == SettingsSpec => []RootsHold
<1>1. SettingsInv => RootsHold
  BY DEF SettingsInv
<1> QED BY <1>1, SettingsInvariant, PTL

(***************************************************************************)
(* A setting that was reported as in force is in force until the next      *)
(* change or restart, and is what the file holds, unless a later change    *)
(* failed after its rename (saveConfigBytes, SettingsStore.Save).          *)
(***************************************************************************)
THEOREM SettingsKeptAlways == SettingsSpec => []SettingsKept
<1>1. SettingsInv => SettingsKept
  BY DEF SettingsInv
<1> QED BY <1>1, SettingsInvariant, PTL

(* EventStream. *)

(* A nonempty set of naturals has a least element. *)
LEMMA LeastNumber ==
    ASSUME NEW S \in SUBSET Nat, S # {}
    PROVE  \E m \in S : \A n \in S : m <= n
<1>1. PICK m \in S : \A n \in S : ~(<<n, m>> \in OpToRel(<, Nat))
  BY NatLessThanWellFounded, WFMin
<1>2. \A n \in S : ~(n < m)
  BY <1>1 DEF OpToRel
<1> QED BY <1>2

(* A page whose connection is closed has only what it heard. *)
LEMMA ClosedPage ==
    ASSUME NEW c \in Pages, conn'[c] = NoConn, channel'[c] = <<>>,
           \A n \in heard'[c] : n <= page'[c].lastId /\ n <= next',
           page'[c].at = "off" => heard'[c] = {},
           ~told'[c] /\ ~lossy'[c] =>
               WithoutHole(heard'[c]) /\ (heard'[c] # {} => page'[c].lastId \in heard'[c])
    PROVE  Attached(c)' /\ Ordered(c)' /\ (~told'[c] /\ ~lossy'[c] => Seamless(c)')
<1>1. conn'[c].at = "none" /\ conn'[c].queue = <<>>
  BY DEF NoConn
<1>2. DOMAIN conn'[c].queue = {} /\ DOMAIN channel'[c] = {}
  BY <1>1
<1>3. Attached(c)'
  BY <1>1 DEF Attached, Subscribed
<1>4. Ordered(c)'
  BY <1>1, <1>2 DEF Ordered
<1>5. Numbered(conn'[c].queue) = {} /\ Numbered(channel'[c]) = {}
  BY <1>2 DEF Numbered
<1>6. Known(c)' = heard'[c] /\ ~Subscribed(c)'
  BY <1>1, <1>5 DEF Known, Subscribed
<1>7. ~told'[c] /\ ~lossy'[c] => Seamless(c)'
  BY <1>6 DEF Seamless
<1> QED BY <1>3, <1>4, <1>7

(* A page that an action leaves alone, but for its own state. *)
LEMMA SamePage ==
    ASSUME NEW c \in Pages, Attached(c), Ordered(c), ~told[c] /\ ~lossy[c] => Seamless(c),
           next' = next, conn'[c] = conn[c], channel'[c] = channel[c], heard'[c] = heard[c],
           told'[c] = told[c], lossy'[c] = lossy[c], page'[c].lastId = page[c].lastId,
           conn[c].at # "none" => page'[c].at = "following",
           page'[c].at = "off" => heard[c] = {}
    PROVE  Attached(c)' /\ Ordered(c)' /\ (~told'[c] /\ ~lossy'[c] => Seamless(c)')
<1>1. Attached(c)'
  BY DEF Attached, Subscribed
<1>2. Ordered(c)'
  BY DEF Ordered
<1>3. Known(c)' = Known(c) /\ (EndQueued(c)' <=> EndQueued(c)) /\ (GapAhead(c)' <=> GapAhead(c))
  BY DEF Known, EndQueued, GapAhead
<1>4. ~told'[c] /\ ~lossy'[c] => Seamless(c)'
  BY <1>3 DEF Seamless, Subscribed
<1> QED BY <1>1, <1>2, <1>4

(* What lies below the rest of a set without hole has none itself. *)
LEMMA Downward ==
    ASSUME NEW K \in SUBSET Nat, NEW H \in SUBSET K, WithoutHole(K),
           \A h \in H, k \in K \ H : h < k
    PROVE  WithoutHole(H)
<1> SUFFICES ASSUME NEW low \in H, NEW high \in H, NEW x \in low..high PROVE x \in H
  BY DEF WithoutHole
<1>1. x \in K /\ x <= high
  BY DEF WithoutHole
<1> QED BY <1>1

(* The types of one page. *)
LEMMA PageTypes ==
    ASSUME StreamTypeOK, NEW c \in Pages
    PROVE  /\ next \in Nat /\ channel[c] \in Seq(Event) /\ conn[c] \in Connection
           /\ conn[c].queue \in Seq(Message) /\ conn[c].after \in Nat
           /\ page[c] \in Page /\ page[c].lastId \in Nat
           /\ heard[c] \in SUBSET Nat
           /\ \A i \in DOMAIN channel[c] :
                 channel[c][i] \in Event /\ channel[c][i].seq \in Nat \ {0}
           /\ \A i \in DOMAIN conn[c].queue :
                 conn[c].queue[i] \in Message /\ conn[c].queue[i].seq \in Nat
<1>1. /\ channel[c] \in Seq(Event) /\ conn[c] \in Connection /\ page[c] \in Page
      /\ heard[c] \in SUBSET (1..MaxEvents) /\ next \in 0..MaxEvents
  BY DEF StreamTypeOK
<1>2. MaxEvents \in Nat
  BY StreamAssumption
<1>3. conn[c].queue \in Seq(Message) /\ conn[c].after \in 0..MaxEvents
  BY <1>1 DEF Connection
<1>4. page[c].lastId \in 0..MaxEvents
  BY <1>1 DEF Page
<1>5. \A i \in DOMAIN channel[c] : channel[c][i] \in Event
  BY <1>1
<1>6. \A i \in DOMAIN conn[c].queue : conn[c].queue[i] \in Message
  BY <1>3
<1>7. \A e \in Event : e.seq \in Nat \ {0}
  BY <1>2 DEF Event
<1>8. \A m \in Message : m.seq \in Nat
  BY <1>2 DEF Message
<1> QED BY <1>1, <1>2, <1>3, <1>4, <1>5, <1>6, <1>7, <1>8

(* What is known is a number, and no later than the last event. *)
LEMMA KnownBounds ==
    ASSUME StreamTypeOK, NEW c \in Pages, Attached(c), Ordered(c)
    PROVE  Known(c) \in SUBSET Nat /\ \A n \in Known(c) : n <= next
<1>1. \A n \in heard[c] : n \in Nat /\ n <= next
  BY PageTypes DEF Attached
<1>2. \A n \in Numbered(conn[c].queue) : n \in Nat /\ n <= next
  BY PageTypes DEF Numbered, Ordered
<1>3. \A n \in Numbered(channel[c]) : n \in Nat /\ n <= next
  BY PageTypes DEF Numbered, Ordered
<1> QED BY <1>1, <1>2, <1>3 DEF Known

(* A published event is the next number: at a page it joins what is under way or is lost. *)
LEMMA PublishPage ==
    ASSUME StreamTypeOK, NEW c \in Pages, Attached(c), Ordered(c),
           ~told[c] /\ ~lossy[c] => Seamless(c), NEW final \in BOOLEAN, Publish(final)
    PROVE  Attached(c)' /\ Ordered(c)' /\ (~told'[c] /\ ~lossy'[c] => Seamless(c)')
<1> DEFINE e == [seq |-> next + 1, final |-> final]
<1>0. /\ next' = next + 1 /\ next \in Nat /\ conn'[c] = conn[c] /\ page'[c] = page[c]
      /\ heard'[c] = heard[c] /\ told'[c] = told[c]
  BY PageTypes DEF Publish
<1>1. /\ channel'[c] = IF Subscribed(c) /\ ~Full(c) THEN Append(channel[c], e) ELSE channel[c]
      /\ lossy'[c] = (lossy[c] \/ (Subscribed(c) /\ Full(c)))
  BY DEF Publish
<1>2. EndQueued(c)' = EndQueued(c) /\ GapAhead(c)' = GapAhead(c) /\ Subscribed(c)' = Subscribed(c)
  BY <1>0 DEF EndQueued, GapAhead, Subscribed
<1>3. CASE ~(Subscribed(c) /\ ~Full(c))
  <2>1. channel'[c] = channel[c]
    BY <1>1, <1>3
  <2>2. Attached(c)'
    BY <1>0, <1>2, <2>1, PageTypes DEF Attached
  <2>3. Ordered(c)'
    BY <1>0, <2>1, PageTypes DEF Ordered
  <2>4. Known(c)' = Known(c)
    BY <1>0, <1>2, <2>1 DEF Known
  <2>5. ~lossy'[c] => ~Subscribed(c) /\ ~lossy[c]
    BY <1>1, <1>3
  <2>6. ~told'[c] /\ ~lossy'[c] => Seamless(c)'
    BY <1>0, <1>2, <2>4, <2>5 DEF Seamless
  <2> QED BY <2>2, <2>3, <2>6
<1>4. CASE Subscribed(c) /\ ~Full(c)
  <2>1. channel'[c] = Append(channel[c], e) /\ lossy'[c] = lossy[c]
    BY <1>1, <1>4, StreamTypeOK DEF StreamTypeOK
  <2>2. /\ DOMAIN channel'[c] = 1..(Len(channel[c]) + 1) /\ Len(channel[c]) \in Nat
        /\ DOMAIN channel[c] = 1..Len(channel[c])
        /\ \A i \in DOMAIN channel[c] : channel'[c][i] = channel[c][i]
        /\ channel'[c][Len(channel[c]) + 1].seq = next + 1
    BY <2>1, PageTypes
  <2>3. Attached(c)'
    BY <1>0, <1>2, <1>4, PageTypes DEF Attached
  <2>4. Ordered(c)'
    <3> DEFINE queue == conn[c].queue
    <3>1. \A i \in DOMAIN queue : queue[i].seq \in Nat /\ queue[i].seq <= next
      BY <1>0, PageTypes DEF Ordered
    <3>2. \A i \in DOMAIN channel[c] : channel[c][i].seq \in Nat /\ channel[c][i].seq <= next
      BY PageTypes DEF Ordered
    <3>3. \A n \in heard[c] : n \in Nat /\ n <= next
      BY PageTypes DEF Attached
    <3>4. \A i \in DOMAIN queue : queue[i].seq > 0 =>
             queue[i].seq <= next' /\ \A n \in heard[c] : n < queue[i].seq
      BY <1>0, <3>1 DEF Ordered
    <3>5. \A i \in DOMAIN channel'[c] :
             channel'[c][i].seq <= next' /\ \A n \in heard[c] : n < channel'[c][i].seq
      BY <1>0, <2>2, <3>2, <3>3 DEF Ordered
    <3>6. \A i, j \in DOMAIN channel'[c] : i < j => channel'[c][i].seq < channel'[c][j].seq
      <4> SUFFICES ASSUME NEW i \in DOMAIN channel'[c], NEW j \in DOMAIN channel'[c], i < j
                   PROVE  channel'[c][i].seq < channel'[c][j].seq
        OBVIOUS
      <4>1. i \in DOMAIN channel[c] /\ (j \in DOMAIN channel[c] \/ j = Len(channel[c]) + 1)
        BY <2>2
      <4>2. CASE j \in DOMAIN channel[c]
        BY <2>2, <4>1, <4>2 DEF Ordered
      <4>3. CASE j = Len(channel[c]) + 1
        BY <1>0, <2>2, <3>2, <4>1, <4>3
      <4> QED BY <4>1, <4>2, <4>3
    <3>7. \A i \in DOMAIN queue, j \in DOMAIN channel'[c] : queue[i].seq < channel'[c][j].seq
      <4> SUFFICES ASSUME NEW i \in DOMAIN queue, NEW j \in DOMAIN channel'[c]
                   PROVE  queue[i].seq < channel'[c][j].seq
        OBVIOUS
      <4>1. CASE j \in DOMAIN channel[c]
        BY <2>2, <4>1 DEF Ordered
      <4>2. CASE j = Len(channel[c]) + 1
        BY <1>0, <2>2, <3>1, <4>2
      <4> QED BY <2>2, <4>1, <4>2
    <3>8. \A i, j \in DOMAIN queue : i < j /\ queue[j].seq > 0 => queue[i].seq < queue[j].seq
      BY DEF Ordered
    <3> QED BY <1>0, <3>4, <3>5, <3>6, <3>7, <3>8 DEF Ordered
  <2>5. Numbered(channel'[c]) = Numbered(channel[c]) \cup {next + 1}
    BY <1>0, <2>2 DEF Numbered
  <2>6. Known(c)' = IF EndQueued(c) THEN Known(c) ELSE Known(c) \cup {next + 1}
    BY <1>0, <1>2, <2>5 DEF Known
  <2>7. ASSUME ~told[c], ~lossy[c] PROVE Seamless(c)'
    <3>0. Seamless(c)
      BY <2>7
    <3>1. WithoutHole(heard'[c]) /\ (heard'[c] # {} => page'[c].lastId \in heard'[c])
      BY <1>0, <3>0 DEF Seamless
    <3>2. ASSUME ~GapAhead(c), EndQueued(c) PROVE WithoutHole(Known(c)')
      BY <3>0, <3>2, <2>6 DEF Seamless
    <3>3. ASSUME ~GapAhead(c), ~EndQueued(c)
          PROVE  WithoutHole(Known(c)') /\ next' \in Known(c)'
      <4>1. WithoutHole(Known(c)) /\ (Known(c) # {} => next \in Known(c))
        BY <1>4, <3>0, <3>3 DEF Seamless
      <4>2. Known(c) \in SUBSET Nat /\ \A n \in Known(c) : n <= next
        BY KnownBounds
      <4>3. Known(c)' = Known(c) \cup {next + 1}
        BY <2>6, <3>3
      <4>4. ASSUME NEW low \in Known(c) \cup {next + 1}, NEW high \in Known(c) \cup {next + 1},
                   NEW x \in low..high
            PROVE  x \in Known(c) \cup {next + 1}
        <5>1. CASE x = next + 1
          BY <5>1
        <5>2. CASE x # next + 1
          <6>1. low \in Known(c) /\ x <= next /\ x \in low..next
            BY <1>0, <4>2, <5>2
          <6> QED BY <4>1, <6>1 DEF WithoutHole
        <5> QED BY <5>1, <5>2
      <4> QED BY <1>0, <4>3, <4>4 DEF WithoutHole
    <3> QED BY <1>2, <3>1, <3>2, <3>3 DEF Seamless
  <2> QED BY <1>0, <2>1, <2>3, <2>4, <2>7
<1> QED BY <1>3, <1>4

(* Head and tail of what is to be sent. *)
LEMMA HeadTail ==
    ASSUME NEW S, NEW s \in Seq(S), s # <<>>
    PROVE  /\ Head(s) = s[1] /\ Head(s) \in S /\ Tail(s) \in Seq(S)
           /\ DOMAIN s = 1..Len(s) /\ Len(s) \in Nat /\ Len(s) > 0 /\ 1 \in DOMAIN s
           /\ DOMAIN Tail(s) = 1..(Len(s) - 1) /\ Len(Tail(s)) = Len(s) - 1
           /\ \A i \in DOMAIN Tail(s) : Tail(s)[i] = s[i + 1] /\ i + 1 \in DOMAIN s
           /\ \A i \in DOMAIN s : i = 1 \/ (i - 1 \in DOMAIN Tail(s) /\ Tail(s)[i - 1] = s[i])
<1>1. /\ Head(s) \in S /\ Tail(s) \in Seq(S) /\ Len(Tail(s)) = Len(s) - 1
      /\ \A i \in 1..Len(Tail(s)) : Tail(s)[i] = s[i + 1]
  BY HeadTailProperties
<1>2. /\ DOMAIN s = 1..Len(s) /\ Len(s) \in Nat /\ Len(s) > 0 /\ Head(s) = s[1]
      /\ DOMAIN Tail(s) = 1..Len(Tail(s))
  BY <1>1
<1> QED BY <1>1, <1>2

(* What happens to the page's record when a message arrives. *)
LEMMA DeliverPage ==
    ASSUME StreamTypeOK, NEW c \in Pages, Attached(c), Ordered(c), Subscribed(c),
           NEW m \in Message, Deliver(c, m)
    PROVE  /\ next' = next /\ page'[c].at # "off"
           /\ ~m.final => page'[c].at = "following"
           /\ page'[c].lastId = IF m.seq > 0 THEN m.seq ELSE page[c].lastId
           /\ heard'[c] = IF m.seq > 0 THEN heard[c] \cup {m.seq} ELSE heard[c]
           /\ told'[c] = (told[c] \/ m.kind = "gap") /\ lossy'[c] = lossy[c]
<1>1. /\ page'[c] = Received(page[c], m) /\ next' = next /\ lossy' = lossy
      /\ heard'[c] = IF m.seq > 0 THEN heard[c] \cup {m.seq} ELSE heard[c]
      /\ told'[c] = (told[c] \/ m.kind = "gap")
  BY DEF StreamTypeOK, Deliver, hub
<1>2. page[c].at = "following"
  BY DEF Attached, Subscribed
<1> QED BY <1>1, <1>2 DEF Received

(* A replayed message moves from the queue to what the page heard; an end closes the connection. *)
LEMMA ReplayPage ==
    ASSUME StreamTypeOK, NEW c \in Pages, Attached(c), Ordered(c),
           ~told[c] /\ ~lossy[c] => Seamless(c), Replay(c)
    PROVE  Attached(c)' /\ Ordered(c)' /\ (~told'[c] /\ ~lossy'[c] => Seamless(c)')
<1> DEFINE queue == conn[c].queue
<1>0. PICK m : m = Head(queue)
  OBVIOUS
<1>1. /\ queue \in Seq(Message) /\ queue # <<>> /\ Subscribed(c) /\ Deliver(c, m)
      /\ \A i \in DOMAIN queue : queue[i].seq \in Nat
  BY <1>0, PageTypes DEF Replay
<1>2. /\ m = queue[1] /\ m \in Message /\ 1 \in DOMAIN queue /\ m.seq \in Nat
      /\ DOMAIN queue = 1..Len(queue) /\ Len(queue) \in Nat
      /\ \A i \in DOMAIN queue : i = 1 \/ (i - 1 \in DOMAIN Tail(queue) /\ Tail(queue)[i - 1] = queue[i])
      /\ \A i \in DOMAIN Tail(queue) : Tail(queue)[i] = queue[i + 1] /\ i + 1 \in DOMAIN queue
      /\ DOMAIN Tail(queue) = 1..(Len(queue) - 1)
  BY <1>0, <1>1, HeadTail
<1>3. /\ next' = next /\ page'[c].at # "off" /\ (~m.final => page'[c].at = "following")
      /\ page'[c].lastId = IF m.seq > 0 THEN m.seq ELSE page[c].lastId
      /\ heard'[c] = IF m.seq > 0 THEN heard[c] \cup {m.seq} ELSE heard[c]
      /\ told'[c] = (told[c] \/ m.kind = "gap") /\ lossy'[c] = lossy[c]
  BY <1>1, <1>2, DeliverPage
<1>4. \A i \in DOMAIN queue : i # 1 /\ queue[i].seq > 0 => m.seq < queue[i].seq
  <2> SUFFICES ASSUME NEW i \in DOMAIN queue, i # 1, queue[i].seq > 0 PROVE queue[1].seq < queue[i].seq
    BY <1>2
  <2>1. 1 < i
    BY <1>2
  <2> QED BY <1>2, <2>1 DEF Ordered
<1>5. \A n \in heard'[c] : /\ n \in Nat /\ n <= page'[c].lastId /\ n <= next
                           /\ \A i \in DOMAIN queue : i # 1 /\ queue[i].seq > 0 => n < queue[i].seq
                           /\ \A j \in DOMAIN channel[c] : n < channel[c][j].seq
  <2> SUFFICES ASSUME NEW n \in heard'[c]
               PROVE  /\ n \in Nat /\ n <= page'[c].lastId /\ n <= next
                      /\ \A i \in DOMAIN queue : i # 1 /\ queue[i].seq > 0 => n < queue[i].seq
                      /\ \A j \in DOMAIN channel[c] : n < channel[c][j].seq
    OBVIOUS
  <2>1. CASE n \in heard[c]
    <3>1. n \in Nat /\ next \in Nat /\ page[c].lastId \in Nat
      BY <2>1, PageTypes
    <3>2. n <= page[c].lastId /\ n <= next
      BY <2>1 DEF Attached
    <3>3. /\ \A i \in DOMAIN queue : queue[i].seq > 0 => n < queue[i].seq
          /\ \A j \in DOMAIN channel[c] : n < channel[c][j].seq
      BY <2>1 DEF Ordered
    <3>4. m.seq > 0 => n < m.seq
      BY <1>2, <3>3
    <3>5. n <= page'[c].lastId
      BY <1>2, <1>3, <3>1, <3>2, <3>4
    <3> QED
      BY <3>1, <3>2, <3>3, <3>5
  <2>2. CASE m.seq > 0 /\ n = m.seq
    BY <1>2, <1>3, <1>4, <2>2 DEF Ordered
  <2> QED BY <1>3, <2>1, <2>2
<1>6. ASSUME ~told'[c], ~lossy'[c]
      PROVE  /\ WithoutHole(heard'[c]) /\ (heard'[c] # {} => page'[c].lastId \in heard'[c])
             /\ WithoutHole(Known(c)) /\ Seamless(c)
  <2>1. Seamless(c) /\ ~GapAhead(c)
    BY <1>2, <1>3, <1>6 DEF GapAhead
  <2>2. WithoutHole(Known(c)) /\ WithoutHole(heard[c]) /\ (heard[c] # {} => page[c].lastId \in heard[c])
    BY <2>1 DEF Seamless
  <2>3. heard'[c] \in SUBSET Known(c) /\ Known(c) \in SUBSET Nat
    <3>1. m.seq > 0 => m.seq \in Numbered(queue)
      BY <1>2 DEF Numbered
    <3> QED BY <1>3, <3>1, KnownBounds DEF Known
  <2>4. \A h \in heard'[c], k \in Known(c) \ heard'[c] : h < k
    <3> SUFFICES ASSUME NEW h \in heard'[c], NEW k \in Known(c), k \notin heard'[c] PROVE h < k
      OBVIOUS
    <3>1. CASE k \in Numbered(queue)
      <4>1. PICK i \in DOMAIN queue : k = queue[i].seq /\ k # 0
        BY <3>1 DEF Numbered
      <4>2. i # 1 /\ queue[i].seq > 0
        BY <1>1, <1>2, <1>3, <4>1
      <4> QED BY <1>5, <4>1, <4>2
    <3>2. CASE k \in Numbered(channel[c])
      BY <1>5, <3>2 DEF Numbered
    <3> QED BY <1>3, <3>1, <3>2 DEF Known
  <2>5. WithoutHole(heard'[c])
    BY <2>2, <2>3, <2>4, Downward
  <2> QED BY <1>3, <2>1, <2>2, <2>5
<1>7. CASE m.final
  <2>1. conn'[c] = NoConn /\ channel'[c] = <<>>
    BY <1>0, <1>7 DEF Replay, Ended, StreamTypeOK
  <2> QED BY <1>3, <1>5, <1>6, <2>1, ClosedPage
<1>8. CASE ~m.final
  <2>1. /\ conn'[c] = [conn[c] EXCEPT !.queue = Tail(queue)] /\ channel'[c] = channel[c]
        /\ conn[c] \in Connection
    BY <1>0, <1>8 DEF Replay, StreamTypeOK
  <2>2. /\ conn'[c].queue = Tail(queue) /\ conn'[c].at = "open"
    BY <1>1, <2>1 DEF Connection, Subscribed
  <2>3. Attached(c)'
    BY <1>3, <1>5, <1>8, <2>2 DEF Attached, Subscribed
  <2>4. Ordered(c)'
    <3>1. \A i \in DOMAIN Tail(queue) : /\ Tail(queue)[i] = queue[i + 1] /\ i + 1 \in DOMAIN queue
                                        /\ i + 1 # 1 /\ i \in Nat
      BY <1>2
    <3>2. \A i \in DOMAIN Tail(queue) : Tail(queue)[i].seq > 0 =>
             Tail(queue)[i].seq <= next /\ \A n \in heard'[c] : n < Tail(queue)[i].seq
      BY <1>5, <3>1 DEF Ordered
    <3>3. \A i \in DOMAIN channel[c] :
             channel[c][i].seq <= next /\ \A n \in heard'[c] : n < channel[c][i].seq
      BY <1>5 DEF Ordered
    <3>4. \A i, j \in DOMAIN Tail(queue) : i < j /\ Tail(queue)[j].seq > 0 =>
             Tail(queue)[i].seq < Tail(queue)[j].seq
      <4> SUFFICES ASSUME NEW i \in DOMAIN Tail(queue), NEW j \in DOMAIN Tail(queue), i < j,
                          Tail(queue)[j].seq > 0
                   PROVE  Tail(queue)[i].seq < Tail(queue)[j].seq
        OBVIOUS
      <4>1. i + 1 < j + 1
        BY <3>1
      <4> QED BY <3>1, <4>1 DEF Ordered
    <3>5. \A i, j \in DOMAIN channel[c] : i < j => channel[c][i].seq < channel[c][j].seq
      BY DEF Ordered
    <3>6. \A i \in DOMAIN Tail(queue), j \in DOMAIN channel[c] : Tail(queue)[i].seq < channel[c][j].seq
      BY <3>1 DEF Ordered
    <3> QED BY <1>3, <2>1, <2>2, <3>2, <3>3, <3>4, <3>5, <3>6 DEF Ordered
  <2>5. EndQueued(c)' = EndQueued(c)
    <3>1. EndQueued(c)' => EndQueued(c)
      BY <1>2, <2>2 DEF EndQueued
    <3>2. EndQueued(c) => EndQueued(c)'
      BY <1>2, <1>8, <2>2 DEF EndQueued
    <3> QED BY <3>1, <3>2 DEF EndQueued
  <2>6. Known(c)' = Known(c)
    <3>1. Numbered(queue) = Numbered(Tail(queue)) \cup (IF m.seq > 0 THEN {m.seq} ELSE {})
      <4>1. \A x \in Numbered(queue) : x \in Numbered(Tail(queue)) \/ (m.seq > 0 /\ x = m.seq)
        <5> SUFFICES ASSUME NEW i \in DOMAIN queue, queue[i].seq # 0
                     PROVE  \/ queue[i].seq \in Numbered(Tail(queue))
                            \/ m.seq > 0 /\ queue[i].seq = m.seq
          BY DEF Numbered
        <5>1. CASE i = 1
          BY <1>2, <5>1
        <5>2. CASE i # 1
          <6>1. i - 1 \in DOMAIN Tail(queue) /\ Tail(queue)[i - 1] = queue[i]
            BY <1>2, <5>2
          <6> QED BY <6>1 DEF Numbered
        <5> QED BY <5>1, <5>2
      <4>2. \A x \in Numbered(Tail(queue)) : x \in Numbered(queue)
        BY <1>2 DEF Numbered
      <4>3. m.seq > 0 => m.seq \in Numbered(queue)
        BY <1>2 DEF Numbered
      <4> QED BY <4>1, <4>2, <4>3
    <3> QED BY <1>3, <2>1, <2>2, <2>5, <3>1 DEF Known
  <2>7. ASSUME ~told'[c], ~lossy'[c] PROVE Seamless(c)'
    <3>1. /\ WithoutHole(heard'[c]) /\ (heard'[c] # {} => page'[c].lastId \in heard'[c])
          /\ WithoutHole(Known(c)) /\ Seamless(c) /\ ~GapAhead(c)
      BY <1>2, <1>3, <1>6, <2>7 DEF GapAhead
    <3>2. ~EndQueued(c) /\ Known(c) # {} => next \in Known(c)
      BY <1>1, <3>1 DEF Seamless
    <3> QED BY <1>3, <2>5, <2>6, <3>1, <3>2 DEF Seamless
  <2> QED BY <2>3, <2>4, <2>7
<1> QED BY <1>7, <1>8

(* A live event moves from the channel to what the page heard; an end closes the connection. *)
LEMMA LivePage ==
    ASSUME StreamTypeOK, NEW c \in Pages, Attached(c), Ordered(c),
           ~told[c] /\ ~lossy[c] => Seamless(c), Live(c)
    PROVE  Attached(c)' /\ Ordered(c)' /\ (~told'[c] /\ ~lossy'[c] => Seamless(c)')
<1> DEFINE later == channel[c]
<1>0. PICK e : e = Head(later)
  OBVIOUS
<1>1. /\ later \in Seq(Event) /\ later # <<>> /\ conn[c].queue = <<>> /\ Subscribed(c)
      /\ Deliver(c, Progress(e))
      /\ \A i \in DOMAIN later : later[i].seq \in Nat \ {0}
  BY <1>0, PageTypes DEF Live
<1>2. /\ e = later[1] /\ e \in Event /\ 1 \in DOMAIN later /\ e.seq \in Nat /\ e.seq > 0
      /\ DOMAIN later = 1..Len(later) /\ Len(later) \in Nat
      /\ \A i \in DOMAIN later : i = 1 \/ (i - 1 \in DOMAIN Tail(later) /\ Tail(later)[i - 1] = later[i])
      /\ \A i \in DOMAIN Tail(later) : Tail(later)[i] = later[i + 1] /\ i + 1 \in DOMAIN later
      /\ DOMAIN Tail(later) = 1..(Len(later) - 1)
  BY <1>0, <1>1, HeadTail
<1>3. /\ next' = next /\ page'[c].at # "off" /\ (~e.final => page'[c].at = "following")
      /\ page'[c].lastId = e.seq /\ heard'[c] = heard[c] \cup {e.seq}
      /\ told'[c] = told[c] /\ lossy'[c] = lossy[c]
  <2>1. PICK m : m = Progress(e)
    OBVIOUS
  <2>2. m \in Message /\ m.seq = e.seq /\ m.final = e.final /\ m.kind = "progress"
    BY <1>2, <2>1, StreamAssumption DEF Progress, Event, Message
  <2>3. told[c] \in BOOLEAN /\ m.seq > 0 /\ Deliver(c, m)
    BY <1>1, <1>2, <2>1, <2>2 DEF StreamTypeOK
  <2>4. /\ next' = next /\ page'[c].at # "off"
        /\ ~m.final => page'[c].at = "following"
        /\ page'[c].lastId = IF m.seq > 0 THEN m.seq ELSE page[c].lastId
        /\ heard'[c] = IF m.seq > 0 THEN heard[c] \cup {m.seq} ELSE heard[c]
        /\ told'[c] = (told[c] \/ m.kind = "gap") /\ lossy'[c] = lossy[c]
    BY <1>1, <2>2, <2>3, DeliverPage
  <2> QED BY <2>2, <2>3, <2>4
<1>4. \A i \in DOMAIN later : i # 1 => e.seq < later[i].seq
  <2> SUFFICES ASSUME NEW i \in DOMAIN later, i # 1 PROVE later[1].seq < later[i].seq
    BY <1>2
  <2>1. 1 < i
    BY <1>2
  <2> QED BY <1>2, <2>1 DEF Ordered
<1>5. \A n \in heard'[c] : /\ n \in Nat /\ n <= page'[c].lastId /\ n <= next
                           /\ \A i \in DOMAIN later : i # 1 => n < later[i].seq
  <2> SUFFICES ASSUME NEW n \in heard'[c]
               PROVE  /\ n \in Nat /\ n <= page'[c].lastId /\ n <= next
                      /\ \A i \in DOMAIN later : i # 1 => n < later[i].seq
    OBVIOUS
  <2>1. CASE n \in heard[c]
    <3>1. n < e.seq /\ n \in Nat /\ n <= next
      BY <1>2, <2>1, PageTypes DEF Attached, Ordered
    <3> QED BY <1>2, <1>3, <2>1, <3>1 DEF Ordered
  <2>2. CASE n = e.seq
    BY <1>2, <1>3, <1>4, <2>2 DEF Ordered
  <2> QED BY <1>3, <2>1, <2>2
<1>6. Known(c) = heard[c] \cup Numbered(later) /\ ~EndQueued(c) /\ ~GapAhead(c)
  <2>1. DOMAIN conn[c].queue = {}
    BY <1>1
  <2>2. ~EndQueued(c) /\ ~GapAhead(c) /\ Numbered(conn[c].queue) = {}
    BY <1>1, <2>1 DEF EndQueued, GapAhead, Numbered
  <2> QED BY <2>2 DEF Known
<1>7. ASSUME ~told'[c], ~lossy'[c]
      PROVE  /\ WithoutHole(heard'[c]) /\ page'[c].lastId \in heard'[c]
             /\ WithoutHole(Known(c)) /\ (Known(c) # {} => next \in Known(c))
  <2>1. Seamless(c)
    BY <1>3, <1>7
  <2>2. WithoutHole(Known(c)) /\ (Known(c) # {} => next \in Known(c))
    BY <1>1, <1>6, <2>1 DEF Seamless
  <2>3. heard'[c] \in SUBSET Known(c) /\ Known(c) \in SUBSET Nat
    <3>1. e.seq \in Numbered(later)
      BY <1>2 DEF Numbered
    <3> QED BY <1>3, <1>6, <3>1, KnownBounds
  <2>4. \A h \in heard'[c], k \in Known(c) \ heard'[c] : h < k
    <3> SUFFICES ASSUME NEW h \in heard'[c], NEW k \in Numbered(later), k \notin heard'[c] PROVE h < k
      BY <1>3, <1>6
    <3>1. PICK i \in DOMAIN later : k = later[i].seq
      BY DEF Numbered
    <3>2. i # 1
      BY <1>2, <1>3, <3>1
    <3> QED BY <1>5, <3>1, <3>2
  <2>5. WithoutHole(heard'[c])
    BY <2>2, <2>3, <2>4, Downward
  <2> QED BY <1>3, <2>2, <2>5
<1>8. CASE e.final
  <2>1. conn'[c] = NoConn /\ channel'[c] = <<>>
    BY <1>0, <1>8 DEF Live, Ended, StreamTypeOK
  <2> QED BY <1>3, <1>5, <1>7, <2>1, ClosedPage
<1>9. CASE ~e.final
  <2>1. conn'[c] = conn[c] /\ channel'[c] = Tail(later)
    BY <1>0, <1>9 DEF Live, StreamTypeOK
  <2>2. Attached(c)'
    BY <1>1, <1>3, <1>5, <1>9, <2>1 DEF Attached, Subscribed
  <2>3. Ordered(c)'
    <3>1. \A i \in DOMAIN Tail(later) : /\ Tail(later)[i] = later[i + 1] /\ i + 1 \in DOMAIN later
                                        /\ i + 1 # 1 /\ i \in Nat
      BY <1>2
    <3>2. \A i \in DOMAIN Tail(later) :
             Tail(later)[i].seq <= next /\ \A n \in heard'[c] : n < Tail(later)[i].seq
      BY <1>5, <3>1 DEF Ordered
    <3>3. \A i, j \in DOMAIN Tail(later) : i < j => Tail(later)[i].seq < Tail(later)[j].seq
      <4> SUFFICES ASSUME NEW i \in DOMAIN Tail(later), NEW j \in DOMAIN Tail(later), i < j
                   PROVE  Tail(later)[i].seq < Tail(later)[j].seq
        OBVIOUS
      <4>1. i + 1 < j + 1
        BY <3>1
      <4> QED BY <3>1, <4>1 DEF Ordered
    <3>4. DOMAIN conn[c].queue = {}
      BY <1>1
    <3> QED BY <1>3, <2>1, <3>2, <3>3, <3>4 DEF Ordered
  <2>4. EndQueued(c)' = EndQueued(c) /\ GapAhead(c)' = GapAhead(c) /\ Subscribed(c)' = Subscribed(c)
    BY <2>1 DEF EndQueued, GapAhead, Subscribed
  <2>5. Known(c)' = Known(c)
    <3>1. Numbered(later) = Numbered(Tail(later)) \cup {e.seq}
      <4>1. ASSUME NEW i \in DOMAIN later
            PROVE  later[i].seq = e.seq \/ (\E k \in DOMAIN Tail(later) : later[i] = Tail(later)[k])
        <5>1. CASE i = 1
          BY <1>2, <5>1
        <5>2. CASE i # 1
          BY <1>2, <5>2
        <5> QED BY <5>1, <5>2
      <4>2. ASSUME NEW i \in DOMAIN Tail(later) PROVE \E k \in DOMAIN later : Tail(later)[i] = later[k]
        BY <1>2
      <4> QED BY <1>2, <4>1, <4>2 DEF Numbered
    <3>2. DOMAIN conn[c].queue = {}
      BY <1>1
    <3>3. Known(c)' = heard'[c] \cup Numbered(Tail(later))
      BY <1>6, <2>1, <2>4, <3>2 DEF Known, Numbered
    <3> QED BY <1>3, <1>6, <3>1, <3>3
  <2>6. ASSUME ~told'[c], ~lossy'[c] PROVE Seamless(c)'
    BY <1>3, <1>7, <2>4, <2>5, <2>6 DEF Seamless
  <2> QED BY <2>2, <2>3, <2>6
<1> QED BY <1>8, <1>9

(* replayWindow: the last events, from the first one the client has not; without a gap, all of them. *)
LEMMA WindowFacts ==
    ASSUME StreamTypeOK, NEW after \in Nat
    PROVE  /\ Window(after) \in Seq(Event) /\ Len(Window(after)) <= next
           /\ \A i \in DOMAIN Window(after) :
                 /\ Window(after)[i].seq = next - Len(Window(after)) + i
                 /\ Window(after)[i].seq > after
                 /\ \E k \in DOMAIN retained : Window(after)[i] = retained[k]
           /\ after > 0 /\ ~Gap(after) => Len(Window(after)) = next - after
<1> DEFINE L == Len(retained)
           fresh == {i \in DOMAIN retained : retained[i].seq \in after + 1..next}
           first == CHOOSE i \in fresh : \A j \in fresh : i <= j
<1>0. /\ retained \in Seq(Event) /\ next \in Nat /\ L \in Nat /\ L <= next /\ DOMAIN retained = 1..L
      /\ \A i \in 1..L : retained[i].seq = next - L + i
      /\ retained = <<>> => next = 0
      /\ retained = <<>> <=> L = 0
  BY StreamAssumption DEF StreamTypeOK
<1>1. fresh = {i \in 1..L : next - L + i > after}
  BY <1>0
<1>2. CASE fresh = {}
  <2>1. Window(after) = <<>>
    BY <1>2 DEF Window, From
  <2>2. ASSUME after > 0, ~Gap(after) PROVE next - after = 0
    <3>1. after <= next
      BY <1>0, <2>2 DEF Gap
    <3>2. L > 0
      BY <1>0, <2>2, <3>1
    <3>3. L \notin fresh
      BY <1>2
    <3> QED BY <1>0, <1>1, <3>1, <3>2, <3>3
  <2> QED BY <1>0, <2>1, <2>2
<1>3. CASE fresh # {}
  <2>1. Window(after) = SubSeq(retained, first, L)
    BY <1>3 DEF Window, From
  <2>2. first \in fresh /\ \A j \in fresh : first <= j
    <3>1. fresh \in SUBSET Nat
      BY <1>0
    <3>2. \E i \in fresh : \A j \in fresh : i <= j
      BY <1>3, <3>1, LeastNumber
    <3> QED BY <3>2
  <2> HIDE DEF first, fresh
  <2>3. first \in 1..L /\ next - L + first > after
    BY <1>1, <2>2
  <2>4. /\ Window(after) \in Seq(Event) /\ Len(Window(after)) = L - first + 1
        /\ \A i \in 1..(L - first + 1) : Window(after)[i] = retained[first + i - 1]
    <3>1. \A i \in first..L : retained[i] \in Event
      BY <1>0, <2>3
    <3>2. first \in Int /\ L \in Int /\ first <= L
      BY <1>0, <2>3
    <3> QED BY <2>1, <3>1, <3>2, SubSeqProperties
  <2>5. Len(Window(after)) <= next
    BY <1>0, <2>3, <2>4
  <2>6. ASSUME NEW i \in DOMAIN Window(after)
        PROVE  /\ Window(after)[i].seq = next - Len(Window(after)) + i
               /\ Window(after)[i].seq > after
               /\ \E k \in DOMAIN retained : Window(after)[i] = retained[k]
    <3>1. i \in 1..(L - first + 1) /\ first + i - 1 \in 1..L
      BY <1>0, <2>3, <2>4, <2>6
    <3>2. Window(after)[i] = retained[first + i - 1] /\ retained[first + i - 1].seq = next - L + (first + i - 1)
      BY <1>0, <2>4, <3>1
    <3>3. \E k \in DOMAIN retained : Window(after)[i] = retained[k]
      BY <1>0, <3>1, <3>2
    <3> DEFINE len == Len(Window(after))
               x == Window(after)[i].seq
    <3>4. len = L - first + 1 /\ x = next - L + (first + i - 1)
      BY <2>4, <3>2
    <3> HIDE DEF len, x, L
    <3>5. x = next - len + i /\ x > after
      <4>1. next \in Int /\ L \in Int /\ first \in Int /\ i \in Int /\ i >= 1 /\ after \in Int
        BY <1>0, <2>3, <3>1 DEF L
      <4> QED BY <2>3, <3>4, <4>1
    <3> QED BY <3>3, <3>5 DEF x, len
  <2>7. ASSUME after > 0, ~Gap(after) PROVE Len(Window(after)) = next - after
    <3>1. after <= next /\ (retained # <<>> => after + 1 >= retained[1].seq)
      BY <1>0, <2>7 DEF Gap
    <3>2. L > 0 /\ 1 \in 1..L /\ retained[1].seq = next - L + 1
      BY <1>0, <2>3
    <3>3. after - next + L >= 0
      BY <1>0, <3>1, <3>2
    <3>4. after - next + L + 1 \in fresh
      BY <1>0, <1>1, <2>3, <3>1, <3>3
    <3>5. first <= after - next + L + 1
      BY <2>2, <3>4
    <3>6. first = after - next + L + 1
      BY <1>0, <2>3, <3>5
    <3> QED BY <1>0, <2>4, <3>6
  <2> QED BY <2>4, <2>5, <2>6, <2>7
<1> QED BY <1>2, <1>3

(* The replay is the beginning of the window, and all of it unless it holds an end. *)
LEMMA UpToFinalFacts ==
    ASSUME NEW w \in Seq(Event)
    PROVE  /\ UpToFinal(w) \in Seq(Event) /\ Len(UpToFinal(w)) <= Len(w)
           /\ \A i \in DOMAIN UpToFinal(w) : i \in DOMAIN w /\ UpToFinal(w)[i] = w[i]
           /\ UpToFinal(w) = w \/ \E i \in DOMAIN UpToFinal(w) : UpToFinal(w)[i].final
           /\ UpToFinal(w) = <<>> => w = <<>>
<1> DEFINE finals == {i \in DOMAIN w : w[i].final}
           last == CHOOSE i \in finals : \A j \in finals : i <= j
<1>0. DOMAIN w = 1..Len(w) /\ Len(w) \in Nat
  OBVIOUS
<1>1. CASE finals = {}
  <2>1. UpToFinal(w) = w
    BY <1>1 DEF UpToFinal
  <2> QED BY <1>0, <2>1
<1>2. CASE finals # {}
  <2>1. UpToFinal(w) = SubSeq(w, 1, last)
    BY <1>2 DEF UpToFinal
  <2>2. last \in finals
    <3>1. finals \in SUBSET Nat
      BY <1>0
    <3>2. \E i \in finals : \A j \in finals : i <= j
      BY <1>2, <3>1, LeastNumber
    <3> QED BY <3>2
  <2> HIDE DEF last
  <2>3. last \in 1..Len(w) /\ w[last].final
    BY <1>0, <2>2
  <2>4. /\ UpToFinal(w) \in Seq(Event) /\ Len(UpToFinal(w)) = last
        /\ \A i \in 1..last : UpToFinal(w)[i] = w[i]
    <3>1. \A i \in 1..last : w[i] \in Event
      BY <1>0, <2>3
    <3>2. 1 \in Int /\ last \in Int /\ 1 <= last /\ last - 1 + 1 = last
      BY <2>3
    <3>3. \A i \in 1..last : 1 + i - 1 = i
      BY <2>3
    <3> QED BY <2>1, <3>1, <3>2, <3>3, SubSeqProperties
  <2>5. DOMAIN UpToFinal(w) = 1..last /\ UpToFinal(w) # <<>>
    BY <2>3, <2>4
  <2> QED BY <1>0, <2>3, <2>4, <2>5
<1> QED BY <1>1, <1>2

(* The elements of two message sequences put together. *)
LEMMA Join ==
    ASSUME NEW s \in Seq(Message), NEW t \in Seq(Message)
    PROVE  /\ s \o t \in Seq(Message) /\ Len(s \o t) = Len(s) + Len(t)
           /\ \A i \in 1..Len(s) : (s \o t)[i] = s[i]
           /\ \A i \in 1..Len(t) : (s \o t)[Len(s) + i] = t[i]
<1>0. Len(s) \in Nat /\ Len(t) \in Nat
  OBVIOUS
<1>1. /\ s \o t \in Seq(Message) /\ Len(s \o t) = Len(s) + Len(t)
      /\ \A i \in 1..(Len(s) + Len(t)) : (s \o t)[i] = IF i <= Len(s) THEN s[i] ELSE t[i - Len(s)]
  BY ConcatProperties
<1>2. ASSUME NEW i \in 1..Len(s) PROVE (s \o t)[i] = s[i]
  <2>1. i \in 1..(Len(s) + Len(t)) /\ i <= Len(s)
    BY <1>0
  <2> QED BY <1>1, <2>1
<1>3. ASSUME NEW i \in 1..Len(t) PROVE (s \o t)[Len(s) + i] = t[i]
  <2>1. Len(s) + i \in 1..(Len(s) + Len(t)) /\ ~(Len(s) + i <= Len(s)) /\ Len(s) + i - Len(s) = i
    BY <1>0
  <2> QED BY <1>1, <2>1
<1> QED BY <1>1, <1>2, <1>3

(* What the handler queues: a task.gap first if there is one, the replay u, or else the snapshot. *)
Queued(q, u, gap, snap) ==
    LET k == IF gap THEN 1 ELSE 0
    IN  /\ q \in Seq(Message) /\ u \in Seq(Event)
        /\ gap => q # <<>> /\ q[1].kind = "gap"
        /\ \A i \in DOMAIN q : q[i].seq = 0 \/ (i - k \in DOMAIN u /\ q[i].seq = u[i - k].seq)
        /\ \A i \in DOMAIN u :
              i + k \in DOMAIN q /\ q[i + k].seq = u[i].seq /\ q[i + k].final = u[i].final
        /\ \A i \in DOMAIN q : q[i].final => snap \/ \E j \in DOMAIN u : u[j].final

(* Records of connections after subscribe and after a replayed message. *)
LEMMA OpenedConnection ==
    ASSUME NEW r \in Connection, NEW q \in Seq(Message)
    PROVE  /\ [r EXCEPT !.at = "open", !.queue = q] \in Connection
           /\ [r EXCEPT !.at = "open", !.queue = q].after = r.after
           /\ [r EXCEPT !.queue = q] \in Connection
BY DEF Connection

(* What subscribe makes of the connection and its queue. *)
LEMMA QueueFacts ==
    ASSUME StreamTypeOK, NEW c \in Pages, Subscribe(c)
    PROVE  /\ Queued(conn'[c].queue, UpToFinal(Window(conn[c].after)), Gap(conn[c].after), conn[c].snap)
           /\ conn'[c].at = "open" /\ conn'[c].snap = conn[c].snap /\ conn'[c].after = conn[c].after
           /\ conn'[c] \in Connection
<1> PICK u, gap, k : /\ u = UpToFinal(Window(conn[c].after)) /\ gap = Gap(conn[c].after)
                     /\ k = IF gap THEN 1 ELSE 0
  OBVIOUS
<1> DEFINE snapshot == Unnumbered("snapshot", conn[c].snap)
           ahead == Unnumbered("gap", FALSE)
<1>0. PICK r : r = [i \in DOMAIN u |-> Progress(u[i])]
  OBVIOUS
<1>1. PICK t : t = IF SnapshotDue(u, conn[c].snap, gap) THEN <<snapshot>> ELSE <<>>
  OBVIOUS
<1>2. PICK g : g = IF gap THEN <<ahead>> ELSE <<>>
  OBVIOUS
<1>3. /\ conn[c] \in Connection /\ conn[c].snap \in BOOLEAN /\ conn[c].after \in Nat
      /\ conn' = [conn EXCEPT ![c].at = "open", ![c].queue = g \o r \o t]
  BY <1>0, <1>1, <1>2, PageTypes DEF Subscribe, Connection
<1>4. conn'[c] = [conn[c] EXCEPT !.at = "open", !.queue = g \o r \o t]
  BY <1>3 DEF StreamTypeOK
<1>5. conn'[c].queue = g \o r \o t /\ conn'[c].at = "open" /\ conn'[c].snap = conn[c].snap
  BY <1>3, <1>4 DEF Connection
<1>6. u \in Seq(Event) /\ DOMAIN u = 1..Len(u) /\ Len(u) \in Nat
  BY <1>3, WindowFacts, UpToFinalFacts
<1>7. snapshot \in Message /\ ahead \in Message /\ snapshot.seq = 0 /\ ahead.seq = 0
      /\ snapshot.final = conn[c].snap /\ ahead.final = FALSE /\ ahead.kind = "gap"
  BY <1>3, StreamAssumption DEF Unnumbered, Message
<1>8. \A e \in Event : Progress(e) \in Message /\ Progress(e).seq = e.seq /\ Progress(e).final = e.final
  BY StreamAssumption DEF Progress, Event, Message
<1>9. /\ r \in Seq(Message) /\ Len(r) = Len(u)
      /\ \A i \in 1..Len(u) : r[i].seq = u[i].seq /\ r[i].final = u[i].final
  <2>1. \A i \in 1..Len(u) : u[i] \in Event
    BY <1>6
  <2>2. r \in [1..Len(u) -> Message]
    BY <1>0, <1>6, <1>8, <2>1
  <2>3. r \in Seq(Message) /\ Len(r) = Len(u)
    BY <1>6, <2>2
  <2> QED BY <1>0, <1>6, <1>8, <2>1, <2>3
<1> HIDE DEF snapshot, ahead
<1>10. /\ g \in Seq(Message) /\ Len(g) = k /\ k \in {0, 1} /\ (gap <=> k = 1)
       /\ k = 1 => g[1] = ahead
  BY <1>2, <1>7
<1>11. /\ t \in Seq(Message) /\ Len(t) \in {0, 1} /\ (Len(t) = 1 => t[1] = snapshot)
  BY <1>1, <1>7
<1>12. PICK q : q = g \o r \o t
  OBVIOUS
<1>13. /\ q \in Seq(Message) /\ Len(q) = k + Len(u) + Len(t)
       /\ \A i \in 1..k : q[i] = g[i]
       /\ \A i \in 1..Len(u) : q[k + i] = r[i]
       /\ \A i \in 1..Len(t) : q[k + Len(u) + i] = t[i]
  <2>1. PICK gr : gr = g \o r
    OBVIOUS
  <2>2. /\ gr \in Seq(Message) /\ Len(gr) = k + Len(u)
        /\ \A i \in 1..k : gr[i] = g[i]
        /\ \A i \in 1..Len(u) : gr[k + i] = r[i]
    <3>1. g \in Seq(Message) /\ r \in Seq(Message) /\ Len(g) = k /\ Len(r) = Len(u)
      BY <1>9, <1>10
    <3>2. /\ g \o r \in Seq(Message) /\ Len(g \o r) = Len(g) + Len(r)
          /\ \A i \in 1..Len(g) : (g \o r)[i] = g[i]
          /\ \A i \in 1..Len(r) : (g \o r)[Len(g) + i] = r[i]
      BY <3>1, Join
    <3> QED BY <2>1, <3>1, <3>2, Zenon
  <2>3. q = gr \o t
    BY <1>12, <2>1
  <2>4. /\ q \in Seq(Message) /\ Len(q) = k + Len(u) + Len(t)
        /\ \A i \in 1..(k + Len(u)) : q[i] = gr[i]
        /\ \A i \in 1..Len(t) : q[k + Len(u) + i] = t[i]
    <3>1. gr \in Seq(Message) /\ t \in Seq(Message) /\ Len(gr) = k + Len(u)
      BY <1>11, <2>2
    <3>2. /\ gr \o t \in Seq(Message) /\ Len(gr \o t) = Len(gr) + Len(t)
          /\ \A i \in 1..Len(gr) : (gr \o t)[i] = gr[i]
          /\ \A i \in 1..Len(t) : (gr \o t)[Len(gr) + i] = t[i]
      BY <3>1, Join
    <3> QED BY <2>3, <3>1, <3>2, Zenon
  <2>5. \A i \in 1..k : i \in 1..(k + Len(u))
    BY <1>6, <1>10
  <2>6. \A i \in 1..Len(u) : k + i \in 1..(k + Len(u))
    BY <1>6, <1>10
  <2> QED BY <2>2, <2>4, <2>5, <2>6
<1>14. DOMAIN q = 1..Len(q) /\ Len(q) \in Nat
  BY <1>13
<1>15. ASSUME NEW i \in DOMAIN q
       PROVE  \/ i = k /\ q[i] = ahead
              \/ i - k \in DOMAIN u /\ q[i].seq = u[i - k].seq /\ q[i].final = u[i - k].final
              \/ q[i] = snapshot
  <2>1. CASE i <= k
    <3>1. i = 1 /\ k = 1 /\ i \in 1..k
      BY <1>10, <1>14, <2>1
    <3>2. q[i] = g[i] /\ g[1] = ahead
      BY <1>10, <1>13, <3>1
    <3> QED BY <3>1, <3>2
  <2>2. CASE i > k /\ i <= k + Len(u)
    <3>1. i - k \in 1..Len(u) /\ k + (i - k) = i
      BY <1>6, <1>10, <1>14, <2>2
    <3>2. q[i] = r[i - k]
      BY <1>13, <3>1
    <3>3. q[i].seq = u[i - k].seq /\ q[i].final = u[i - k].final
      BY <1>9, <3>1, <3>2
    <3> QED BY <1>6, <3>1, <3>3
  <2>3. CASE i > k + Len(u)
    <3>1. i \in Nat /\ i <= k + Len(u) + Len(t) /\ k \in Nat /\ Len(u) \in Nat
      BY <1>6, <1>10, <1>13, <1>14
    <3>2. Len(t) = 1 /\ i = k + Len(u) + 1
      <4>1. CASE Len(t) = 0
        BY <2>3, <3>1, <4>1
      <4>2. CASE Len(t) = 1
        BY <2>3, <3>1, <4>2
      <4> QED BY <1>11, <4>1, <4>2
    <3>3. 1 \in 1..Len(t)
      BY <3>2
    <3>4. q[i] = t[1]
      BY <1>13, <3>2, <3>3
    <3> QED BY <1>11, <3>2, <3>4
  <2> QED BY <1>6, <1>10, <1>14, <2>1, <2>2, <2>3
<1>16. ASSUME NEW i \in DOMAIN u
       PROVE  i + k \in DOMAIN q /\ q[i + k].seq = u[i].seq /\ q[i + k].final = u[i].final
  <2>1. i + k = k + i /\ i + k \in 1..Len(q) /\ i \in 1..Len(u)
    BY <1>6, <1>10, <1>11, <1>13
  <2> QED BY <1>9, <1>13, <1>14, <2>1
<1>17. gap => q # <<>> /\ q[1].kind = "gap"
  <2> SUFFICES ASSUME gap PROVE q # <<>> /\ q[1].kind = "gap"
    OBVIOUS
  <2>1. k = 1 /\ 1 \in 1..k /\ g[1] = ahead
    BY <1>10
  <2>2. Len(q) # 0
    <3>1. Len(q) = k + Len(u) + Len(t)
      BY <1>13
    <3>2. Len(u) \in Nat /\ Len(t) \in Nat
      BY <1>6, <1>11
    <3> QED BY <2>1, <3>1, <3>2
  <2>3. q[1] = ahead /\ q # <<>>
    BY <1>13, <2>1, <2>2
  <2> QED BY <1>7, <2>3
<1>18. \A i \in DOMAIN q : q[i].seq = 0 \/ (i - k \in DOMAIN u /\ q[i].seq = u[i - k].seq)
  BY <1>7, <1>15
<1>19. \A i \in DOMAIN q : q[i].final => conn[c].snap \/ \E j \in DOMAIN u : u[j].final
  BY <1>7, <1>15
<1>20. conn'[c].queue = q
  BY <1>5, <1>12
<1>21. conn'[c] \in Connection /\ conn'[c].after = conn[c].after
  <2>1. conn'[c] = [conn[c] EXCEPT !.at = "open", !.queue = q] /\ q \in Seq(Message)
    BY <1>4, <1>12, <1>13
  <2> QED BY <1>3, <2>1, OpenedConnection
<1>22. Queued(q, u, gap, conn[c].snap)
  BY <1>6, <1>13, <1>16, <1>17, <1>18, <1>19 DEF Queued
<1> QED BY <1>5, <1>20, <1>21, <1>22

(* With its window and an empty channel a page has all up to the last event, or is told of a gap. *)
LEMMA SubscribePage ==
    ASSUME StreamTypeOK, NEW c \in Pages, Attached(c), Ordered(c),
           ~told[c] /\ ~lossy[c] => Seamless(c), Subscribe(c)
    PROVE  Attached(c)' /\ Ordered(c)' /\ (~told'[c] /\ ~lossy'[c] => Seamless(c)')
<1>0. PICK after, w, u, gap, k : /\ after = conn[c].after /\ w = Window(after) /\ u = UpToFinal(w)
                                 /\ gap = Gap(after) /\ k = IF gap THEN 1 ELSE 0
  OBVIOUS
<1>1. PICK q : q = conn'[c].queue
  OBVIOUS
<1>2. /\ next' = next /\ page'[c] = page[c] /\ heard'[c] = heard[c] /\ told'[c] = told[c]
      /\ lossy'[c] = lossy[c] /\ channel'[c] = channel[c] /\ conn[c].at = "subscribe"
  BY DEF Subscribe, hub
<1>3. /\ page[c].at = "following" /\ after = page[c].lastId /\ channel[c] = <<>>
      /\ after \in Nat /\ next \in Nat /\ heard[c] \in SUBSET Nat
      /\ \A n \in heard[c] : n <= after /\ n <= next /\ n # 0
  <2>1. heard[c] \in SUBSET (1..MaxEvents) /\ MaxEvents \in Nat
    BY StreamAssumption DEF StreamTypeOK
  <2> QED BY <1>0, <1>2, <2>1, PageTypes DEF Attached, Subscribed
<1>4. /\ q \in Seq(Message) /\ conn'[c].at = "open" /\ u \in Seq(Event) /\ k \in {0, 1}
      /\ gap => q # <<>> /\ q[1].kind = "gap"
      /\ \A i \in DOMAIN q : q[i].seq = 0 \/ (i - k \in DOMAIN u /\ q[i].seq = u[i - k].seq)
      /\ \A i \in DOMAIN u : i + k \in DOMAIN q /\ q[i + k].seq = u[i].seq /\ q[i + k].final = u[i].final
  <2>1. k = IF gap THEN 1 ELSE 0
    BY <1>0
  <2>2. k \in {0, 1}
    BY <2>1
  <2>3. Queued(conn'[c].queue, UpToFinal(Window(conn[c].after)), Gap(conn[c].after), conn[c].snap)
        /\ conn'[c].at = "open"
    BY QueueFacts
  <2>4. Queued(q, u, gap, conn[c].snap) /\ conn'[c].at = "open"
    BY <1>0, <1>1, <2>3, Zenon
  <2> QED BY <2>1, <2>2, <2>4 DEF Queued
<1>5. /\ w \in Seq(Event) /\ Len(w) \in Nat /\ Len(w) <= next /\ DOMAIN w = 1..Len(w)
      /\ \A i \in DOMAIN w : w[i].seq = next - Len(w) + i /\ w[i].seq > after
      /\ after > 0 /\ ~gap => Len(w) = next - after
  <2>1. /\ Window(after) \in Seq(Event) /\ Len(Window(after)) <= next
        /\ \A i \in DOMAIN Window(after) :
              /\ Window(after)[i].seq = next - Len(Window(after)) + i
              /\ Window(after)[i].seq > after
        /\ after > 0 /\ ~Gap(after) => Len(Window(after)) = next - after
    BY <1>3, WindowFacts
  <2>2. /\ w \in Seq(Event) /\ Len(w) <= next
        /\ \A i \in DOMAIN w : w[i].seq = next - Len(w) + i /\ w[i].seq > after
        /\ after > 0 /\ ~gap => Len(w) = next - after
    BY <1>0, <2>1, Zenon
  <2>3. Len(w) \in Nat /\ DOMAIN w = 1..Len(w)
    BY <2>2
  <2> QED BY <2>2, <2>3
<1>6. /\ Len(u) \in Nat /\ Len(u) <= Len(w) /\ DOMAIN u = 1..Len(u)
      /\ \A i \in DOMAIN u : i \in DOMAIN w /\ u[i] = w[i]
      /\ u = w \/ \E i \in DOMAIN u : u[i].final
  <2>1. w \in Seq(Event) /\ u \in Seq(Event)
    BY <1>4, <1>5
  <2>2. /\ Len(UpToFinal(w)) <= Len(w)
        /\ \A i \in DOMAIN UpToFinal(w) : i \in DOMAIN w /\ UpToFinal(w)[i] = w[i]
        /\ UpToFinal(w) = w \/ \E i \in DOMAIN UpToFinal(w) : UpToFinal(w)[i].final
    BY <2>1, UpToFinalFacts
  <2>3. /\ Len(u) <= Len(w)
        /\ \A i \in DOMAIN u : i \in DOMAIN w /\ u[i] = w[i]
        /\ u = w \/ \E i \in DOMAIN u : u[i].final
    BY <1>0, <2>2, Zenon
  <2>4. Len(u) \in Nat /\ DOMAIN u = 1..Len(u)
    BY <2>1
  <2> QED BY <2>3, <2>4
<1>7. \A i \in DOMAIN u : u[i].seq = next - Len(w) + i /\ u[i].seq > after /\ u[i].seq <= next
  BY <1>3, <1>5, <1>6
<1>8. DOMAIN q = 1..Len(q) /\ Len(q) \in Nat /\ DOMAIN channel[c] = {}
  BY <1>3, <1>4
<1>9. Attached(c)'
  BY <1>2, <1>3, <1>4 DEF Attached, Subscribed
<1>10. Ordered(c)'
  <2>1. \A i \in DOMAIN q : q[i].seq > 0 => q[i].seq <= next /\ \A n \in heard[c] : n < q[i].seq
    <3> SUFFICES ASSUME NEW i \in DOMAIN q, q[i].seq > 0
                 PROVE  q[i].seq <= next /\ \A n \in heard[c] : n < q[i].seq
      OBVIOUS
    <3>1. i - k \in DOMAIN u /\ q[i].seq = u[i - k].seq
      BY <1>4
    <3>2. q[i].seq <= next /\ q[i].seq > after /\ q[i].seq = next - Len(w) + (i - k)
      BY <1>7, <3>1
    <3>3. q[i].seq \in Int
      BY <1>3, <1>4, <1>5, <1>8, <3>2
    <3> QED BY <1>3, <3>2, <3>3
  <2>2. \A i, j \in DOMAIN q : i < j /\ q[j].seq > 0 => q[i].seq < q[j].seq
    <3> SUFFICES ASSUME NEW i \in DOMAIN q, NEW j \in DOMAIN q, i < j, q[j].seq > 0
                 PROVE  q[i].seq < q[j].seq
      OBVIOUS
    <3>1. j - k \in DOMAIN u /\ q[j].seq = next - Len(w) + (j - k)
      BY <1>4, <1>7
    <3>2. CASE q[i].seq = 0
      BY <3>2
    <3>3. CASE i - k \in DOMAIN u /\ q[i].seq = u[i - k].seq
      <4>1. q[i].seq = next - Len(w) + (i - k)
        BY <1>7, <3>3
      <4> QED BY <1>3, <1>4, <1>5, <1>8, <3>1, <4>1
    <3> QED BY <1>4, <3>2, <3>3
  <2> QED BY <1>1, <1>2, <1>8, <2>1, <2>2 DEF Ordered
<1>11. ASSUME ~told'[c], ~lossy'[c] PROVE Seamless(c)'
  <2>0. Seamless(c)
    BY <1>2, <1>11
  <2>1. WithoutHole(heard[c]) /\ (heard[c] # {} => after \in heard[c])
    BY <1>3, <2>0 DEF Seamless
  <2>2. CASE gap
    BY <1>1, <1>2, <1>3, <1>4, <2>1, <2>2 DEF Seamless, GapAhead
  <2>3. CASE ~gap
    <3>0. k = 0
      BY <1>0, <2>3
    <3>1. Numbered(q) = {u[i].seq : i \in DOMAIN u}
      <4>1. ASSUME NEW i \in DOMAIN q, q[i].seq # 0 PROVE q[i].seq \in {u[j].seq : j \in DOMAIN u}
        <5>1. i - k \in DOMAIN u /\ q[i].seq = u[i - k].seq
          BY <1>4, <4>1
        <5> QED BY <5>1
      <4>2. ASSUME NEW i \in DOMAIN u PROVE u[i].seq \in Numbered(q)
        <5>1. i + k \in DOMAIN q /\ q[i + k].seq = u[i].seq /\ u[i].seq > after
          BY <1>4, <1>7
        <5>2. u[i].seq # 0
          BY <1>3, <5>1
        <5> QED BY <5>1, <5>2 DEF Numbered
      <4> QED BY <4>1, <4>2 DEF Numbered
    <3>2. {u[i].seq : i \in DOMAIN u} = (next - Len(w) + 1)..(next - Len(w) + Len(u))
      <4>1. \A i \in DOMAIN u : u[i].seq \in (next - Len(w) + 1)..(next - Len(w) + Len(u))
        BY <1>3, <1>5, <1>6, <1>7
      <4>2. ASSUME NEW x \in (next - Len(w) + 1)..(next - Len(w) + Len(u))
            PROVE  \E i \in DOMAIN u : u[i].seq = x
        <5>1. x - (next - Len(w)) \in DOMAIN u
          BY <1>3, <1>5, <1>6
        <5>2. u[x - (next - Len(w))].seq = next - Len(w) + (x - (next - Len(w)))
          BY <1>7, <5>1
        <5>3. next - Len(w) + (x - (next - Len(w))) = x
          BY <1>3, <1>5
        <5> QED BY <5>1, <5>2, <5>3
      <4> QED BY <4>1, <4>2
    <3>3. Numbered(channel[c]) = {}
      BY <1>8 DEF Numbered
    <3>4. Known(c)' = heard[c] \cup ((next - Len(w) + 1)..(next - Len(w) + Len(u)))
      BY <1>1, <1>2, <3>1, <3>2, <3>3 DEF Known
    <3>5. CASE heard[c] = {}
      <4>1. Known(c)' = (next - Len(w) + 1)..(next - Len(w) + Len(u))
        BY <3>4, <3>5
      <4>2. WithoutHole(Known(c)')
        BY <1>3, <1>5, <1>6, <4>1 DEF WithoutHole
      <4>3. ~EndQueued(c)' => u = w
        BY <1>1, <1>4, <1>6 DEF EndQueued
      <4>4. u = w /\ Known(c)' # {} => next \in Known(c)'
        BY <1>3, <1>5, <1>6, <4>1
      <4> QED BY <1>2, <3>5, <4>2, <4>3, <4>4 DEF Seamless, WithoutHole
    <3>6. CASE heard[c] # {}
      <4>0. after > 0 /\ after \in heard[c] /\ Len(w) = next - after
        BY <1>3, <1>5, <2>1, <2>3, <3>6
      <4>1. Known(c)' = heard[c] \cup (after + 1..after + Len(u))
        <5>1. next - Len(w) = after
          BY <1>3, <1>5, <4>0
        <5> QED BY <3>4, <5>1
      <4>2. WithoutHole(Known(c)')
        <5> SUFFICES ASSUME NEW low \in Known(c)', NEW high \in Known(c)', NEW x \in low..high
                     PROVE  x \in Known(c)'
          BY DEF WithoutHole
        <5>1. high <= after + Len(u) /\ low \in Nat /\ high \in Nat /\ x \in Nat /\ x <= high /\ low <= x
          BY <1>3, <1>6, <4>1
        <5>2. CASE x > after
          BY <1>3, <1>6, <4>1, <5>1, <5>2
        <5>3. CASE x <= after
          <6>1. low \in heard[c]
            BY <1>3, <4>1, <5>1, <5>3
          <6>2. x \in low..after
            BY <1>3, <5>1, <5>3
          <6>3. x \in heard[c]
            BY <2>1, <4>0, <6>1, <6>2 DEF WithoutHole
          <6> QED BY <4>1, <6>3
        <5> QED BY <1>3, <5>1, <5>2, <5>3
      <4>3. ~EndQueued(c)' => u = w
        BY <1>1, <1>4, <1>6 DEF EndQueued
      <4>4. u = w => next \in Known(c)'
        <5> SUFFICES ASSUME u = w PROVE next \in Known(c)'
          OBVIOUS
        <5>1. next = after + Len(u)
          BY <1>3, <1>5, <4>0
        <5>2. CASE Len(u) = 0
          BY <1>3, <4>0, <4>1, <5>1, <5>2
        <5>3. CASE Len(u) # 0
          BY <1>3, <1>6, <4>1, <5>1, <5>3
        <5> QED BY <5>2, <5>3
      <4> QED BY <1>2, <1>3, <2>1, <4>2, <4>3, <4>4 DEF Seamless
    <3> QED BY <3>5, <3>6
  <2> QED BY <2>2, <2>3
<1> QED BY <1>9, <1>10, <1>11

(* The history after a publish. *)
LEMMA HistoryFacts ==
    ASSUME StreamTypeOK, next < MaxEvents, NEW final \in BOOLEAN, Publish(final)
    PROVE  /\ next' \in 0..MaxEvents
           /\ retained' \in Seq(Event) /\ Len(retained') <= HistoryMax /\ Len(retained') <= next'
           /\ retained' # <<>>
           /\ \A i \in DOMAIN retained' : retained'[i].seq = next' - Len(retained') + i
           /\ \A i \in DOMAIN retained' :
                 retained'[i].final = final \/ (\E k \in DOMAIN retained : retained'[i] = retained[k])
<1> DEFINE L == Len(retained)
<1>0. PICK e : e = [seq |-> next + 1, final |-> final]
  OBVIOUS
<1>1. PICK all : all = Append(retained, e)
  OBVIOUS
<1>2. /\ next' = next + 1 /\ retained' = IF Len(all) > HistoryMax THEN Tail(all) ELSE all
  BY <1>0, <1>1 DEF Publish
<1>3. /\ retained \in Seq(Event) /\ L \in Nat /\ next \in Nat /\ L <= next /\ L <= HistoryMax
      /\ DOMAIN retained = 1..L /\ \A i \in 1..L : retained[i].seq = next - L + i
      /\ HistoryMax \in Nat \ {0} /\ MaxEvents \in Nat
  BY StreamAssumption DEF StreamTypeOK
<1>4. e \in Event /\ e.seq = next + 1 /\ e.final = final
  BY <1>0, <1>3 DEF Event
<1>5. /\ all \in Seq(Event) /\ Len(all) = L + 1 /\ DOMAIN all = 1..(L + 1)
      /\ \A i \in 1..L : all[i] = retained[i]
      /\ all[L + 1] = e
  BY <1>1, <1>3, <1>4
<1>6. \A i \in 1..(L + 1) : /\ all[i].seq = next - L + i
                            /\ all[i].final = final \/ (\E k \in DOMAIN retained : all[i] = retained[k])
  <2> SUFFICES ASSUME NEW i \in 1..(L + 1)
               PROVE  /\ all[i].seq = next - L + i
                      /\ all[i].final = final \/ (\E k \in DOMAIN retained : all[i] = retained[k])
    OBVIOUS
  <2>1. CASE i \in 1..L
    BY <1>3, <1>5, <2>1
  <2>2. CASE i = L + 1
    BY <1>3, <1>4, <1>5, <2>2
  <2> QED BY <1>3, <2>1, <2>2
<1>7. CASE Len(all) > HistoryMax
  <2>1. retained' = Tail(all) /\ all # <<>> /\ L > 0
    BY <1>2, <1>3, <1>5, <1>7
  <2>2. /\ retained' \in Seq(Event) /\ Len(retained') = L /\ DOMAIN retained' = 1..L
        /\ \A i \in 1..L : retained'[i] = all[i + 1] /\ i + 1 \in 1..(L + 1)
    <3>1. L + 1 - 1 = L
      BY <1>3
    <3> QED BY <1>5, <2>1, <3>1, HeadTail
  <2>3. \A i \in 1..L : /\ retained'[i].seq = next' - L + i
                        /\ retained'[i].final = final \/ (\E k \in DOMAIN retained : retained'[i] = retained[k])
    <3> SUFFICES ASSUME NEW i \in 1..L
                 PROVE  /\ retained'[i].seq = next' - L + i
                        /\ retained'[i].final = final \/ (\E k \in DOMAIN retained : retained'[i] = retained[k])
      OBVIOUS
    <3>1. retained'[i] = all[i + 1] /\ i + 1 \in 1..(L + 1)
      BY <2>2
    <3>2. next - L + (i + 1) = next' - L + i
      BY <1>2, <1>3
    <3> QED BY <1>6, <3>1, <3>2
  <2>4. next' \in 0..MaxEvents /\ L <= next' /\ L <= HistoryMax
    BY <1>2, <1>3
  <2>5. retained' # <<>>
    BY <2>1, <2>2
  <2> QED BY <2>2, <2>3, <2>4, <2>5
<1>8. CASE ~(Len(all) > HistoryMax)
  <2>1. retained' = all /\ next' - (L + 1) = next - L
    BY <1>2, <1>3, <1>8
  <2>2. Len(retained') <= HistoryMax /\ retained' # <<>> /\ next' \in 0..MaxEvents /\ L + 1 <= next'
    BY <1>2, <1>3, <1>5, <1>8, <2>1
  <2>3. retained' \in Seq(Event) /\ Len(retained') = L + 1 /\ DOMAIN retained' = 1..(L + 1)
    BY <1>5, <2>1
  <2>4. ASSUME NEW i \in DOMAIN retained'
        PROVE  /\ retained'[i].seq = next' - Len(retained') + i
               /\ retained'[i].final = final \/ (\E k \in DOMAIN retained : retained'[i] = retained[k])
    <3>1. i \in 1..(L + 1) /\ retained'[i] = all[i] /\ next' - Len(retained') = next - L
      BY <2>1, <2>3
    <3> QED BY <1>6, <3>1
  <2> QED BY <2>2, <2>3, <2>4
<1> QED BY <1>7, <1>8

(* The channels after a publish. *)
LEMMA ChannelFacts ==
    ASSUME StreamTypeOK, next < MaxEvents, NEW final \in BOOLEAN, Publish(final)
    PROVE  /\ channel' \in [Pages -> Seq(Event)] /\ lossy' \in [Pages -> BOOLEAN]
           /\ \A c \in Pages : Len(channel'[c]) <= ChannelMax
           /\ \A c \in Pages : \A i \in DOMAIN channel'[c] :
                 channel'[c][i].final = final \/ (\E k \in DOMAIN channel[c] : channel'[c][i] = channel[c][k])
<1>0. PICK e : e = [seq |-> next + 1, final |-> final]
  OBVIOUS
<1>1. /\ channel' = [c \in Pages |-> IF Subscribed(c) /\ ~Full(c) THEN Append(channel[c], e) ELSE channel[c]]
      /\ lossy' = [c \in Pages |-> lossy[c] \/ (Subscribed(c) /\ Full(c))]
  BY <1>0 DEF Publish
<1>2. e \in Event /\ e.final = final /\ ChannelMax \in Nat
  BY <1>0, StreamAssumption DEF Event, StreamTypeOK
<1>3. ASSUME NEW c \in Pages
      PROVE  /\ channel'[c] \in Seq(Event) /\ Len(channel'[c]) <= ChannelMax
             /\ \A i \in DOMAIN channel'[c] :
                   channel'[c][i].final = final \/ (\E k \in DOMAIN channel[c] : channel'[c][i] = channel[c][k])
  <2>1. channel[c] \in Seq(Event) /\ Len(channel[c]) <= ChannelMax /\ Len(channel[c]) \in Nat
    BY DEF StreamTypeOK
  <2>2. CASE ~(Subscribed(c) /\ ~Full(c))
    BY <1>1, <2>1, <2>2
  <2>3. CASE Subscribed(c) /\ ~Full(c)
    <3>1. channel'[c] = Append(channel[c], e) /\ Len(channel[c]) < ChannelMax
      BY <1>1, <1>2, <2>1, <2>3 DEF Full
    <3>2. /\ channel'[c] \in Seq(Event) /\ Len(channel'[c]) = Len(channel[c]) + 1
          /\ DOMAIN channel'[c] = 1..(Len(channel[c]) + 1) /\ DOMAIN channel[c] = 1..Len(channel[c])
          /\ \A i \in 1..Len(channel[c]) : channel'[c][i] = channel[c][i]
          /\ channel'[c][Len(channel[c]) + 1] = e
      BY <1>2, <2>1, <3>1
    <3>3. Len(channel'[c]) <= ChannelMax
      BY <1>2, <2>1, <3>1, <3>2
    <3>4. ASSUME NEW i \in DOMAIN channel'[c]
          PROVE  channel'[c][i].final = final \/ (\E k \in DOMAIN channel[c] : channel'[c][i] = channel[c][k])
      <4>1. i \in 1..Len(channel[c]) \/ i = Len(channel[c]) + 1
        BY <2>1, <3>2
      <4> QED BY <1>2, <3>2, <4>1
    <3> QED BY <3>2, <3>3, <3>4
  <2> QED BY <2>2, <2>3
<1>4. lossy' \in [Pages -> BOOLEAN]
  BY <1>1
<1>5. channel' \in [Pages -> Seq(Event)]
  BY <1>1, <1>3
<1> QED BY <1>3, <1>4, <1>5

(* The invariant that the steps preserve. *)
Streaming == StreamInv /\ EndsFollow /\ EndIsSaved

PageHolds(c) == Attached(c) /\ Ordered(c) /\ (~told[c] /\ ~lossy[c] => Seamless(c))

(* The invariant, page by page. *)
LEMMA PagesHold == StreamOrder /\ NoSilentGap <=> \A c \in Pages : PageHolds(c)
BY DEF StreamOrder, NoSilentGap, PageHolds

(* Nothing final is under way to page c. *)
Unended(c) ==
    /\ ~conn[c].snap
    /\ \A i \in DOMAIN channel[c] : ~channel[c][i].final
    /\ \A i \in DOMAIN conn[c].queue : ~conn[c].queue[i].final

(* A publish preserves the invariant. *)
LEMMA PublishKeeps ==
    ASSUME Streaming, NEW final \in BOOLEAN, next < MaxEvents, Publish(final),
           UNCHANGED <<state, serving, asked, unsaved>>,
           (outbox' = outbox /\ emitter' = emitter) \/ (outbox' = "none" /\ emitter' = "none"),
           outbox' # "none" => next' < MaxEvents,
           final => state = "FINAL" \/ unsaved
    PROVE  Streaming'
<1>0. StreamTypeOK /\ EndsFollow /\ EndIsSaved /\ \A c \in Pages : PageHolds(c)
  BY PagesHold DEF Streaming, StreamInv
<1>1. /\ next' \in 0..MaxEvents
      /\ retained' \in Seq(Event) /\ Len(retained') <= HistoryMax /\ Len(retained') <= next'
      /\ retained' # <<>>
      /\ \A i \in DOMAIN retained' : retained'[i].seq = next' - Len(retained') + i
      /\ \A i \in DOMAIN retained' :
            retained'[i].final = final \/ (\E k \in DOMAIN retained : retained'[i] = retained[k])
  BY <1>0, HistoryFacts
<1>2. /\ channel' \in [Pages -> Seq(Event)] /\ lossy' \in [Pages -> BOOLEAN]
      /\ \A c \in Pages : Len(channel'[c]) <= ChannelMax
      /\ \A c \in Pages : \A i \in DOMAIN channel'[c] :
            channel'[c][i].final = final \/ (\E k \in DOMAIN channel[c] : channel'[c][i] = channel[c][k])
  BY <1>0, ChannelFacts
<1>3. conn' = conn /\ page' = page /\ heard' = heard /\ told' = told
  BY DEF Publish
<1>4. StreamTypeOK'
  <2>1. /\ conn' \in [Pages -> Connection] /\ page' \in [Pages -> Page]
        /\ heard' \in [Pages -> SUBSET (1..MaxEvents)] /\ told' \in [Pages -> BOOLEAN]
    BY <1>0, <1>3 DEF StreamTypeOK
  <2>2. /\ state' \in {"RUNNING", "WAITING", "FINAL"}
        /\ emitter' \in {"run", "resume", "recover", "none"}
        /\ outbox' \in {"none", "WAITING", "FINAL"}
        /\ {serving', asked', unsaved'} \subseteq BOOLEAN
    BY <1>0 DEF StreamTypeOK
  <2> QED BY <1>1, <1>2, <2>1, <2>2 DEF StreamTypeOK
<1>5. ASSUME NEW c \in Pages PROVE PageHolds(c)'
  <2>1. Attached(c) /\ Ordered(c) /\ (~told[c] /\ ~lossy[c] => Seamless(c))
    BY <1>0 DEF PageHolds
  <2>2. Attached(c)' /\ Ordered(c)' /\ (~told'[c] /\ ~lossy'[c] => Seamless(c)')
    BY <1>0, <2>1, PublishPage
  <2> QED BY <2>2 DEF PageHolds
<1>6. EndsFollow'
  <2>1. /\ emitter' \in {"run", "resume"} /\ outbox' = "none" => state' = "RUNNING"
        /\ emitter' = "recover" => state' = "RUNNING" /\ outbox' = "none"
        /\ outbox' # "none" => emitter' \in {"run", "resume"}
        /\ ~serving' => emitter' = "none"
        /\ ~unsaved' /\ outbox' # "none" => state' = outbox'
    BY <1>0 DEF EndsFollow
  <2>2. ASSUME ~unsaved', state' # "FINAL"
        PROVE  /\ \A i \in DOMAIN retained' : ~retained'[i].final
               /\ \A c \in Pages :
                     /\ ~conn'[c].snap
                     /\ \A i \in DOMAIN channel'[c] : ~channel'[c][i].final
                     /\ \A i \in DOMAIN conn'[c].queue : ~conn'[c].queue[i].final
    <3>1. /\ \A i \in DOMAIN retained : ~retained[i].final
          /\ \A c \in Pages :
                /\ ~conn[c].snap
                /\ \A i \in DOMAIN channel[c] : ~channel[c][i].final
                /\ \A i \in DOMAIN conn[c].queue : ~conn[c].queue[i].final
      BY <1>0, <2>2 DEF EndsFollow
    <3>2. ~final
      BY <2>2
    <3>3. ASSUME NEW i \in DOMAIN retained' PROVE ~retained'[i].final
      BY <1>1, <3>1, <3>2, <3>3, Zenon
    <3>4. ASSUME NEW c \in Pages, NEW i \in DOMAIN channel'[c] PROVE ~channel'[c][i].final
      <4>1. channel'[c][i].final = final \/ (\E k \in DOMAIN channel[c] : channel'[c][i] = channel[c][k])
        BY <1>2, <3>4
      <4>2. \A k \in DOMAIN channel[c] : ~channel[c][k].final
        BY <3>1, <3>4
      <4> QED BY <3>2, <4>1, <4>2, Zenon
    <3> QED BY <1>3, <3>1, <3>3, <3>4
  <2> QED BY <2>1, <2>2 DEF EndsFollow
<1>7. EndIsSaved'
  BY <1>0, <1>3 DEF EndIsSaved
<1>8. (StreamOrder /\ NoSilentGap)'
  BY <1>5, PagesHold DEF StreamOrder, NoSilentGap, PageHolds
<1> QED BY <1>4, <1>6, <1>7, <1>8 DEF Streaming, StreamInv

(* A step of page c: the others and the hub are left alone. *)
LEMMA PageKeeps ==
    ASSUME Streaming, NEW c \in Pages,
           UNCHANGED <<state, emitter, outbox, next, retained, serving, asked, unsaved>>,
           conn' \in [Pages -> Connection], channel' \in [Pages -> Seq(Event)],
           page' \in [Pages -> Page], heard' \in [Pages -> SUBSET (1..MaxEvents)],
           told' \in [Pages -> BOOLEAN], lossy' \in [Pages -> BOOLEAN],
           Len(channel'[c]) <= ChannelMax,
           \A d \in Pages : d # c =>
              /\ conn'[d] = conn[d] /\ channel'[d] = channel[d] /\ page'[d] = page[d]
              /\ heard'[d] = heard[d] /\ told'[d] = told[d] /\ lossy'[d] = lossy[d],
           PageHolds(c)', ~unsaved /\ state # "FINAL" => Unended(c)',
           page'[c].at = "done" /\ ~unsaved => state = "FINAL"
    PROVE  Streaming'
<1>0. StreamTypeOK /\ EndsFollow /\ EndIsSaved /\ \A d \in Pages : PageHolds(d)
  BY PagesHold DEF Streaming, StreamInv
<1>1. StreamTypeOK'
  <2>1. \A d \in Pages : Len(channel'[d]) <= ChannelMax
    BY <1>0 DEF StreamTypeOK
  <2> QED BY <1>0, <2>1 DEF StreamTypeOK
<1>2. ASSUME NEW d \in Pages PROVE PageHolds(d)'
  <2>1. CASE d = c
    BY <2>1
  <2>2. CASE d # c
    <3>1. Attached(d) /\ Ordered(d) /\ (~told[d] /\ ~lossy[d] => Seamless(d))
      BY <1>0 DEF PageHolds
    <3>2. /\ conn[d].at # "none" => page[d].at = "following"
          /\ page[d].at = "off" => heard[d] = {}
      BY <3>1 DEF Attached
    <3>3. /\ next' = next /\ conn'[d] = conn[d] /\ channel'[d] = channel[d] /\ heard'[d] = heard[d]
          /\ told'[d] = told[d] /\ lossy'[d] = lossy[d] /\ page'[d] = page[d]
      BY <2>2
    <3>4. Attached(d)' /\ Ordered(d)' /\ (~told'[d] /\ ~lossy'[d] => Seamless(d)')
      BY <3>1, <3>2, <3>3, SamePage
    <3> QED BY <3>4 DEF PageHolds
  <2> QED BY <2>1, <2>2
<1>3. EndsFollow'
  <2>1. ASSUME ~unsaved', state' # "FINAL", NEW d \in Pages
        PROVE  /\ ~conn'[d].snap
               /\ \A i \in DOMAIN channel'[d] : ~channel'[d][i].final
               /\ \A i \in DOMAIN conn'[d].queue : ~conn'[d].queue[i].final
    <3>1. CASE d = c
      BY <2>1, <3>1 DEF Unended
    <3>2. CASE d # c
      BY <1>0, <2>1, <3>2 DEF EndsFollow
    <3> QED BY <3>1, <3>2
  <2> QED BY <1>0, <2>1 DEF EndsFollow
<1>4. EndIsSaved'
  BY <1>0 DEF EndIsSaved
<1>5. (StreamOrder /\ NoSilentGap)'
  BY <1>2 DEF StreamOrder, NoSilentGap, PageHolds
<1> QED BY <1>1, <1>3, <1>4, <1>5 DEF Streaming, StreamInv

(* A step of the task: hub and pages are left alone. *)
LEMMA QuietKeeps ==
    ASSUME Streaming,
           UNCHANGED <<next, retained, channel, conn, page, heard, told, lossy>>,
           state' \in {"RUNNING", "WAITING", "FINAL"},
           emitter' \in {"run", "resume", "recover", "none"},
           outbox' \in {"none", "WAITING", "FINAL"}, outbox' # "none" => next < MaxEvents,
           {serving', asked', unsaved'} \subseteq BOOLEAN,
           unsaved => unsaved', state = "FINAL" => state' = "FINAL",
           /\ emitter' \in {"run", "resume"} /\ outbox' = "none" => state' = "RUNNING"
           /\ emitter' = "recover" => state' = "RUNNING" /\ outbox' = "none"
           /\ outbox' # "none" => emitter' \in {"run", "resume"}
           /\ ~serving' => emitter' = "none"
           /\ ~unsaved' /\ outbox' # "none" => state' = outbox'
    PROVE  Streaming'
<1>0. StreamTypeOK /\ EndsFollow /\ EndIsSaved /\ \A d \in Pages : PageHolds(d)
  BY PagesHold DEF Streaming, StreamInv
<1>1. StreamTypeOK'
  BY <1>0 DEF StreamTypeOK
<1>2. ASSUME NEW d \in Pages PROVE PageHolds(d)'
  <2>1. Attached(d) /\ Ordered(d) /\ (~told[d] /\ ~lossy[d] => Seamless(d))
    BY <1>0 DEF PageHolds
  <2>2. /\ conn[d].at # "none" => page[d].at = "following"
        /\ page[d].at = "off" => heard[d] = {}
    BY <2>1 DEF Attached
  <2>3. Attached(d)' /\ Ordered(d)' /\ (~told'[d] /\ ~lossy'[d] => Seamless(d)')
    BY <2>1, <2>2, SamePage
  <2> QED BY <2>3 DEF PageHolds
<1>3. EndsFollow'
  BY <1>0 DEF EndsFollow
<1>4. EndIsSaved'
  BY <1>0 DEF EndIsSaved
<1>5. (StreamOrder /\ NoSilentGap)'
  BY <1>2 DEF StreamOrder, NoSilentGap, PageHolds
<1> QED BY <1>1, <1>3, <1>4, <1>5 DEF Streaming, StreamInv

(* The steps of the agent and of recovery. *)
LEMMA TaskStepKeeps ==
    ASSUME Streaming,
           \/ Work \/ PublishOutcome \/ ResumeTask \/ SaveOutcomeFails \/ ServerStarts
           \/ \E outcome \in {"WAITING", "FINAL"} : SaveOutcome(outcome) \/ RecoverSilently(outcome)
           \/ \E final \in BOOLEAN : AnswerAgain(final)
    PROVE  Streaming'
<1>0. StreamTypeOK /\ EndsFollow
  BY DEF Streaming, StreamInv
<1>1. next \in Nat /\ MaxEvents \in Nat
  BY <1>0, StreamAssumption DEF StreamTypeOK
<1>2. CASE Work
  <2>1. /\ FALSE \in BOOLEAN /\ next < MaxEvents /\ Publish(FALSE) /\ outbox' = "none"
        /\ UNCHANGED <<state, serving, asked, unsaved>> /\ outbox' = outbox /\ emitter' = emitter
    BY <1>2 DEF Work, Room
  <2> QED BY <2>1, PublishKeeps
<1>3. CASE PublishOutcome
  <2>1. (outbox = "FINAL") \in BOOLEAN /\ next < MaxEvents /\ Publish(outbox = "FINAL")
    BY <1>0, <1>3 DEF StreamTypeOK, PublishOutcome
  <2>2. outbox = "FINAL" => state = "FINAL" \/ unsaved
    BY <1>0 DEF EndsFollow
  <2>3. UNCHANGED <<state, serving, asked, unsaved>> /\ outbox' = "none" /\ emitter' = "none"
    BY <1>3 DEF PublishOutcome
  <2> QED BY <2>1, <2>2, <2>3, PublishKeeps
<1>4. CASE ResumeTask
  <2>1. /\ UNCHANGED <<next, retained, channel, conn, page, heard, told, lossy>>
        /\ UNCHANGED <<outbox, serving, asked, unsaved>>
        /\ serving /\ state = "WAITING" /\ state' = "RUNNING" /\ emitter = "none" /\ emitter' = "resume"
    BY <1>4 DEF ResumeTask, hub, streams
  <2>2. outbox = "none" /\ {serving, asked, unsaved} \subseteq BOOLEAN
    BY <1>0, <2>1 DEF EndsFollow, StreamTypeOK
  <2> QED BY <2>1, <2>2, QuietKeeps
<1>5. CASE SaveOutcomeFails
  <2>1. /\ UNCHANGED <<next, retained, channel, conn, page, heard, told, lossy>>
        /\ UNCHANGED <<state, emitter, serving, asked>> /\ outbox' = "FINAL" /\ unsaved' = TRUE
        /\ emitter \in {"run", "resume"} /\ outbox = "none" /\ next < MaxEvents
    BY <1>5 DEF SaveOutcomeFails, hub, streams, Room
  <2>2. /\ state \in {"RUNNING", "WAITING", "FINAL"} /\ {serving, asked, unsaved} \subseteq BOOLEAN
        /\ serving
    BY <1>0, <2>1 DEF EndsFollow, StreamTypeOK
  <2> QED BY <2>1, <2>2, QuietKeeps
<1>6. CASE ServerStarts
  <2>1. /\ UNCHANGED <<next, retained, channel, conn, page, heard, told, lossy>>
        /\ UNCHANGED <<outbox, asked, unsaved>> /\ ~serving /\ serving' = TRUE
        /\ emitter' = IF state = "RUNNING" THEN "recover" ELSE "none"
        /\ state' = state \/ (state = "WAITING" /\ state' = "FINAL")
    BY <1>6 DEF ServerStarts, hub, streams
  <2>2. /\ state \in {"RUNNING", "WAITING", "FINAL"} /\ {serving, asked, unsaved} \subseteq BOOLEAN
        /\ outbox = "none"
    BY <1>0, <2>1 DEF EndsFollow, StreamTypeOK
  <2> QED BY <2>1, <2>2, QuietKeeps
<1>7. ASSUME NEW outcome \in {"WAITING", "FINAL"}, SaveOutcome(outcome) PROVE Streaming'
  <2>1. /\ UNCHANGED <<next, retained, channel, conn, page, heard, told, lossy>>
        /\ UNCHANGED <<emitter, serving, unsaved>> /\ outbox' = outcome /\ state' = outcome
        /\ emitter \in {"run", "resume"} /\ outbox = "none" /\ next < MaxEvents
        /\ asked' \in BOOLEAN
    BY <1>7 DEF SaveOutcome, hub, streams, Room
  <2>2. state = "RUNNING" /\ {serving, unsaved} \subseteq BOOLEAN /\ serving
    BY <1>0, <2>1 DEF EndsFollow, StreamTypeOK
  <2> QED BY <2>1, <2>2, QuietKeeps
<1>8. ASSUME NEW outcome \in {"WAITING", "FINAL"}, RecoverSilently(outcome) PROVE Streaming'
  <2>1. /\ UNCHANGED <<next, retained, channel, conn, page, heard, told, lossy>>
        /\ UNCHANGED <<outbox, serving, unsaved>> /\ emitter' = "none" /\ state' = outcome
        /\ emitter = "recover" /\ asked' \in BOOLEAN
    BY <1>8 DEF RecoverSilently, hub
  <2>2. state = "RUNNING" /\ outbox = "none" /\ {serving, unsaved} \subseteq BOOLEAN
    BY <1>0, <2>1 DEF EndsFollow, StreamTypeOK
  <2> QED BY <2>1, <2>2, QuietKeeps
<1>9. ASSUME NEW final \in BOOLEAN, AnswerAgain(final) PROVE Streaming'
  <2>1. /\ UNCHANGED <<state, emitter, outbox, serving, asked, unsaved>> /\ Publish(final)
        /\ next + 1 < MaxEvents /\ (final => state = "FINAL") /\ next' = next + 1
    BY <1>9 DEF AnswerAgain, Publish
  <2>2. next < MaxEvents /\ next' < MaxEvents
    BY <1>1, <2>1
  <2>3. final => state = "FINAL" \/ unsaved
    BY <2>1
  <2>4. UNCHANGED <<state, serving, asked, unsaved>> /\ outbox' = outbox /\ emitter' = emitter
    BY <2>1
  <2>5. Publish(final)
    BY <2>1
  <2> QED BY <2>2, <2>3, <2>4, <2>5, PublishKeeps
<1> QED BY <1>2, <1>3, <1>4, <1>5, <1>6, <1>7, <1>8, <1>9

(* The initial records are of their types. *)
LEMMA EmptyRecords ==
    NoConn \in Connection /\ NoPage \in Page /\ Following \in Page /\ <<>> \in Seq(Event)
BY StreamAssumption DEF NoConn, NoPage, Following, Connection, Page

(* A message arrives at page c. *)
LEMMA DeliveredKeeps ==
    ASSUME Streaming, NEW c \in Pages, Subscribed(c), NEW m \in Message, Deliver(c, m), PageHolds(c)',
           conn' \in [Pages -> Connection], channel' \in [Pages -> Seq(Event)],
           Len(channel'[c]) <= ChannelMax,
           \A d \in Pages : d # c => conn'[d] = conn[d] /\ channel'[d] = channel[d],
           ~unsaved /\ state # "FINAL" => Unended(c)' /\ ~m.final
    PROVE  Streaming'
<1>0. StreamTypeOK /\ Attached(c)
  BY PagesHold DEF Streaming, StreamInv, PageHolds
<1>1. /\ page \in [Pages -> Page] /\ heard \in [Pages -> SUBSET (1..MaxEvents)]
      /\ told \in [Pages -> BOOLEAN] /\ lossy \in [Pages -> BOOLEAN]
  BY <1>0 DEF StreamTypeOK
<1>2. m.seq \in 0..MaxEvents /\ MaxEvents \in Nat /\ page[c] \in Page /\ page[c].at = "following"
  BY <1>0, <1>1, StreamAssumption DEF Message, Attached, Subscribed
<1>3. /\ page' = [page EXCEPT ![c] = Received(page[c], m)]
      /\ heard' = [heard EXCEPT ![c] = IF m.seq > 0 THEN heard[c] \cup {m.seq} ELSE heard[c]]
      /\ told' = [told EXCEPT ![c] = told[c] \/ m.kind = "gap"] /\ lossy' = lossy
      /\ UNCHANGED <<state, emitter, outbox, next, retained, serving, asked, unsaved>>
  BY <1>1 DEF Deliver, hub
<1>4. /\ Received(page[c], m) \in Page
      /\ Received(page[c], m).at = "done" => m.final
  <2>1. page[c].lastId \in 0..MaxEvents /\ page[c].seen \in 0..MaxEvents
    BY <1>2 DEF Page
  <2> QED BY <1>2, <2>1 DEF Received, Page
<1>5. page' \in [Pages -> Page] /\ page'[c] = Received(page[c], m)
      /\ \A d \in Pages : d # c => page'[d] = page[d]
  BY <1>1, <1>3, <1>4
<1>6. heard' \in [Pages -> SUBSET (1..MaxEvents)] /\ \A d \in Pages : d # c => heard'[d] = heard[d]
  <2>1. (IF m.seq > 0 THEN heard[c] \cup {m.seq} ELSE heard[c]) \in SUBSET (1..MaxEvents)
    BY <1>1, <1>2
  <2> QED BY <1>1, <1>3, <2>1
<1>7. told' \in [Pages -> BOOLEAN] /\ \A d \in Pages : d # c => told'[d] = told[d]
  BY <1>1, <1>3
<1>8. page'[c].at = "done" /\ ~unsaved => state = "FINAL"
  BY <1>4, <1>5
<1>9. ~unsaved /\ state # "FINAL" => Unended(c)'
  OBVIOUS
<1> QED BY <1>1, <1>3, <1>5, <1>6, <1>7, <1>8, <1>9, PageKeeps

(* The steps of a connection. *)
LEMMA ConnectionKeeps ==
    ASSUME Streaming, NEW c \in Pages, Connect(c) \/ Subscribe(c) \/ Replay(c) \/ Live(c)
    PROVE  Streaming'
<1>0. /\ StreamTypeOK /\ EndsFollow /\ EndIsSaved
      /\ Attached(c) /\ Ordered(c) /\ (~told[c] /\ ~lossy[c] => Seamless(c))
  BY PagesHold DEF Streaming, StreamInv, PageHolds
<1>1. /\ conn \in [Pages -> Connection] /\ channel \in [Pages -> Seq(Event)]
      /\ page \in [Pages -> Page] /\ heard \in [Pages -> SUBSET (1..MaxEvents)]
      /\ told \in [Pages -> BOOLEAN] /\ lossy \in [Pages -> BOOLEAN]
      /\ Len(channel[c]) <= ChannelMax
  BY <1>0 DEF StreamTypeOK
<1>2. ~unsaved /\ state # "FINAL" => /\ Unended(c)
                                     /\ \A i \in DOMAIN retained : ~retained[i].final
  BY <1>0 DEF EndsFollow, Unended
<1>3. CASE Connect(c)
  <2>1. PICK k : k = [at |-> "subscribe", snap |-> state = "FINAL", after |-> page[c].lastId, queue |-> <<>>]
    OBVIOUS
  <2>2. /\ k \in Connection /\ k.at = "subscribe" /\ k.after = page[c].lastId /\ k.queue = <<>>
        /\ (k.snap <=> state = "FINAL")
    <3>1. page[c].lastId \in 0..MaxEvents /\ (state = "FINAL") \in BOOLEAN /\ <<>> \in Seq(Message)
      BY <1>1 DEF Page
    <3>2. k \in Connection
      BY <2>1, <3>1 DEF Connection
    <3> QED BY <2>1, <3>2
  <2>3. /\ conn' = [conn EXCEPT ![c] = k] /\ page[c].at = "following" /\ conn[c].at = "none"
        /\ UNCHANGED <<state, emitter, outbox, next, retained, serving, asked, unsaved>>
        /\ UNCHANGED <<channel, page, heard, told, lossy>>
    BY <1>3, <2>1 DEF Connect, hub
  <2>4. /\ conn' \in [Pages -> Connection] /\ conn'[c] = k
        /\ \A d \in Pages : d # c => conn'[d] = conn[d]
    BY <1>1, <2>2, <2>3
  <2>5. channel[c] = <<>> /\ conn[c].queue = <<>>
    BY <1>0, <2>3 DEF Attached, Subscribed
  <2>6. PageHolds(c)'
    <3>1. Attached(c)'
      BY <1>0, <2>2, <2>3, <2>4, <2>5 DEF Attached, Subscribed
    <3>2. Ordered(c)'
      BY <1>0, <2>2, <2>3, <2>4, <2>5 DEF Ordered
    <3>3. Known(c)' = Known(c) /\ ~Subscribed(c)' /\ ~GapAhead(c)' /\ ~GapAhead(c)
      BY <2>2, <2>3, <2>4, <2>5 DEF Known, Subscribed, GapAhead, EndQueued
    <3>4. ~told'[c] /\ ~lossy'[c] => Seamless(c)'
      BY <1>0, <2>3, <3>3 DEF Seamless
    <3> QED BY <3>1, <3>2, <3>4 DEF PageHolds
  <2>7. ~unsaved /\ state # "FINAL" => Unended(c)'
    BY <1>2, <2>2, <2>3, <2>4, <2>5 DEF Unended
  <2>8. page[c].at = "done" /\ ~unsaved => state = "FINAL"
    BY <2>3
  <2> QED BY <1>1, <2>3, <2>4, <2>6, <2>7, <2>8, PageKeeps
<1>4. CASE Subscribe(c)
  <2>1. /\ UNCHANGED <<state, emitter, outbox, next, retained, serving, asked, unsaved>>
        /\ UNCHANGED <<channel, page, heard, told, lossy>> /\ conn[c].at = "subscribe"
        /\ \E k : conn' = [conn EXCEPT ![c] = k]
    BY <1>4 DEF Subscribe, hub
  <2>2. /\ Queued(conn'[c].queue, UpToFinal(Window(conn[c].after)), Gap(conn[c].after), conn[c].snap)
        /\ conn'[c] \in Connection /\ conn'[c].snap = conn[c].snap
    BY <1>0, <1>4, QueueFacts
  <2>3. conn' \in [Pages -> Connection] /\ \A d \in Pages : d # c => conn'[d] = conn[d]
    BY <1>1, <2>1, <2>2
  <2>4. PageHolds(c)'
    BY <1>0, <1>4, SubscribePage DEF PageHolds
  <2>5. ASSUME ~unsaved, state # "FINAL" PROVE Unended(c)'
    <3>1. Unended(c) /\ \A i \in DOMAIN retained : ~retained[i].final
      BY <1>2, <2>5
    <3>2. PICK w : w = Window(conn[c].after)
      OBVIOUS
    <3>3. w \in Seq(Event) /\ \A i \in DOMAIN w : ~w[i].final
      <4>1. conn[c].after \in Nat
        BY <1>0, PageTypes
      <4>2. /\ Window(conn[c].after) \in Seq(Event)
            /\ \A i \in DOMAIN Window(conn[c].after) :
                  \E k \in DOMAIN retained : Window(conn[c].after)[i] = retained[k]
        BY <1>0, <4>1, WindowFacts
      <4> QED BY <3>1, <3>2, <4>2, Zenon
    <3>4. PICK u : u = UpToFinal(w)
      OBVIOUS
    <3>5. \A i \in DOMAIN u : ~u[i].final
      <4>1. \A i \in DOMAIN UpToFinal(w) : i \in DOMAIN w /\ UpToFinal(w)[i] = w[i]
        BY <3>3, UpToFinalFacts
      <4> QED BY <3>3, <3>4, <4>1, Zenon
    <3>6. Queued(conn'[c].queue, u, Gap(conn[c].after), conn[c].snap)
      BY <2>2, <3>2, <3>4
    <3>7. ~conn[c].snap
      BY <3>1 DEF Unended
    <3>8. \A i \in DOMAIN conn'[c].queue : ~conn'[c].queue[i].final
      BY <3>5, <3>6, <3>7 DEF Queued
    <3> QED BY <2>1, <2>2, <3>1, <3>7, <3>8 DEF Unended
  <2>6. page[c].at = "done" /\ ~unsaved => state = "FINAL"
    BY <1>0 DEF EndIsSaved
  <2> QED BY <1>1, <2>1, <2>3, <2>4, <2>5, <2>6, PageKeeps
<1>5. CASE Replay(c)
  <2>1. PICK m : m = Head(conn[c].queue)
    OBVIOUS
  <2>2. /\ conn[c].queue \in Seq(Message) /\ conn[c].queue # <<>> /\ Subscribed(c) /\ Deliver(c, m)
    BY <1>0, <1>5, <2>1, PageTypes DEF Replay
  <2>3. /\ m \in Message /\ m = conn[c].queue[1] /\ 1 \in DOMAIN conn[c].queue
        /\ Tail(conn[c].queue) \in Seq(Message)
        /\ \A i \in DOMAIN Tail(conn[c].queue) :
              Tail(conn[c].queue)[i] = conn[c].queue[i + 1] /\ i + 1 \in DOMAIN conn[c].queue
    BY <2>1, <2>2, HeadTail
  <2>4. PageHolds(c)'
    BY <1>0, <1>5, ReplayPage DEF PageHolds
  <2>5. /\ conn' \in [Pages -> Connection] /\ channel' \in [Pages -> Seq(Event)]
        /\ Len(channel'[c]) <= ChannelMax
        /\ \A d \in Pages : d # c => conn'[d] = conn[d] /\ channel'[d] = channel[d]
        /\ ~unsaved /\ state # "FINAL" => Unended(c)' /\ ~m.final
    <3>1. CASE m.final
      <4>1. conn' = [conn EXCEPT ![c] = NoConn] /\ channel' = [channel EXCEPT ![c] = <<>>]
        BY <1>5, <2>1, <3>1 DEF Replay, Ended
      <4>2. ~(~unsaved /\ state # "FINAL")
        BY <1>2, <2>3, <3>1 DEF Unended
      <4> QED BY <1>1, <4>1, <4>2, EmptyRecords, StreamAssumption
    <3>2. CASE ~m.final
      <4>1. conn' = [conn EXCEPT ![c].queue = Tail(@)] /\ channel' = channel
        BY <1>5, <2>1, <3>2 DEF Replay
      <4>2. conn'[c] = [conn[c] EXCEPT !.queue = Tail(conn[c].queue)]
        BY <1>1, <4>1
      <4>3. conn'[c] \in Connection
        <5>1. conn[c] \in Connection
          BY <1>1
        <5>2. [conn[c] EXCEPT !.queue = Tail(conn[c].queue)] \in Connection
          BY <2>3, <5>1, OpenedConnection
        <5> QED BY <4>2, <5>2
      <4>4. conn' \in [Pages -> Connection] /\ \A d \in Pages : d # c => conn'[d] = conn[d]
        BY <1>1, <4>1, <4>3
      <4>5. conn'[c].queue = Tail(conn[c].queue) /\ conn'[c].snap = conn[c].snap
        BY <1>1, <4>2 DEF Connection
      <4>6. ~unsaved /\ state # "FINAL" => Unended(c)'
        BY <1>2, <2>3, <4>1, <4>5 DEF Unended
      <4> QED BY <1>1, <3>2, <4>1, <4>4, <4>6
    <3> QED BY <3>1, <3>2
  <2> QED BY <1>0, <1>1, <2>2, <2>3, <2>4, <2>5, DeliveredKeeps
<1>6. CASE Live(c)
  <2>0. PICK e : e = Head(channel[c])
    OBVIOUS
  <2>1. PICK m : m = Progress(e)
    OBVIOUS
  <2>2. /\ channel[c] \in Seq(Event) /\ channel[c] # <<>> /\ Subscribed(c) /\ Deliver(c, m)
    BY <1>0, <1>6, <2>0, <2>1, PageTypes DEF Live
  <2>3. /\ e \in Event /\ e = channel[c][1] /\ 1 \in DOMAIN channel[c]
        /\ Tail(channel[c]) \in Seq(Event) /\ Len(Tail(channel[c])) = Len(channel[c]) - 1
        /\ Len(channel[c]) \in Nat
        /\ \A i \in DOMAIN Tail(channel[c]) :
              Tail(channel[c])[i] = channel[c][i + 1] /\ i + 1 \in DOMAIN channel[c]
    BY <2>0, <2>2, HeadTail
  <2>4. m \in Message /\ m.final = e.final
    BY <2>1, <2>3, StreamAssumption DEF Progress, Event, Message
  <2>5. PageHolds(c)'
    BY <1>0, <1>6, LivePage DEF PageHolds
  <2>6. /\ conn' \in [Pages -> Connection] /\ channel' \in [Pages -> Seq(Event)]
        /\ Len(channel'[c]) <= ChannelMax
        /\ \A d \in Pages : d # c => conn'[d] = conn[d] /\ channel'[d] = channel[d]
        /\ ~unsaved /\ state # "FINAL" => Unended(c)' /\ ~e.final
    <3>1. CASE e.final
      <4>1. conn' = [conn EXCEPT ![c] = NoConn] /\ channel' = [channel EXCEPT ![c] = <<>>]
        BY <1>6, <2>0, <3>1 DEF Live, Ended
      <4>2. ~(~unsaved /\ state # "FINAL")
        BY <1>2, <2>3, <3>1 DEF Unended
      <4> QED BY <1>1, <4>1, <4>2, EmptyRecords, StreamAssumption
    <3>2. CASE ~e.final
      <4>1. channel' = [channel EXCEPT ![c] = Tail(channel[c])] /\ conn' = conn
        BY <1>1, <1>6, <2>0, <3>2 DEF Live
      <4>2. channel' \in [Pages -> Seq(Event)] /\ channel'[c] = Tail(channel[c])
            /\ \A d \in Pages : d # c => channel'[d] = channel[d]
        BY <1>1, <2>3, <4>1
      <4>3. Len(channel'[c]) <= ChannelMax
        BY <1>1, <2>3, <4>2, StreamAssumption
      <4>4. ~unsaved /\ state # "FINAL" => Unended(c)'
        BY <1>2, <2>3, <4>1, <4>2 DEF Unended
      <4> QED BY <1>1, <3>2, <4>1, <4>2, <4>3, <4>4
    <3> QED BY <3>1, <3>2
  <2>7. ~unsaved /\ state # "FINAL" => Unended(c)' /\ ~m.final
    BY <2>4, <2>6
  <2> QED BY <1>0, <1>1, <2>2, <2>4, <2>5, <2>6, <2>7, DeliveredKeeps
<1> QED BY <1>3, <1>4, <1>5, <1>6

(* The steps of a page and the breaks of its connection. *)
LEMMA BrowserKeeps ==
    ASSUME Streaming, NEW c \in Pages, Follow(c) \/ OnError(c) \/ Break(c) \/ Reload(c)
    PROVE  Streaming'
<1>0. /\ StreamTypeOK /\ EndsFollow /\ EndIsSaved
      /\ Attached(c) /\ Ordered(c) /\ (~told[c] /\ ~lossy[c] => Seamless(c))
  BY PagesHold DEF Streaming, StreamInv, PageHolds
<1>1. /\ conn \in [Pages -> Connection] /\ channel \in [Pages -> Seq(Event)]
      /\ page \in [Pages -> Page] /\ heard \in [Pages -> SUBSET (1..MaxEvents)]
      /\ told \in [Pages -> BOOLEAN] /\ lossy \in [Pages -> BOOLEAN]
      /\ Len(channel[c]) <= ChannelMax
  BY <1>0 DEF StreamTypeOK
<1>2. ~unsaved /\ state # "FINAL" => Unended(c)
  BY <1>0 DEF EndsFollow, Unended
<1>3. ASSUME UNCHANGED <<state, emitter, outbox, hub, channel, conn, heard, told, lossy, serving, asked, unsaved>>,
             NEW p \in Page, page' = [page EXCEPT ![c] = p], conn[c].at = "none",
             (p.lastId = page[c].lastId /\ p.at # "off") \/ (heard[c] = {}), p.at = "done" => state = "FINAL"
      PROVE  Streaming'
  <2>1. /\ page' \in [Pages -> Page] /\ page'[c] = p /\ \A d \in Pages : d # c => page'[d] = page[d]
        /\ next' = next /\ retained' = retained
    BY <1>1, <1>3 DEF hub
  <2>2. channel[c] = <<>> /\ conn[c].queue = <<>> /\ \A n \in heard[c] : n <= page[c].lastId /\ n <= next
    BY <1>0, <1>3 DEF Attached, Subscribed
  <2>3. PageHolds(c)'
    <3>1. Attached(c)'
      BY <1>3, <2>1, <2>2 DEF Attached, Subscribed
    <3>2. Ordered(c)'
      BY <1>0, <1>3, <2>1 DEF Ordered
    <3>3. Known(c)' = Known(c) /\ ~Subscribed(c)' /\ GapAhead(c)' = GapAhead(c)
      BY <1>3 DEF Known, Subscribed, GapAhead, EndQueued
    <3>4. ~told'[c] /\ ~lossy'[c] => Seamless(c)'
      BY <1>0, <1>3, <2>1, <3>3 DEF Seamless
    <3> QED BY <3>1, <3>2, <3>4 DEF PageHolds
  <2>4. ~unsaved /\ state # "FINAL" => Unended(c)'
    BY <1>2, <1>3 DEF Unended
  <2> QED BY <1>1, <1>3, <2>1, <2>3, <2>4, PageKeeps
<1>4. ASSUME UNCHANGED <<state, emitter, outbox, hub, serving, asked, unsaved>>, Ended(c),
             NEW p \in Page, page' = [page EXCEPT ![c] = p], p.at \in {"lost", "following"},
             heard' \in [Pages -> SUBSET (1..MaxEvents)],
             told' \in [Pages -> BOOLEAN], lossy' \in [Pages -> BOOLEAN],
             \A d \in Pages : d # c => heard'[d] = heard[d] /\ told'[d] = told[d] /\ lossy'[d] = lossy[d],
             \/ heard'[c] = {}
             \/ heard'[c] = heard[c] /\ p.lastId = page[c].lastId /\ told'[c] = told[c] /\ lossy'[c] = lossy[c]
      PROVE  Streaming'
  <2>1. /\ page' \in [Pages -> Page] /\ page'[c] = p /\ \A d \in Pages : d # c => page'[d] = page[d]
        /\ next' = next /\ retained' = retained
    BY <1>1, <1>4 DEF hub
  <2>2. conn' = [conn EXCEPT ![c] = NoConn] /\ channel' = [channel EXCEPT ![c] = <<>>]
    BY <1>4 DEF Ended
  <2>3. /\ conn' \in [Pages -> Connection] /\ channel' \in [Pages -> Seq(Event)]
        /\ conn'[c] = NoConn /\ channel'[c] = <<>>
        /\ \A d \in Pages : d # c => conn'[d] = conn[d] /\ channel'[d] = channel[d]
    BY <1>1, <2>2, EmptyRecords
  <2>4. Len(channel'[c]) <= ChannelMax
    BY <2>3, StreamAssumption
  <2>5. \A n \in heard'[c] : n <= page'[c].lastId /\ n <= next'
    BY <1>0, <1>4, <2>1 DEF Attached
  <2>6. ~told'[c] /\ ~lossy'[c] =>
           WithoutHole(heard'[c]) /\ (heard'[c] # {} => page'[c].lastId \in heard'[c])
    <3>1. CASE heard'[c] = {}
      BY <3>1 DEF WithoutHole
    <3>2. CASE heard'[c] = heard[c] /\ p.lastId = page[c].lastId /\ told'[c] = told[c] /\ lossy'[c] = lossy[c]
      BY <1>0, <2>1, <3>2 DEF Seamless
    <3> QED BY <1>4, <3>1, <3>2
  <2>7. PageHolds(c)'
    BY <1>4, <2>1, <2>3, <2>5, <2>6, ClosedPage DEF PageHolds
  <2>8. Unended(c)'
    BY <2>3 DEF Unended, NoConn
  <2>9. page'[c].at # "done"
    BY <1>4, <2>1
  <2> QED BY <1>4, <2>1, <2>3, <2>4, <2>7, <2>8, <2>9, PageKeeps
<1>5. CASE Follow(c)
  <2>1. page[c].at = "off" /\ page' = [page EXCEPT ![c] = Following] /\ Following.at = "following"
    BY <1>5 DEF Follow, Following
  <2>2. heard[c] = {} /\ conn[c].at = "none"
    BY <1>0, <1>1, <2>1 DEF Attached
  <2>3. UNCHANGED <<state, emitter, outbox, hub, channel, conn, heard, told, lossy, serving, asked, unsaved>>
    BY <1>5 DEF Follow
  <2> QED BY <1>3, <2>1, <2>2, <2>3, EmptyRecords
<1>6. CASE OnError(c)
  <2>1. PICK place \in {"done", "following"} :
           page' = [page EXCEPT ![c].at = place] /\ (place = "done" => state = "FINAL")
    BY <1>6 DEF OnError
  <2>2. PICK p : p = [page[c] EXCEPT !.at = place]
    OBVIOUS
  <2>3. p \in Page /\ p.at = place /\ p.lastId = page[c].lastId
    BY <1>1, <2>2 DEF Page
  <2>4. page' = [page EXCEPT ![c] = p]
    BY <2>1, <2>2
  <2>5. /\ UNCHANGED <<state, emitter, outbox, hub, channel, conn, heard, told, lossy, serving, asked, unsaved>>
        /\ page[c].at = "lost"
    BY <1>6 DEF OnError
  <2>6. conn[c].at = "none"
    BY <1>0, <2>5 DEF Attached
  <2> QED BY <1>3, <2>1, <2>3, <2>4, <2>5, <2>6
<1>7. CASE Break(c)
  <2>1. PICK p : p = [page[c] EXCEPT !.at = "lost"]
    OBVIOUS
  <2>2. p \in Page /\ p.at = "lost" /\ p.lastId = page[c].lastId
    BY <1>1, <2>1 DEF Page
  <2>3. /\ page' = [page EXCEPT ![c] = p] /\ Ended(c) /\ UNCHANGED <<heard, told, lossy>>
        /\ UNCHANGED <<state, emitter, outbox, hub, serving, asked, unsaved>>
    BY <1>7, <2>1 DEF Break
  <2> QED BY <1>1, <1>4, <2>2, <2>3
<1>8. CASE Reload(c)
  <2>1. /\ page' = [page EXCEPT ![c] = Following] /\ Ended(c) /\ heard' = [heard EXCEPT ![c] = {}]
        /\ told' = [told EXCEPT ![c] = FALSE] /\ lossy' = [lossy EXCEPT ![c] = FALSE]
        /\ UNCHANGED <<state, emitter, outbox, hub, serving, asked, unsaved>>
    BY <1>8 DEF Reload
  <2>2. Following \in Page /\ Following.at = "following"
    BY EmptyRecords DEF Following
  <2>3. /\ heard' \in [Pages -> SUBSET (1..MaxEvents)] /\ heard'[c] = {}
        /\ \A d \in Pages : d # c => heard'[d] = heard[d]
    BY <1>1, <2>1
  <2>4. /\ told' \in [Pages -> BOOLEAN] /\ lossy' \in [Pages -> BOOLEAN]
        /\ \A d \in Pages : d # c => told'[d] = told[d] /\ lossy'[d] = lossy[d]
    BY <1>1, <2>1
  <2> QED BY <1>4, <2>1, <2>2, <2>3, <2>4
<1> QED BY <1>5, <1>6, <1>7, <1>8

(* With the server its numbers, channels and connections are gone. *)
LEMMA ServerEndsKeeps ==
    ASSUME Streaming, ServerEnds
    PROVE  Streaming'
<1>0. StreamTypeOK /\ EndsFollow /\ EndIsSaved
  BY DEF Streaming, StreamInv
<1>1. /\ serving' = FALSE /\ emitter' = "none" /\ outbox' = "none" /\ next' = 0 /\ retained' = <<>>
      /\ channel' = [c \in Pages |-> <<>>] /\ conn' = [c \in Pages |-> NoConn]
      /\ page' = [c \in Pages |-> IF page[c].at = "following"
                                  THEN [page[c] EXCEPT !.at = "lost"] ELSE page[c]]
      /\ heard' = [c \in Pages |-> {}] /\ told' = [c \in Pages |-> FALSE] /\ lossy' = told'
      /\ UNCHANGED <<state, asked, unsaved>>
  BY DEF ServerEnds
<1>2. ASSUME NEW c \in Pages
      PROVE  page'[c] \in Page /\ (page'[c].at = "done" => page[c].at = "done")
  <2>1. page[c] \in Page
    BY <1>0 DEF StreamTypeOK
  <2>2. page'[c] = IF page[c].at = "following" THEN [page[c] EXCEPT !.at = "lost"] ELSE page[c]
    BY <1>1
  <2> QED BY <2>1, <2>2 DEF Page
<1>3. StreamTypeOK'
  <2>1. /\ channel' \in [Pages -> Seq(Event)] /\ conn' \in [Pages -> Connection]
        /\ page' \in [Pages -> Page]
    BY <1>1, <1>2, EmptyRecords
  <2>2. /\ heard' \in [Pages -> SUBSET (1..MaxEvents)] /\ told' \in [Pages -> BOOLEAN]
        /\ lossy' \in [Pages -> BOOLEAN]
    BY <1>1
  <2>3. /\ next' \in 0..MaxEvents /\ retained' \in Seq(Event) /\ Len(retained') = 0
        /\ DOMAIN retained' = {} /\ \A c \in Pages : Len(channel'[c]) = 0
    BY <1>1, StreamAssumption
  <2>4. {serving', asked', unsaved'} \subseteq BOOLEAN /\ state' \in {"RUNNING", "WAITING", "FINAL"}
    BY <1>0, <1>1 DEF StreamTypeOK
  <2>5. Len(retained') <= HistoryMax /\ Len(retained') <= next' /\ \A c \in Pages : Len(channel'[c]) <= ChannelMax
    BY <1>1, <2>3, StreamAssumption
  <2> QED BY <1>1, <2>1, <2>2, <2>3, <2>4, <2>5 DEF StreamTypeOK
<1>4. ASSUME NEW c \in Pages PROVE PageHolds(c)'
  <2>1. conn'[c] = NoConn /\ channel'[c] = <<>> /\ heard'[c] = {}
    BY <1>1
  <2> QED BY <2>1, ClosedPage DEF PageHolds, WithoutHole
<1>5. EndsFollow'
  <2>1. \A c \in Pages : ~conn'[c].snap /\ conn'[c].queue = <<>> /\ channel'[c] = <<>>
    BY <1>1 DEF NoConn
  <2> QED BY <1>1, <2>1 DEF EndsFollow
<1>6. EndIsSaved'
  BY <1>0, <1>1, <1>2 DEF EndIsSaved
<1>7. (StreamOrder /\ NoSilentGap)'
  BY <1>4 DEF StreamOrder, NoSilentGap, PageHolds
<1> QED BY <1>3, <1>5, <1>6, <1>7 DEF Streaming, StreamInv

(* The invariant holds initially. *)
LEMMA StreamingInit == StreamInit => Streaming
<1> SUFFICES ASSUME StreamInit PROVE Streaming
  OBVIOUS
<1>1. StreamTypeOK
  <2>1. /\ channel \in [Pages -> Seq(Event)] /\ conn \in [Pages -> Connection] /\ page \in [Pages -> Page]
    BY EmptyRecords DEF StreamInit
  <2>2. /\ heard \in [Pages -> SUBSET (1..MaxEvents)] /\ told \in [Pages -> BOOLEAN]
        /\ lossy \in [Pages -> BOOLEAN]
    BY DEF StreamInit
  <2>3. /\ next \in 0..MaxEvents /\ retained \in Seq(Event) /\ Len(retained) = 0
        /\ DOMAIN retained = {} /\ \A c \in Pages : Len(channel[c]) = 0
    BY StreamAssumption DEF StreamInit
  <2>4. Len(retained) <= HistoryMax /\ Len(retained) <= next /\ \A c \in Pages : Len(channel[c]) <= ChannelMax
    BY <2>3, StreamAssumption DEF StreamInit
  <2> QED BY <2>1, <2>2, <2>3, <2>4 DEF StreamInit, StreamTypeOK
<1>2. ASSUME NEW c \in Pages PROVE PageHolds(c)
  <2>1. /\ conn[c].at = "none" /\ conn[c].queue = <<>> /\ channel[c] = <<>> /\ heard[c] = {}
    BY DEF StreamInit, NoConn
  <2>2. DOMAIN conn[c].queue = {} /\ DOMAIN channel[c] = {}
    BY <2>1
  <2>3. Attached(c)
    BY <2>1 DEF Attached, Subscribed
  <2>4. Ordered(c)
    BY <2>2 DEF Ordered
  <2>5. Numbered(conn[c].queue) = {} /\ Numbered(channel[c]) = {}
    BY <2>2 DEF Numbered
  <2>6. Known(c) = {} /\ ~Subscribed(c)
    BY <2>1, <2>5 DEF Known, Subscribed
  <2>7. Seamless(c)
    BY <2>1, <2>6 DEF Seamless, WithoutHole
  <2> QED BY <2>3, <2>4, <2>7 DEF PageHolds
<1>3. EndsFollow
  <2>1. \A c \in Pages : ~conn[c].snap /\ conn[c].queue = <<>> /\ channel[c] = <<>>
    BY DEF StreamInit, NoConn
  <2> QED BY <2>1 DEF StreamInit, EndsFollow
<1>4. EndIsSaved
  BY DEF StreamInit, EndIsSaved, NoPage
<1> QED BY <1>1, <1>2, <1>3, <1>4, PagesHold DEF Streaming, StreamInv

(* Every step preserves it. *)
LEMMA StreamingStep == Streaming /\ [StreamNext]_streamVars => Streaming'
<1> SUFFICES ASSUME Streaming, [StreamNext]_streamVars PROVE Streaming'
  OBVIOUS
<1>1. CASE StreamNext
  BY <1>1, TaskStepKeeps, ConnectionKeeps, BrowserKeeps, ServerEndsKeeps DEF StreamNext, PageStep
<1>2. CASE UNCHANGED streamVars
  <2>0. StreamTypeOK /\ EndsFollow
    BY DEF Streaming, StreamInv
  <2>1. /\ UNCHANGED <<next, retained, channel, conn, page, heard, told, lossy>>
        /\ UNCHANGED <<state, emitter, outbox, serving, asked, unsaved>>
    BY <1>2 DEF streamVars, hub, streams
  <2>2. /\ state' \in {"RUNNING", "WAITING", "FINAL"}
        /\ emitter' \in {"run", "resume", "recover", "none"}
        /\ outbox' \in {"none", "WAITING", "FINAL"} /\ (outbox' # "none" => next < MaxEvents)
        /\ {serving', asked', unsaved'} \subseteq BOOLEAN
    BY <2>0, <2>1 DEF StreamTypeOK
  <2>3. /\ emitter' \in {"run", "resume"} /\ outbox' = "none" => state' = "RUNNING"
        /\ emitter' = "recover" => state' = "RUNNING" /\ outbox' = "none"
        /\ outbox' # "none" => emitter' \in {"run", "resume"}
        /\ ~serving' => emitter' = "none"
        /\ ~unsaved' /\ outbox' # "none" => state' = outbox'
    BY <2>0, <2>1 DEF EndsFollow
  <2> QED BY <2>1, <2>2, <2>3, QuietKeeps
<1> QED BY <1>1, <1>2

(***************************************************************************)
(* For any pages, any length of the history and of the channels, and any   *)
(* breaks and restarts: what the hub's subscribers receive is in order,    *)
(* without repetition, and without a hole they were not told of.           *)
(***************************************************************************)
THEOREM StreamInvHolds == StreamSpec => []StreamInv
<1>1. Streaming => StreamInv
  BY DEF Streaming
<1> QED BY <1>1, StreamingInit, StreamingStep, PTL DEF StreamSpec

(***************************************************************************)
(* A page stops following only when the task file holds an end, however    *)
(* the last events, snapshots and reads reached it, unless the save of     *)
(* that end had failed.                                                    *)
(***************************************************************************)
THEOREM EndIsSavedAlways == StreamSpec => []EndIsSaved
<1>1. Streaming => EndIsSaved
  BY DEF Streaming
<1> QED BY <1>1, StreamingInit, StreamingStep, PTL DEF StreamSpec

-----------------------------------------------------------------------------
(* Admission. *)

(* The two safety properties, quantified over tasks instead of counting them. *)
Exclusive ==
    ~overtaken =>
        /\ \A t, u \in Tasks : Unfinished(t) /\ Unfinished(u) /\ task[t].of = task[u].of => t = u
        /\ \A t \in Tasks : Unfinished(t) => ~session[task[t].of].archived

AdmissionSafe == AdmissionInv /\ Exclusive /\ AllOrNothing

(* What the types say of the fields. *)
FieldTypes ==
    /\ \A s \in Sessions : /\ session[s] \in Session /\ session[s].messages \subseteq Tasks
                           /\ session[s].there \in BOOLEAN /\ session[s].archived \in BOOLEAN
    /\ \A t \in Tasks :
          /\ task[t] \in TaskFile /\ task[t].of \in Sessions
          /\ task[t].state \in {"NONE", "ACTIVE", "WAITING", "DONE"}
          /\ journal[t] \in Journal /\ journal[t].of \in Sessions /\ journal[t].copy \in Session
          /\ journal[t].there \in BOOLEAN /\ journal[t].copy.messages \subseteq Tasks
          /\ approval[t] \in Approval /\ approval[t].n \in 0..MaxApprovals
          /\ job[t] \in {"off", "run", "end", "release"}
    /\ op.stage \in Stages /\ op.task \in 0..MaxDrawn /\ op.of \in Sessions
    /\ \A h \in Threads : /\ answer[h] \in Answer /\ answer[h].task \in 0..MaxDrawn
                          /\ answer[h].n \in 0..MaxApprovals

(* The types give the types of the fields. *)
LEMMA AdmissionFields == ASSUME AdmissionTypeOK PROVE FieldTypes
  <1>1. \A s \in Sessions : /\ session[s] \in Session /\ session[s].messages \subseteq Tasks
                           /\ session[s].there \in BOOLEAN /\ session[s].archived \in BOOLEAN
    BY DEF AdmissionTypeOK, Session
  <1>2. \A t \in Tasks :
          /\ task[t] \in TaskFile /\ task[t].of \in Sessions
          /\ task[t].state \in {"NONE", "ACTIVE", "WAITING", "DONE"}
    BY DEF AdmissionTypeOK, TaskFile
  <1>3. \A t \in Tasks :
          /\ journal[t] \in Journal /\ journal[t].of \in Sessions /\ journal[t].copy \in Session
          /\ journal[t].there \in BOOLEAN /\ journal[t].copy.messages \subseteq Tasks
    BY DEF AdmissionTypeOK, Journal, Session
  <1>4. \A t \in Tasks :
          /\ approval[t] \in Approval /\ approval[t].n \in 0..MaxApprovals
          /\ job[t] \in {"off", "run", "end", "release"}
    BY DEF AdmissionTypeOK, Approval
  <1>5. op.stage \in Stages /\ op.task \in 0..MaxDrawn /\ op.of \in Sessions
    BY DEF AdmissionTypeOK, Operation
  <1>6. \A h \in Threads : /\ answer[h] \in Answer /\ answer[h].task \in 0..MaxDrawn
                          /\ answer[h].n \in 0..MaxApprovals
    BY DEF AdmissionTypeOK, Answer
  <1> QED
    BY <1>1, <1>2, <1>3, <1>4, <1>5, <1>6 DEF FieldTypes

(* What a change of one record leaves of its variable: the type, and the other fields. *)
LEMMA TaskStateChanged ==
    ASSUME AdmissionTypeOK, NEW t \in Tasks, NEW v \in {"NONE", "ACTIVE", "WAITING", "DONE"},
           task' = [task EXCEPT ![t].state = v]
    PROVE  /\ task' \in [Tasks -> TaskFile]
           /\ \A u \in Tasks : /\ task'[u].of = task[u].of
                               /\ u # t => task'[u].state = task[u].state
           /\ task'[t].state = v
  <1>1. task' \in [Tasks -> TaskFile]
    BY DEF AdmissionTypeOK, TaskFile
  <1>2. \A u \in Tasks : /\ task'[u].of = task[u].of
                         /\ u # t => task'[u].state = task[u].state
    BY DEF AdmissionTypeOK, TaskFile
  <1>3. task'[t].state = v
    BY DEF AdmissionTypeOK, TaskFile
  <1> QED
    BY <1>1, <1>2, <1>3

(* A new task file. *)
LEMMA TaskFileWritten ==
    ASSUME AdmissionTypeOK, NEW t \in Tasks, NEW s \in Sessions,
           task' = [task EXCEPT ![t] = [state |-> "ACTIVE", of |-> s]]
    PROVE  /\ task' \in [Tasks -> TaskFile]
           /\ \A u \in Tasks : u # t => task'[u] = task[u]
           /\ task'[t].state = "ACTIVE" /\ task'[t].of = s
    BY DEF AdmissionTypeOK, TaskFile

(* A new status of an approval. *)
LEMMA ApprovalStatusChanged ==
    ASSUME AdmissionTypeOK, NEW t \in Tasks,
           NEW v \in {"NONE", "PENDING", "APPROVED", "REJECTED", "EXPIRED", "CONSUMED"},
           approval' = [approval EXCEPT ![t].status = v]
    PROVE  /\ approval' \in [Tasks -> Approval]
           /\ \A u \in Tasks : /\ approval'[u].n = approval[u].n
                               /\ u # t => approval'[u] = approval[u]
           /\ approval'[t].status = v
    BY DEF AdmissionTypeOK, Approval

(* A new approval. *)
LEMMA ApprovalAsked ==
    ASSUME AdmissionTypeOK, NEW t \in Tasks, approval[t].n < MaxApprovals,
           approval' = [approval EXCEPT ![t] = [n |-> @.n + 1, status |-> "PENDING"]]
    PROVE  /\ approval' \in [Tasks -> Approval]
           /\ \A u \in Tasks : u # t => approval'[u] = approval[u]
           /\ approval'[t].n = approval[t].n + 1
  <1>1. PICK m \in 0..MaxApprovals : m = approval[t].n + 1
    BY AdmissionAssumption, AdmissionFields DEF FieldTypes
  <1>2. approval' = [approval EXCEPT ![t] = [n |-> m, status |-> "PENDING"]]
    BY <1>1
  <1> QED
    BY <1>1, <1>2 DEF AdmissionTypeOK, Approval

(* A new place of a thread. *)
LEMMA AnswerMoved ==
    ASSUME AdmissionTypeOK, NEW h \in Threads,
           NEW p \in {"off", "resolve", "resume", "cancel", "start", "execute", "refused"},
           answer' = [answer EXCEPT ![h].at = p]
    PROVE  /\ answer' \in [Threads -> Answer]
           /\ \A k \in Threads : /\ answer'[k].task = answer[k].task /\ answer'[k].n = answer[k].n
                                 /\ k # h => answer'[k] = answer[k]
           /\ answer'[h].at = p
    BY DEF AdmissionTypeOK, Answer

(* A new record of a thread. *)
LEMMA AnswerSet ==
    ASSUME AdmissionTypeOK, NEW h \in Threads, NEW a \in Answer, answer' = [answer EXCEPT ![h] = a]
    PROVE  /\ answer' \in [Threads -> Answer]
           /\ \A k \in Threads : k # h => answer'[k] = answer[k]
           /\ answer'[h] = a
    BY DEF AdmissionTypeOK

(* The record of a thread that resolves nothing. *)
LEMMA AnswerGone == NoAnswer \in Answer /\ NoAnswer.at = "off"
    BY AdmissionAssumption DEF NoAnswer, Answer

(* A claim of the task turns those in the middle of it to refused. *)
LEMMA AnswersFenced ==
    ASSUME AdmissionTypeOK, NEW t \in Tasks, Fences(t)
    PROVE  /\ answer' \in [Threads -> Answer]
           /\ \A h \in Threads :
                 /\ answer'[h].task = answer[h].task /\ answer'[h].n = answer[h].n
                 /\ \/ answer'[h].at = "refused" /\ answer[h].at \in {"cancel", "start", "execute"}
                       /\ answer[h].task = t
                    \/ /\ answer'[h] = answer[h]
                       /\ answer[h].at \in {"cancel", "start", "execute"} => answer[h].task # t
  <1>1. ASSUME NEW h \in Threads
        PROVE  /\ answer'[h] \in Answer
               /\ answer'[h].task = answer[h].task /\ answer'[h].n = answer[h].n
               /\ \/ answer'[h].at = "refused" /\ answer[h].at \in {"cancel", "start", "execute"}
                     /\ answer[h].task = t
                  \/ /\ answer'[h] = answer[h]
                     /\ answer[h].at \in {"cancel", "start", "execute"} => answer[h].task # t
    <2>1. answer[h] \in Answer
      BY DEF AdmissionTypeOK
    <2>2. CASE answer[h].task = t /\ answer[h].at \in {"cancel", "start", "execute"}
      <3>1. answer'[h] = [answer[h] EXCEPT !.at = "refused"]
        BY <2>2 DEF Fences
      <3> QED
        BY <2>1, <2>2, <3>1 DEF Answer
    <2>3. CASE ~(answer[h].task = t /\ answer[h].at \in {"cancel", "start", "execute"})
      <3>1. answer'[h] = answer[h]
        BY <2>3 DEF Fences
      <3> QED
        BY <2>1, <2>3, <3>1
    <2> QED
      BY <2>2, <2>3
  <1>2. answer' \in [Threads -> Answer]
    BY <1>1 DEF Fences
  <1> QED
    BY <1>1, <1>2

(* Records of two sessions that differ in one message. *)
LEMMA CopyFields ==
    ASSUME NEW q \in Session, NEW r \in Session, NEW t \in Tasks
    PROVE  (q = [r EXCEPT !.messages = @ \cup {t}])
             <=> /\ q.there = r.there /\ q.archived = r.archived
                 /\ q.messages = r.messages \cup {t}
    BY DEF Session

(* The copy in a journal is a session. *)
LEMMA CopyType ==
    ASSUME NEW r \in Session, NEW t \in Tasks
    PROVE  [r EXCEPT !.messages = @ \cup {t}] \in Session
    BY DEF Session

(* The sets that are counted are finite. *)
LEMMA TasksFinite ==
    /\ IsFiniteSet(Tasks)
    /\ \A S \in SUBSET Tasks : IsFiniteSet(S) /\ Cardinality(S) \in Nat
  <1>1. MaxDrawn \in Int
    BY AdmissionAssumption
  <1>2. IsFiniteSet(Tasks)
    BY <1>1, FS_Interval DEF Tasks
  <1> QED
    BY <1>2, FS_Subset, FS_CardinalityType

(* So are the resolvers that hold a slot. *)
LEMMA ResolversFinite ==
    \A S \in SUBSET Resolvers : IsFiniteSet(S) /\ Cardinality(S) \in Nat
    BY AdmissionAssumption, FS_Subset, FS_CardinalityType

(* The parts of the invariant, and the types of the fields. *)
LEMMA AdmissionParts ==
    ASSUME AdmissionSafe
    PROVE  /\ AdmissionTypeOK /\ FieldTypes /\ SlotsHeld /\ MarksHeld /\ Retention
           /\ IdsFresh /\ StageReached /\ JournalsValid /\ PhaseReached /\ AnswersFit
           /\ Exclusive /\ AllOrNothing
    BY AdmissionFields DEF AdmissionSafe, AdmissionInv

-----------------------------------------------------------------------------
(* A step that only moves one task on: by a run, the recovery or a resumer. *)
TaskMoves(t) ==
    /\ task' \in [Tasks -> TaskFile] /\ approval' \in [Tasks -> Approval]
    /\ \A u \in Tasks : /\ task'[u].of = task[u].of
                        /\ u # t => task'[u].state = task[u].state /\ approval'[u].n = approval[u].n
    /\ Exists(t) /\ task'[t].state # "NONE"
    /\ overtaken' \in BOOLEAN
    /\ ~overtaken' => ~overtaken /\ Unfinished(t) /\ ~journal[t].there
    /\ session' = session /\ journal' = journal /\ op' = op /\ drawn' = drawn
    /\ running' = running /\ phase' = phase /\ giveUps' = giveUps
    /\ \A u \in Tasks : job'[u] = job[u] \/ (job[u] = "run" /\ job'[u] = "end")

(* Such a step keeps what the invariant says of files, marks and the preparation. *)
LEMMA TaskMovesKeeps ==
    ASSUME AdmissionSafe, NEW t \in Tasks, TaskMoves(t)
    PROVE  /\ MarksHeld' /\ Retention' /\ IdsFresh' /\ StageReached' /\ JournalsValid'
           /\ Exclusive' /\ AllOrNothing' /\ Jobs' = Jobs
  <1>1. /\ AdmissionTypeOK /\ FieldTypes /\ MarksHeld /\ Retention /\ IdsFresh
        /\ StageReached /\ JournalsValid /\ Exclusive /\ AllOrNothing
    BY AdmissionParts
  <1>2. \A u \in Tasks : Exists(u)' <=> Exists(u)
    BY DEF TaskMoves, Exists
  <1>3. ~overtaken' => \A u \in Tasks : Unfinished(u)' => Unfinished(u)
    BY DEF TaskMoves, Unfinished
  <1>4. MarksHeld'
    <2>1. Marks' = Marks
      BY DEF TaskMoves, Marks
    <2> QED
      BY <1>1, <2>1 DEF TaskMoves, MarksHeld, Marks, Preparing
  <1>5. Retention'
    <2>1. Retained' = Retained /\ Abandoned' = Abandoned
      BY <1>2 DEF TaskMoves, Retained, Abandoned, Preparing
    <2> QED
      BY <1>1, <2>1 DEF TaskMoves, Retention
  <1>6. IdsFresh'
    <2>1. \A u \in Tasks : Unused(u)' <=> Unused(u)
      BY DEF TaskMoves, Unused
    <2>2. \A u \in Tasks : Unused(u) => u # t /\ job[u] = "off"
      BY <1>1 DEF TaskMoves, IdsFresh
    <2> QED
      BY <1>1, <1>2, <2>1, <2>2 DEF TaskMoves, IdsFresh
  <1>7. StageReached'
    <2>1. ~overtaken' /\ UnfinishedOf(op.of) = {} => UnfinishedOf(op.of)' = {}
      BY <1>3 DEF TaskMoves, UnfinishedOf
    <2>2. op.task \in Tasks =>
             /\ Exists(op.task) => Exists(op.task)'
             /\ task'[op.task].of = task[op.task].of
             /\ job[op.task] = "off" => job'[op.task] = "off"
      BY DEF TaskMoves, Exists
    <2>3. /\ session' = session /\ journal' = journal /\ op' = op /\ drawn' = drawn
          /\ phase' = phase
          /\ ~overtaken' => ~overtaken
      BY DEF TaskMoves
    <2> QED
      BY <1>1, <2>1, <2>2, <2>3 DEF StageReached, Preparing, Writing, Recovering, Idle
  <1>8. JournalsValid'
    <2> SUFFICES ASSUME NEW u \in Tasks, journal[u].there
                 PROVE  /\ job'[u] = "off" /\ u \in journal[u].copy.messages
                        /\ journal[u].copy.there /\ ~journal[u].copy.archived
                        /\ Exists(u)' => task'[u].of = journal[u].of
                        /\ ~overtaken' => JournalApplies(u)'
      BY DEF TaskMoves, JournalsValid
    <2>1. /\ job'[u] = "off" /\ u \in journal[u].copy.messages
          /\ journal[u].copy.there /\ ~journal[u].copy.archived
          /\ Exists(u)' => task'[u].of = journal[u].of
      BY <1>1, <1>2 DEF TaskMoves, JournalsValid
    <2>2. ASSUME ~overtaken' PROVE JournalApplies(u)'
      <3>1. JournalApplies(u) /\ u # t
        BY <1>1, <2>2 DEF TaskMoves, JournalsValid
      <3>2. UnfinishedOf(journal[u].of)' \subseteq UnfinishedOf(journal[u].of)
        BY <1>3, <2>2 DEF TaskMoves, UnfinishedOf
      <3> QED
        BY <3>1, <3>2 DEF TaskMoves, JournalApplies
    <2> QED
      BY <2>1, <2>2
  <1>9. Exclusive'
    BY <1>1, <1>3 DEF TaskMoves, Exclusive
  <1>10. AllOrNothing'
    BY <1>1, <1>2 DEF TaskMoves, AllOrNothing
  <1>11. Jobs' = Jobs
    BY DEF TaskMoves, Jobs
  <1> QED
    BY <1>4, <1>5, <1>6, <1>7, <1>8, <1>9, <1>10, <1>11

(* A slot is given back by a resolver that ends, and by nobody else. *)
LEMMA ReturnSlot ==
    ASSUME AdmissionSafe, NEW h \in Threads, answer[h].at # "off", Return(h),
           Jobs' = Jobs, op' = op
    PROVE  /\ SlotsHeld' /\ slots' \in 0..MaxConcurrentTasks
           /\ answer' \in [Threads -> Answer] /\ answer'[h].at = "off"
           /\ \A k \in Threads : k # h => answer'[k] = answer[k]
  <1>1. AdmissionTypeOK /\ SlotsHeld
    BY AdmissionParts
  <1>2. /\ answer' \in [Threads -> Answer] /\ answer'[h].at = "off"
        /\ \A k \in Threads : k # h => answer'[k] = answer[k]
    BY <1>1, AnswerSet, AnswerGone DEF Return
  <1>3. Preparing' <=> Preparing
    BY DEF Preparing
  <1>4. /\ Jobs \in SUBSET Tasks /\ Resolving \in SUBSET Resolvers
        /\ Cardinality(Jobs) \in Nat /\ Cardinality(Resolving) \in Nat /\ IsFiniteSet(Resolving)
    BY TasksFinite, ResolversFinite DEF Jobs, Resolving
  <1>5. slots \in 0..MaxConcurrentTasks /\ MaxConcurrentTasks \in Nat
    BY <1>1, AdmissionAssumption DEF AdmissionTypeOK
  <1>6. CASE h = "boot"
    <2>1. Resolving' = Resolving
      BY <1>2, <1>6, AdmissionAssumption DEF Resolving, Threads
    <2>2. slots' = slots
      BY <1>6 DEF Return
    <2> QED
      BY <1>1, <1>2, <1>3, <1>5, <2>1, <2>2 DEF SlotsHeld
  <1>7. CASE h # "boot"
    <2>1. h \in Resolving /\ Resolving' = Resolving \ {h}
      BY <1>2, <1>7 DEF Resolving, Threads
    <2>2. Cardinality(Resolving') = Cardinality(Resolving) - 1
      BY <1>4, <2>1, FS_RemoveElement
    <2>3. slots' = slots - 1
      BY <1>7 DEF Return
    <2>4. Cardinality(Resolving') \in Nat
      BY <1>4, <2>1, FS_RemoveElement, FS_CardinalityType
    <2>5. SlotsHeld'
      BY <1>1, <1>3, <1>4, <2>2, <2>3 DEF SlotsHeld
    <2>6. slots' \in 0..MaxConcurrentTasks
      BY <1>1, <1>4, <1>5, <2>2, <2>3, <2>4 DEF SlotsHeld
    <2> QED
      BY <1>2, <2>5, <2>6
  <1> QED
    BY <1>6, <1>7

(* The same threads and the same preparation hold the same slots. *)
LEMMA SameSlots ==
    ASSUME SlotsHeld, Jobs' = Jobs, Resolving' = Resolving, Preparing' <=> Preparing,
           slots' = slots
    PROVE  SlotsHeld'
    BY DEF SlotsHeld

(* Cancel: a resumer that read WAITING ends the task, unless another has gone on with it. *)
LEMMA CancelKeeps ==
    ASSUME AdmissionSafe, NEW h \in Threads, Cancel(h)
    PROVE  AdmissionSafe'
  <1>1. /\ AdmissionTypeOK /\ FieldTypes /\ JournalsValid /\ PhaseReached /\ AnswersFit
    BY AdmissionParts
  <1>2. PICK t \in Tasks : t = answer[h].task
    BY <1>1 DEF Cancel, AnswersFit
  <1>3. /\ answer[h].at = "cancel" /\ task' = [task EXCEPT ![t].state = "DONE"]
        /\ overtaken' = (overtaken \/ task[t].state # "WAITING" \/ approval[t].n # answer[h].n)
        /\ Return(h)
        /\ UNCHANGED <<session, journal, approval, op, running, job, phase, todo, listing,
                       drawn, acked, giveUps, restarts>>
    BY <1>2 DEF Cancel, SaveResumed, Boot
  <1>4. Exists(t) /\ answer[h].n > 0 /\ answer[h].n <= approval[t].n
    BY <1>1, <1>2, <1>3 DEF AnswersFit, FieldTypes
  <1>5. /\ task' \in [Tasks -> TaskFile]
        /\ \A u \in Tasks : /\ task'[u].of = task[u].of
                            /\ u # t => task'[u].state = task[u].state
        /\ task'[t].state = "DONE"
    BY <1>1, <1>3, TaskStateChanged
  <1>6. TaskMoves(t)
    <2>1. ~overtaken' => ~overtaken /\ task[t].state = "WAITING"
      BY <1>3
    <2>2. ~overtaken' => Unfinished(t) /\ ~journal[t].there
      BY <1>1, <2>1 DEF Unfinished, JournalsValid, JournalApplies
    <2> QED
      BY <1>1, <1>3, <1>4, <1>5, <2>1, <2>2 DEF TaskMoves, AdmissionTypeOK
  <1>7. /\ MarksHeld' /\ Retention' /\ IdsFresh' /\ StageReached' /\ JournalsValid'
        /\ Exclusive' /\ AllOrNothing' /\ Jobs' = Jobs
    BY <1>6, TaskMovesKeeps
  <1>8. /\ SlotsHeld' /\ slots' \in 0..MaxConcurrentTasks
        /\ answer' \in [Threads -> Answer] /\ answer'[h].at = "off"
        /\ \A k \in Threads : k # h => answer'[k] = answer[k]
    BY <1>3, <1>7, ReturnSlot
  <1>9. AdmissionTypeOK'
    BY <1>1, <1>3, <1>5, <1>8 DEF AdmissionTypeOK
  <1>10. PhaseReached'
    BY <1>1, <1>3, <1>5, <1>8, AdmissionAssumption DEF PhaseReached, Threads, Idle, ToResume
  <1>11. AnswersFit'
    <2>1. \A u \in Tasks : Exists(u)' <=> Exists(u)
      BY <1>4, <1>5 DEF Exists
    <2>2. ~overtaken' => ~overtaken /\ task[t].state = "WAITING"
      BY <1>3
    <2> QED
      BY <1>1, <1>3, <1>5, <1>8, <2>1, <2>2 DEF AnswersFit
  <1> QED
    BY <1>7, <1>8, <1>9, <1>10, <1>11 DEF AdmissionSafe, AdmissionInv

(* Start: the resumer makes the task active again and goes on to execute. *)
LEMMA StartKeeps ==
    ASSUME AdmissionSafe, NEW h \in Threads, Start(h)
    PROVE  AdmissionSafe'
  <1>1. /\ AdmissionTypeOK /\ FieldTypes /\ SlotsHeld /\ JournalsValid /\ PhaseReached
        /\ AnswersFit
    BY AdmissionParts
  <1>2. PICK t \in Tasks : t = answer[h].task
    BY <1>1 DEF Start, AnswersFit
  <1>3. /\ answer[h].at = "start" /\ task' = [task EXCEPT ![t].state = "ACTIVE"]
        /\ overtaken' = (overtaken \/ task[t].state # "WAITING" \/ approval[t].n # answer[h].n)
        /\ answer' = [answer EXCEPT ![h].at = "execute"]
        /\ UNCHANGED <<session, journal, approval, op, running, slots, job, phase, todo, listing,
                       drawn, acked, giveUps, restarts>>
    BY <1>2 DEF Start, SaveResumed, At, Boot
  <1>4. Exists(t) /\ answer[h].n > 0 /\ answer[h].n <= approval[t].n
    BY <1>1, <1>2, <1>3 DEF AnswersFit, FieldTypes
  <1>5. /\ task' \in [Tasks -> TaskFile]
        /\ \A u \in Tasks : /\ task'[u].of = task[u].of
                            /\ u # t => task'[u].state = task[u].state
        /\ task'[t].state = "ACTIVE"
    BY <1>1, <1>3, TaskStateChanged
  <1>6. ~overtaken' => ~overtaken /\ task[t].state = "WAITING" /\ approval[t].n = answer[h].n
    BY <1>3
  <1>7. TaskMoves(t)
    <2>1. ~overtaken' => Unfinished(t) /\ ~journal[t].there
      BY <1>1, <1>6 DEF Unfinished, JournalsValid, JournalApplies
    <2> QED
      BY <1>1, <1>3, <1>4, <1>5, <1>6, <2>1 DEF TaskMoves, AdmissionTypeOK
  <1>8. /\ MarksHeld' /\ Retention' /\ IdsFresh' /\ StageReached' /\ JournalsValid'
        /\ Exclusive' /\ AllOrNothing' /\ Jobs' = Jobs
    BY <1>7, TaskMovesKeeps
  <1>9. /\ answer' \in [Threads -> Answer] /\ answer'[h].at = "execute"
        /\ \A k \in Threads : /\ answer'[k].task = answer[k].task /\ answer'[k].n = answer[k].n
                              /\ k # h => answer'[k] = answer[k]
    BY <1>1, <1>3, AnswerMoved
  <1>10. SlotsHeld'
    <2>1. Resolving' = Resolving
      BY <1>3, <1>9 DEF Resolving, Threads
    <2> QED
      BY <1>1, <1>3, <1>8, <2>1, SameSlots DEF Preparing
  <1>11. AdmissionTypeOK'
    BY <1>1, <1>3, <1>5, <1>9 DEF AdmissionTypeOK
  <1>12. PhaseReached'
    BY <1>1, <1>3, <1>5, <1>9, AdmissionAssumption DEF PhaseReached, Threads, Idle, ToResume
  <1>13. AnswersFit'
    <2>1. \A u \in Tasks : Exists(u)' <=> Exists(u)
      BY <1>4, <1>5 DEF Exists
    <2>2. /\ \A u \in Tasks : /\ approval'[u].n > 0 => Exists(u)'
                              /\ approval'[u].status # "NONE" => approval'[u].n > 0
          /\ \A k \in Threads : answer'[k].at # "off" =>
                /\ answer'[k].task \in Tasks /\ answer'[k].n > 0
                /\ answer'[k].n <= approval'[answer'[k].task].n
      BY <1>1, <1>2, <1>3, <1>4, <1>9, <2>1 DEF AnswersFit
    <2>3. ~overtaken' => \A k \in Threads : answer[k].at = "execute" => answer[k].task # t
      BY <1>1, <1>6 DEF AnswersFit
    <2>4. ASSUME ~overtaken', NEW k \in Threads, answer'[k].at = "execute"
          PROVE  /\ task'[answer'[k].task].state = "ACTIVE"
                 /\ approval'[answer'[k].task].n = answer'[k].n
                 /\ \A j \in Threads : answer'[j].at = "execute" /\ answer'[j].task = answer'[k].task
                                         => j = k
      BY <1>1, <1>2, <1>3, <1>5, <1>6, <1>9, <2>3, <2>4 DEF AnswersFit
    <2> QED
      BY <2>2, <2>4 DEF AnswersFit, Tasks, Threads
  <1> QED
    BY <1>8, <1>10, <1>11, <1>12, <1>13 DEF AdmissionSafe, AdmissionInv

(* What a run may leave of its task and of the task's approval. *)
Outcome(t) ==
    /\ task'[t].state \in {"DONE", "WAITING"}
    /\ task' \in [Tasks -> TaskFile] /\ approval' \in [Tasks -> Approval]
    /\ \A u \in Tasks : /\ task'[u].of = task[u].of
                        /\ u # t => task'[u].state = task[u].state /\ approval'[u] = approval[u]
    /\ approval'[t].n >= approval[t].n
    /\ approval'[t].status # "NONE" => approval[t].status # "NONE" \/ approval'[t].n > 0

(* A finished task. *)
LEMMA FinishesOutcome ==
    ASSUME AdmissionTypeOK, NEW t \in Tasks, Finishes(t)
    PROVE  Outcome(t)
  <1>1. /\ task' \in [Tasks -> TaskFile]
        /\ \A u \in Tasks : /\ task'[u].of = task[u].of
                            /\ u # t => task'[u].state = task[u].state
        /\ task'[t].state = "DONE"
    BY TaskStateChanged DEF Finishes
  <1>2. approval[t].n \in Int /\ approval \in [Tasks -> Approval]
    BY AdmissionFields DEF FieldTypes, AdmissionTypeOK
  <1> QED
    BY <1>1, <1>2 DEF Outcome, Finishes

(* A task that asks for its next approval. *)
LEMMA AsksOutcome ==
    ASSUME AdmissionTypeOK, NEW t \in Tasks, Asks(t)
    PROVE  Outcome(t)
  <1>1. /\ task' \in [Tasks -> TaskFile]
        /\ \A u \in Tasks : /\ task'[u].of = task[u].of
                            /\ u # t => task'[u].state = task[u].state
        /\ task'[t].state = "WAITING"
    BY TaskStateChanged DEF Asks
  <1>2. /\ approval' \in [Tasks -> Approval]
        /\ \A u \in Tasks : u # t => approval'[u] = approval[u]
        /\ approval'[t].n = approval[t].n + 1
    BY ApprovalAsked DEF Asks
  <1>3. approval[t].n \in Nat
    BY AdmissionFields DEF FieldTypes
  <1> QED
    BY <1>1, <1>2, <1>3 DEF Outcome

(* A finished task whose approval was carried out. *)
LEMMA ConsumedOutcome ==
    ASSUME AdmissionTypeOK, NEW t \in Tasks, approval[t].status # "NONE",
           task' = [task EXCEPT ![t].state = "DONE"],
           approval' = [approval EXCEPT ![t].status = "CONSUMED"]
    PROVE  Outcome(t)
  <1>1. /\ task' \in [Tasks -> TaskFile]
        /\ \A u \in Tasks : /\ task'[u].of = task[u].of
                            /\ u # t => task'[u].state = task[u].state
        /\ task'[t].state = "DONE"
    BY TaskStateChanged
  <1>2. /\ approval' \in [Tasks -> Approval]
        /\ \A u \in Tasks : /\ approval'[u].n = approval[u].n
                            /\ u # t => approval'[u] = approval[u]
    BY ApprovalStatusChanged
  <1>3. approval[t].n \in Int
    BY AdmissionFields DEF FieldTypes
  <1> QED
    BY <1>1, <1>2, <1>3 DEF Outcome

(* A write that finds another call's journal for its session is recorded. *)
LEMMA OvertakesFacts ==
    ASSUME AdmissionTypeOK, NEW s, NEW by, Overtakes(s, by)
    PROVE  /\ overtaken' \in BOOLEAN
           /\ ~overtaken' => ~overtaken
           /\ ~overtaken' => \A u \in Tasks : u # by => ~(journal[u].there /\ journal[u].of = s)
    BY DEF Overtakes, AdmissionTypeOK

(* A reply may be such a write. *)
LEMMA MayReplyFacts ==
    ASSUME AdmissionTypeOK, NEW t, MayReply(t)
    PROVE  overtaken' \in BOOLEAN /\ (~overtaken' => ~overtaken)
    BY OvertakesFacts DEF MayReply, AdmissionTypeOK

(* The fence leaves nobody in the middle of the task it is about. *)
LEMMA FencedAnswers ==
    ASSUME AdmissionSafe, NEW t \in Tasks, Exists(t), Outcome(t), Fences(t),
           ~overtaken' => ~overtaken
    PROVE  /\ AnswersFit' /\ answer' \in [Threads -> Answer] /\ Resolving' = Resolving
           /\ \A h \in Threads : answer[h].at = "off" <=> answer'[h].at = "off"
  <1>1. AdmissionTypeOK /\ FieldTypes /\ AnswersFit
    BY AdmissionParts
  <1>2. /\ answer' \in [Threads -> Answer]
        /\ \A h \in Threads :
              /\ answer'[h].task = answer[h].task /\ answer'[h].n = answer[h].n
              /\ \/ answer'[h].at = "refused" /\ answer[h].at \in {"cancel", "start", "execute"}
                    /\ answer[h].task = t
                 \/ /\ answer'[h] = answer[h]
                    /\ answer[h].at \in {"cancel", "start", "execute"} => answer[h].task # t
    BY <1>1, AnswersFenced
  <1>3. \A h \in Threads : answer[h].at = "off" <=> answer'[h].at = "off"
    BY <1>2
  <1>4. Resolving' = Resolving
    BY <1>3 DEF Resolving, Threads
  <1>5. \A u \in Tasks : Exists(u)' <=> Exists(u)
    BY DEF Outcome, Exists
  <1>6. \A u \in Tasks : approval'[u].n \in Nat /\ approval[u].n \in Nat /\ approval'[u].n >= approval[u].n
    BY <1>1 DEF Outcome, FieldTypes, Approval
  <1>7. \A u \in Tasks : /\ approval'[u].n > 0 => Exists(u)'
                         /\ approval'[u].status # "NONE" => approval'[u].n > 0
    BY <1>1, <1>5, <1>6 DEF AnswersFit, Outcome
  <1>8. \A h \in Threads : answer'[h].at # "off" =>
           /\ answer'[h].task \in Tasks /\ answer'[h].n > 0
           /\ answer'[h].n <= approval'[answer'[h].task].n
    <2> SUFFICES ASSUME NEW h \in Threads, answer'[h].at # "off"
                 PROVE  /\ answer'[h].task \in Tasks /\ answer'[h].n > 0
                        /\ answer'[h].n <= approval'[answer'[h].task].n
      OBVIOUS
    <2>1. answer[h].n \in Nat /\ answer'[h].task = answer[h].task /\ answer'[h].n = answer[h].n
      BY <1>1, <1>2 DEF FieldTypes
    <2> QED
      BY <1>1, <1>3, <1>6, <2>1 DEF AnswersFit
  <1>9. ASSUME ~overtaken', NEW h \in Threads, answer'[h].at = "execute"
        PROVE  /\ task'[answer'[h].task].state = "ACTIVE"
               /\ approval'[answer'[h].task].n = answer'[h].n
               /\ \A k \in Threads : answer'[k].at = "execute" /\ answer'[k].task = answer'[h].task
                                       => k = h
    <2>1. \A k \in Threads : answer'[k].at = "execute" => answer'[k] = answer[k] /\ answer[k].task # t
      BY <1>2
    <2> QED
      BY <1>1, <1>9, <2>1 DEF AnswersFit, Outcome
  <1> QED
    BY <1>2, <1>3, <1>4, <1>7, <1>8, <1>9 DEF AnswersFit

(* Run: the goroutine of createMessage runs its task to an end or to an approval. *)
LEMMA RunKeeps ==
    ASSUME AdmissionSafe, NEW t \in Tasks, Run(t)
    PROVE  AdmissionSafe'
  <1>1. /\ AdmissionTypeOK /\ FieldTypes /\ SlotsHeld /\ JournalsValid /\ PhaseReached
    BY AdmissionParts
  <1>2. /\ job[t] = "run" /\ task[t].state = "ACTIVE" /\ Fences(t) /\ MayReply(t)
        /\ job' = [job EXCEPT ![t] = "end"]
        /\ UNCHANGED <<session, journal, op, running, slots, phase, todo, listing,
                       drawn, acked, giveUps, restarts>>
    BY DEF Run, Boot
  <1>3. Outcome(t)
    BY <1>1, FinishesOutcome, AsksOutcome DEF Run
  <1>4. overtaken' \in BOOLEAN /\ (~overtaken' => ~overtaken)
    BY <1>1, <1>2, MayReplyFacts
  <1>5. /\ job' \in [Tasks -> {"off", "run", "end", "release"}]
        /\ \A u \in Tasks : job'[u] = job[u] \/ (job[u] = "run" /\ job'[u] = "end")
    BY <1>1, <1>2 DEF AdmissionTypeOK
  <1>6. Exists(t) /\ Unfinished(t) /\ ~journal[t].there
    BY <1>1, <1>2 DEF Exists, Unfinished, JournalsValid
  <1>7. TaskMoves(t)
    BY <1>2, <1>3, <1>4, <1>5, <1>6 DEF TaskMoves, Outcome
  <1>8. /\ MarksHeld' /\ Retention' /\ IdsFresh' /\ StageReached' /\ JournalsValid'
        /\ Exclusive' /\ AllOrNothing' /\ Jobs' = Jobs
    BY <1>7, TaskMovesKeeps
  <1>9. /\ AnswersFit' /\ answer' \in [Threads -> Answer] /\ Resolving' = Resolving
        /\ \A h \in Threads : answer[h].at = "off" <=> answer'[h].at = "off"
    BY <1>2, <1>3, <1>4, <1>6, FencedAnswers
  <1>10. SlotsHeld'
    BY <1>1, <1>2, <1>8, <1>9, SameSlots DEF Preparing
  <1>11. AdmissionTypeOK'
    BY <1>1, <1>2, <1>3, <1>4, <1>5, <1>9 DEF AdmissionTypeOK, Outcome
  <1>12. PhaseReached'
    <2>1. phase = "up" /\ phase' = "up"
      BY <1>1, <1>2 DEF PhaseReached, AdmissionTypeOK
    <2> QED
      BY <1>1, <1>2, <1>9, <2>1 DEF PhaseReached, Threads
  <1> QED
    BY <1>8, <1>9, <1>10, <1>11, <1>12 DEF AdmissionSafe, AdmissionInv

(* RecoverRun: RecoverIncomplete runs a task that the last server left active. *)
LEMMA RecoverRunKeeps ==
    ASSUME AdmissionSafe, NEW t \in Tasks, RecoverRun(t)
    PROVE  AdmissionSafe'
  <1>1. /\ AdmissionTypeOK /\ FieldTypes /\ SlotsHeld /\ JournalsValid /\ PhaseReached
    BY AdmissionParts
  <1>2. /\ phase = "up" /\ todo' \subseteq Tasks
        /\ UNCHANGED <<session, journal, op, running, slots, job, phase, listing,
                       drawn, acked, giveUps, restarts>>
    BY <1>1 DEF RecoverRun, Held, AdmissionTypeOK
  <1>3. CASE UNCHANGED <<task, approval, overtaken, answer>>
    <2>1. /\ AdmissionTypeOK' /\ PhaseReached'
      BY <1>1, <1>2, <1>3 DEF AdmissionTypeOK, PhaseReached
    <2>2. SlotsHeld' /\ MarksHeld' /\ Retention'
      BY <1>2, <1>3, AdmissionParts
      DEF SlotsHeld, Jobs, Resolving, MarksHeld, Marks, Preparing, Retention, Retained,
          Abandoned, Exists
    <2>3. IdsFresh' /\ StageReached'
      BY <1>2, <1>3, AdmissionParts
      DEF IdsFresh, Unused, Exists, StageReached, Preparing, UnfinishedOf, Unfinished
    <2>4. JournalsValid' /\ AnswersFit'
      BY <1>2, <1>3, AdmissionParts
      DEF JournalsValid, JournalApplies, Exists, UnfinishedOf, Unfinished, AnswersFit
    <2>5. Exclusive' /\ AllOrNothing'
      BY <1>2, <1>3, AdmissionParts DEF Exclusive, AllOrNothing, Exists, Unfinished
    <2> QED
      BY <2>1, <2>2, <2>3, <2>4, <2>5 DEF AdmissionSafe, AdmissionInv
  <1>4. CASE /\ task[t].state = "ACTIVE" /\ Overtakes(task[t].of, 0) /\ Fences(t)
             /\ Finishes(t) \/ Asks(t)
    <2>1. Outcome(t)
      BY <1>1, <1>4, FinishesOutcome, AsksOutcome
    <2>2. /\ overtaken' \in BOOLEAN /\ (~overtaken' => ~overtaken)
          /\ ~overtaken' => \A u \in Tasks :
                u # 0 => ~(journal[u].there /\ journal[u].of = task[t].of)
      BY <1>1, <1>4, OvertakesFacts
    <2>3. Exists(t) /\ Unfinished(t) /\ (~overtaken' => ~journal[t].there)
      <3>1. Exists(t) /\ Unfinished(t)
        BY <1>4 DEF Exists, Unfinished
      <3>2. journal[t].there => journal[t].of = task[t].of
        BY <1>1, <3>1 DEF JournalsValid
      <3>3. t # 0
        BY AdmissionAssumption DEF Tasks
      <3> QED
        BY <2>2, <3>1, <3>2, <3>3
    <2>4. TaskMoves(t)
      BY <1>2, <2>1, <2>2, <2>3 DEF TaskMoves, Outcome
    <2>5. /\ MarksHeld' /\ Retention' /\ IdsFresh' /\ StageReached' /\ JournalsValid'
          /\ Exclusive' /\ AllOrNothing' /\ Jobs' = Jobs
      BY <2>4, TaskMovesKeeps
    <2>6. /\ AnswersFit' /\ answer' \in [Threads -> Answer] /\ Resolving' = Resolving
          /\ \A h \in Threads : answer[h].at = "off" <=> answer'[h].at = "off"
      BY <1>4, <2>1, <2>2, <2>3, FencedAnswers
    <2>7. SlotsHeld'
      BY <1>1, <1>2, <2>5, <2>6, SameSlots DEF Preparing
    <2>8. AdmissionTypeOK'
      BY <1>1, <1>2, <2>1, <2>2, <2>6 DEF AdmissionTypeOK, Outcome
    <2>9. PhaseReached'
      BY <1>1, <1>2, <2>6 DEF PhaseReached, Threads
    <2> QED
      BY <2>5, <2>6, <2>7, <2>8, <2>9 DEF AdmissionSafe, AdmissionInv
  <1> QED
    BY <1>3, <1>4 DEF RecoverRun

(* ExecuteApproved: the resumer carries the approval out and ends. *)
LEMMA ExecuteApprovedKeeps ==
    ASSUME AdmissionSafe, NEW h \in Threads, ExecuteApproved(h)
    PROVE  AdmissionSafe'
  <1>1. /\ AdmissionTypeOK /\ FieldTypes /\ JournalsValid /\ PhaseReached /\ AnswersFit
    BY AdmissionParts
  <1>2. PICK t \in Tasks : t = answer[h].task
    BY <1>1 DEF ExecuteApproved, AnswersFit
  <1>3. /\ answer[h].at = "execute" /\ MayReply(t) /\ Return(h)
        /\ UNCHANGED <<session, journal, op, running, job, phase, todo, listing,
                       drawn, acked, giveUps, restarts>>
    BY <1>2 DEF ExecuteApproved, Boot
  <1>4. Exists(t) /\ answer[h].n \in Nat /\ approval[t].n \in Nat /\ approval[t].n > 0
    BY <1>1, <1>2, <1>3 DEF AnswersFit, FieldTypes
  <1>5. Outcome(t)
    <2>1. CASE Finishes(t)
      BY <1>1, <2>1, FinishesOutcome
    <2>2. CASE Asks(t)
      BY <1>1, <2>2, AsksOutcome
    <2>3. CASE /\ approval[t] = [n |-> answer[h].n, status |-> "APPROVED"]
               /\ task' = [task EXCEPT ![t].state = "DONE"]
               /\ approval' = [approval EXCEPT ![t].status = "CONSUMED"]
      <3>1. approval[t].status = "APPROVED"
        BY <2>3
      <3> QED
        BY <1>1, <2>3, <3>1, ConsumedOutcome
    <2> QED
      BY <1>2, <2>1, <2>2, <2>3 DEF ExecuteApproved
  <1>6. overtaken' \in BOOLEAN /\ (~overtaken' => ~overtaken)
    BY <1>1, <1>3, MayReplyFacts
  <1>7. ~overtaken => task[t].state = "ACTIVE" /\ Unfinished(t) /\ ~journal[t].there
    <2>1. ~overtaken => task[t].state = "ACTIVE"
      BY <1>1, <1>2, <1>3 DEF AnswersFit
    <2>2. ~overtaken => ~journal[t].there
      <3>1. journal[t].there /\ ~overtaken => approval[t].n = 0
        BY <1>1 DEF JournalsValid, JournalApplies
      <3> QED
        BY <1>4, <3>1
    <2> QED
      BY <2>1, <2>2 DEF Unfinished
  <1>8. TaskMoves(t)
    BY <1>3, <1>4, <1>5, <1>6, <1>7 DEF TaskMoves, Outcome
  <1>9. /\ MarksHeld' /\ Retention' /\ IdsFresh' /\ StageReached' /\ JournalsValid'
        /\ Exclusive' /\ AllOrNothing' /\ Jobs' = Jobs
    BY <1>8, TaskMovesKeeps
  <1>10. /\ SlotsHeld' /\ slots' \in 0..MaxConcurrentTasks
         /\ answer' \in [Threads -> Answer] /\ answer'[h].at = "off"
         /\ \A k \in Threads : k # h => answer'[k] = answer[k]
    BY <1>3, <1>9, ReturnSlot
  <1>11. AdmissionTypeOK'
    BY <1>1, <1>3, <1>5, <1>6, <1>10 DEF AdmissionTypeOK, Outcome
  <1>12. PhaseReached'
    <2>1. ASSUME phase = "boot" PROVE h = "boot" /\ todo \subseteq ToResume'
      <3>1. h = "boot" /\ t \notin todo /\ todo \subseteq ToResume
        BY <1>1, <1>2, <1>3, <2>1 DEF PhaseReached, Threads
      <3> QED
        BY <1>5, <3>1 DEF ToResume, Outcome
    <2> QED
      BY <1>1, <1>3, <1>10, <2>1, AdmissionAssumption DEF PhaseReached, Threads, Idle
  <1>13. AnswersFit'
    <2>1. \A u \in Tasks : Exists(u)' <=> Exists(u)
      BY <1>4, <1>5 DEF Exists, Outcome
    <2>2. \A u \in Tasks : approval'[u].n \in Nat /\ approval[u].n \in Nat /\ approval'[u].n >= approval[u].n
      BY <1>1, <1>5 DEF Outcome, FieldTypes, Approval
    <2>3. \A u \in Tasks : /\ approval'[u].n > 0 => Exists(u)'
                           /\ approval'[u].status # "NONE" => approval'[u].n > 0
      BY <1>1, <1>4, <1>5, <2>1, <2>2 DEF AnswersFit, Outcome
    <2>4. ASSUME NEW k \in Threads, answer'[k].at # "off"
          PROVE  /\ answer'[k].task \in Tasks /\ answer'[k].n > 0
                 /\ answer'[k].n <= approval'[answer'[k].task].n
      <3>1. answer'[k] = answer[k] /\ answer[k].n \in Nat
        BY <1>1, <1>10, <2>4 DEF FieldTypes
      <3> QED
        BY <1>1, <2>2, <2>4, <3>1 DEF AnswersFit
    <2>5. ASSUME ~overtaken', NEW k \in Threads, answer'[k].at = "execute"
          PROVE  /\ task'[answer'[k].task].state = "ACTIVE"
                 /\ approval'[answer'[k].task].n = answer'[k].n
                 /\ \A j \in Threads : answer'[j].at = "execute" /\ answer'[j].task = answer'[k].task
                                         => j = k
      <3>1. \A j \in Threads : answer'[j].at = "execute" => j # h /\ answer'[j] = answer[j]
        BY <1>10
      <3>2. answer[k].task # t
        BY <1>1, <1>2, <1>3, <1>6, <2>5, <3>1 DEF AnswersFit
      <3> QED
        BY <1>1, <1>5, <1>6, <2>5, <3>1, <3>2 DEF AnswersFit, Outcome
    <2> QED
      BY <2>3, <2>4, <2>5 DEF AnswersFit
  <1> QED
    BY <1>9, <1>10, <1>11, <1>12, <1>13 DEF AdmissionSafe, AdmissionInv

-----------------------------------------------------------------------------
(* A step that leaves sessions, tasks, journals and the preparation alone. *)
FilesKept ==
    /\ session' = session /\ task' = task /\ journal' = journal /\ op' = op
    /\ drawn' = drawn /\ overtaken' = overtaken /\ phase' = phase
    /\ giveUps' \in Nat /\ giveUps' >= giveUps
    /\ \A u \in Tasks : /\ approval'[u].n = approval[u].n
                        /\ job[u] = "off" => job'[u] = "off"

(* Such a step keeps what the invariant says of files and the preparation. *)
LEMMA FilesKeptKeeps ==
    ASSUME AdmissionSafe, FilesKept
    PROVE  /\ Retention' /\ IdsFresh' /\ StageReached' /\ JournalsValid'
           /\ Exclusive' /\ AllOrNothing' /\ (Preparing' <=> Preparing)
  <1>1. /\ AdmissionTypeOK /\ FieldTypes /\ Retention /\ IdsFresh /\ StageReached
        /\ JournalsValid /\ Exclusive /\ AllOrNothing
    BY AdmissionParts
  <1>2. /\ \A u \in Tasks : (Exists(u)' <=> Exists(u)) /\ (Unfinished(u)' <=> Unfinished(u))
        /\ \A u \in Tasks : Unused(u)' <=> Unused(u)
        /\ Preparing' <=> Preparing
    BY DEF FilesKept, Exists, Unfinished, Unused, Preparing
  <1>3. Retention'
    <2>1. Retained' = Retained /\ Abandoned' = Abandoned
      BY <1>2 DEF FilesKept, Retained, Abandoned
    <2>2. Cardinality(Retained) \in Nat /\ Cardinality(Abandoned) \in Nat
      BY TasksFinite DEF Retained, Abandoned
    <2>3. giveUps \in Nat /\ MaxTasks \in Nat
      BY <1>1, AdmissionAssumption DEF AdmissionTypeOK
    <2> QED
      BY <1>1, <2>1, <2>2, <2>3 DEF FilesKept, Retention
  <1>4. IdsFresh'
    BY <1>1, <1>2 DEF FilesKept, IdsFresh
  <1>5. StageReached'
    <2>1. op.task \in Tasks => (job[op.task] = "off" => job'[op.task] = "off")
      BY DEF FilesKept
    <2>2. UnfinishedOf(op.of)' = UnfinishedOf(op.of) /\ (Exists(op.task)' <=> Exists(op.task))
      BY DEF FilesKept, UnfinishedOf, Unfinished, Exists
    <2>3. /\ session' = session /\ journal' = journal /\ task' = task /\ op' = op /\ drawn' = drawn
          /\ phase' = phase /\ overtaken' = overtaken
      BY DEF FilesKept
    <2> QED
      BY <1>1, <2>1, <2>2, <2>3 DEF StageReached, Preparing, Writing, Recovering, Idle
  <1>6. JournalsValid'
    BY <1>1, <1>2 DEF FilesKept, JournalsValid, JournalApplies, UnfinishedOf
  <1>7. Exclusive' /\ AllOrNothing'
    BY <1>1, <1>2 DEF FilesKept, Exclusive, AllOrNothing
  <1> QED
    BY <1>2, <1>3, <1>4, <1>5, <1>6, <1>7

(* The marks stay when the goroutines that hold them do. *)
LEMMA SameMarks ==
    ASSUME MarksHeld, Marks' = Marks, running' = running, task' = task, op' = op
    PROVE  MarksHeld'
    BY DEF MarksHeld, Marks, Preparing

(* A goroutine whose Run had nothing to do goes on to give back what it holds. *)
LEMMA RunReturnsKeeps ==
    ASSUME AdmissionSafe, NEW t \in Tasks, RunReturns(t)
    PROVE  AdmissionSafe'
  <1>1. /\ AdmissionTypeOK /\ SlotsHeld /\ MarksHeld /\ PhaseReached /\ AnswersFit
    BY AdmissionParts
  <1>2. /\ job[t] = "run" /\ job' = [job EXCEPT ![t] = "end"]
        /\ UNCHANGED <<session, task, journal, approval, op, running, slots, answer, phase, todo,
                       listing, drawn, acked, overtaken, giveUps, restarts>>
    BY DEF RunReturns, files, Boot, history
  <1>3. /\ job' \in [Tasks -> {"off", "run", "end", "release"}]
        /\ \A u \in Tasks : job'[u] = IF u = t THEN "end" ELSE job[u]
    BY <1>1, <1>2 DEF AdmissionTypeOK
  <1>4. FilesKept
    BY <1>1, <1>2, <1>3 DEF FilesKept, AdmissionTypeOK
  <1>5. /\ Retention' /\ IdsFresh' /\ StageReached' /\ JournalsValid'
        /\ Exclusive' /\ AllOrNothing' /\ (Preparing' <=> Preparing)
    BY <1>4, FilesKeptKeeps
  <1>6. Jobs' = Jobs /\ Marks' = Marks /\ Resolving' = Resolving
    BY <1>2, <1>3 DEF Jobs, Marks, Resolving
  <1>7. SlotsHeld' /\ MarksHeld'
    BY <1>1, <1>2, <1>5, <1>6, SameSlots, SameMarks
  <1>8. AdmissionTypeOK'
    BY <1>1, <1>2, <1>3 DEF AdmissionTypeOK
  <1>9. PhaseReached' /\ AnswersFit'
    BY <1>1, <1>2, <1>3 DEF PhaseReached, AnswersFit, Exists, ToResume, Idle
  <1> QED
    BY <1>5, <1>7, <1>8, <1>9 DEF AdmissionSafe, AdmissionInv

(* A run that fails has claimed the task or not; the task stays as it is on disk. *)
LEMMA RunFailsKeeps ==
    ASSUME AdmissionSafe, NEW t \in Tasks, RunFails(t)
    PROVE  AdmissionSafe'
  <1>1. /\ AdmissionTypeOK /\ FieldTypes /\ SlotsHeld /\ MarksHeld /\ PhaseReached /\ AnswersFit
    BY AdmissionParts
  <1>2. /\ job[t] = "run" /\ job' = [job EXCEPT ![t] = "end"] /\ giveUps' = giveUps + 1
        /\ UNCHANGED <<session, task, journal, approval, op, running, slots, phase, todo,
                       listing, drawn, acked, overtaken, restarts>>
    BY DEF RunFails, GiveUp, files, Boot
  <1>3. /\ job' \in [Tasks -> {"off", "run", "end", "release"}]
        /\ \A u \in Tasks : job'[u] = IF u = t THEN "end" ELSE job[u]
    BY <1>1, <1>2 DEF AdmissionTypeOK
  <1>4. giveUps' \in Nat /\ giveUps' >= giveUps
    BY <1>1, <1>2 DEF AdmissionTypeOK
  <1>5. /\ Retention' /\ IdsFresh' /\ StageReached' /\ JournalsValid'
        /\ Exclusive' /\ AllOrNothing' /\ (Preparing' <=> Preparing)
    <2>1. FilesKept
      BY <1>2, <1>3, <1>4 DEF FilesKept
    <2> QED
      BY <2>1, FilesKeptKeeps
  <1>6. /\ answer' \in [Threads -> Answer]
        /\ \A h \in Threads :
              /\ answer'[h].task = answer[h].task /\ answer'[h].n = answer[h].n
              /\ answer'[h].at = "off" <=> answer[h].at = "off"
              /\ answer'[h].at = "execute" => answer[h].at = "execute"
    <2>1. CASE UNCHANGED answer
      BY <1>1, <2>1 DEF AdmissionTypeOK
    <2>2. CASE Fences(t)
      BY <1>1, <2>2, AnswersFenced
    <2> QED
      BY <2>1, <2>2 DEF RunFails
  <1>7. Jobs' = Jobs /\ Marks' = Marks /\ Resolving' = Resolving
    BY <1>2, <1>3, <1>6 DEF Jobs, Marks, Resolving, Threads
  <1>8. SlotsHeld' /\ MarksHeld'
    BY <1>1, <1>2, <1>5, <1>7, SameSlots, SameMarks
  <1>9. AdmissionTypeOK'
    BY <1>1, <1>2, <1>3, <1>4, <1>6 DEF AdmissionTypeOK
  <1>10. PhaseReached'
    <2>1. phase = "up"
      BY <1>1, <1>2 DEF PhaseReached, AdmissionTypeOK
    <2> QED
      BY <1>1, <1>2, <1>6, <2>1 DEF PhaseReached, Threads
  <1>11. AnswersFit'
    BY <1>1, <1>2, <1>6 DEF AnswersFit, Exists
  <1> QED
    BY <1>5, <1>8, <1>9, <1>10, <1>11 DEF AdmissionSafe, AdmissionInv

(* The goroutine unmarks its own session: nobody else had marked it. *)
LEMMA UnmarkKeeps ==
    ASSUME AdmissionSafe, NEW t \in Tasks, Unmark(t)
    PROVE  AdmissionSafe'
  <1>1. /\ AdmissionTypeOK /\ FieldTypes /\ SlotsHeld /\ MarksHeld /\ PhaseReached /\ AnswersFit
    BY AdmissionParts
  <1>2. /\ job[t] = "end" /\ op = Idle /\ running' = running \ {task[t].of}
        /\ job' = [job EXCEPT ![t] = "release"]
        /\ UNCHANGED <<session, task, journal, approval, op, slots, answer, phase, todo,
                       listing, drawn, acked, overtaken, giveUps, restarts>>
    BY DEF Unmark, files, Boot, history
  <1>3. /\ job' \in [Tasks -> {"off", "run", "end", "release"}]
        /\ \A u \in Tasks : job'[u] = IF u = t THEN "release" ELSE job[u]
    BY <1>1, <1>2 DEF AdmissionTypeOK
  <1>4. FilesKept
    BY <1>1, <1>2, <1>3 DEF FilesKept, AdmissionTypeOK
  <1>5. /\ Retention' /\ IdsFresh' /\ StageReached' /\ JournalsValid'
        /\ Exclusive' /\ AllOrNothing' /\ (Preparing' <=> Preparing)
    BY <1>4, FilesKeptKeeps
  <1>6. SlotsHeld'
    <2>1. Jobs' = Jobs /\ Resolving' = Resolving
      BY <1>2, <1>3 DEF Jobs, Resolving
    <2> QED
      BY <1>1, <1>2, <1>5, <2>1, SameSlots
  <1>7. MarksHeld'
    <2>1. Marks' = Marks \ {t} /\ t \in Marks
      BY <1>2, <1>3 DEF Marks
    <2>2. ~Preparing /\ ~Preparing'
      BY <1>2, <1>5 DEF Preparing, Writing, Idle
    <2>3. {task[u].of : u \in Marks \ {t}} = {task[u].of : u \in Marks} \ {task[t].of}
      BY <1>1, <2>1 DEF MarksHeld
    <2>4. running' = {task'[u].of : u \in Marks'}
      BY <1>1, <1>2, <2>1, <2>2, <2>3 DEF MarksHeld
    <2> QED
      BY <1>1, <1>2, <2>1, <2>2, <2>4 DEF MarksHeld
  <1>8. AdmissionTypeOK'
    BY <1>1, <1>2, <1>3 DEF AdmissionTypeOK
  <1>9. PhaseReached' /\ AnswersFit'
    BY <1>1, <1>2, <1>3 DEF PhaseReached, AnswersFit, Exists, ToResume, Idle
  <1> QED
    BY <1>5, <1>6, <1>7, <1>8, <1>9 DEF AdmissionSafe, AdmissionInv

(* The goroutine gives its slot back, once. *)
LEMMA ReleaseTaskSlotKeeps ==
    ASSUME AdmissionSafe, NEW t \in Tasks, ReleaseTaskSlot(t)
    PROVE  AdmissionSafe'
  <1>1. /\ AdmissionTypeOK /\ FieldTypes /\ SlotsHeld /\ MarksHeld /\ PhaseReached /\ AnswersFit
    BY AdmissionParts
  <1>2. /\ job[t] = "release" /\ slots' = slots - 1 /\ job' = [job EXCEPT ![t] = "off"]
        /\ UNCHANGED <<session, task, journal, approval, op, running, answer, phase, todo,
                       listing, drawn, acked, overtaken, giveUps, restarts>>
    BY DEF ReleaseTaskSlot, files, Boot, history
  <1>3. /\ job' \in [Tasks -> {"off", "run", "end", "release"}]
        /\ \A u \in Tasks : job'[u] = IF u = t THEN "off" ELSE job[u]
    BY <1>1, <1>2 DEF AdmissionTypeOK
  <1>4. FilesKept
    BY <1>1, <1>2, <1>3 DEF FilesKept, AdmissionTypeOK
  <1>5. /\ Retention' /\ IdsFresh' /\ StageReached' /\ JournalsValid'
        /\ Exclusive' /\ AllOrNothing' /\ (Preparing' <=> Preparing)
    BY <1>4, FilesKeptKeeps
  <1>6. SlotsHeld' /\ slots' \in 0..MaxConcurrentTasks
    <2>1. Jobs' = Jobs \ {t} /\ t \in Jobs /\ Resolving' = Resolving
      BY <1>2, <1>3 DEF Jobs, Resolving
    <2>2. /\ IsFiniteSet(Jobs) /\ Cardinality(Jobs) \in Nat /\ Cardinality(Resolving) \in Nat
      BY TasksFinite, ResolversFinite DEF Jobs, Resolving
    <2>3. Cardinality(Jobs') = Cardinality(Jobs) - 1 /\ Cardinality(Jobs') \in Nat
      BY <2>1, <2>2, FS_RemoveElement, FS_CardinalityType
    <2>4. slots \in 0..MaxConcurrentTasks /\ MaxConcurrentTasks \in Nat
      BY <1>1, AdmissionAssumption DEF AdmissionTypeOK
    <2> QED
      BY <1>1, <1>2, <1>5, <2>1, <2>2, <2>3, <2>4 DEF SlotsHeld
  <1>7. MarksHeld'
    <2>1. Marks' = Marks
      BY <1>2, <1>3 DEF Marks
    <2> QED
      BY <1>1, <1>2, <2>1, SameMarks
  <1>8. AdmissionTypeOK'
    BY <1>1, <1>2, <1>3, <1>6 DEF AdmissionTypeOK
  <1>9. PhaseReached' /\ AnswersFit'
    BY <1>1, <1>2, <1>3 DEF PhaseReached, AnswersFit, Exists, ToResume, Idle
  <1> QED
    BY <1>5, <1>6, <1>7, <1>8, <1>9 DEF AdmissionSafe, AdmissionInv

(* A resolver ends and has changed at most the status of its approval. *)
LEMMA ReturnKeeps ==
    ASSUME AdmissionSafe, NEW h \in Threads, answer[h].at # "off", Return(h), FilesKept,
           UNCHANGED <<job, running, todo, listing, acked>>,
           approval' \in [Tasks -> Approval],
           \A u \in Tasks : /\ u # answer[h].task => approval'[u] = approval[u]
                            /\ approval'[u].status # "NONE" => approval[u].n > 0
    PROVE  AdmissionSafe'
  <1>1. /\ AdmissionTypeOK /\ FieldTypes /\ MarksHeld /\ PhaseReached /\ AnswersFit
    BY AdmissionParts
  <1>2. /\ Retention' /\ IdsFresh' /\ StageReached' /\ JournalsValid'
        /\ Exclusive' /\ AllOrNothing'
    BY FilesKeptKeeps
  <1>3. Jobs' = Jobs /\ Marks' = Marks /\ op' = op
    BY DEF Jobs, Marks, FilesKept
  <1>4. /\ SlotsHeld' /\ slots' \in 0..MaxConcurrentTasks
        /\ answer' \in [Threads -> Answer] /\ answer'[h].at = "off"
        /\ \A k \in Threads : k # h => answer'[k] = answer[k]
    BY <1>3, ReturnSlot
  <1>5. MarksHeld'
    BY <1>1, <1>3, SameMarks DEF FilesKept
  <1>6. AdmissionTypeOK'
    BY <1>1, <1>4 DEF AdmissionTypeOK, FilesKept
  <1>7. PhaseReached'
    <2>1. ASSUME phase = "boot" PROVE h = "boot" /\ todo \subseteq ToResume'
      <3>1. h = "boot" /\ answer[h].task \notin todo /\ todo \subseteq ToResume
        BY <1>1, <2>1 DEF PhaseReached, Threads
      <3> QED
        BY <3>1 DEF ToResume
    <2> QED
      BY <1>1, <1>4, <2>1, AdmissionAssumption DEF PhaseReached, Threads, Idle, FilesKept
  <1>8. AnswersFit'
    <2>1. \A u \in Tasks : /\ approval'[u].n > 0 => Exists(u)'
                           /\ approval'[u].status # "NONE" => approval'[u].n > 0
      BY <1>1 DEF AnswersFit, FilesKept, Exists
    <2>2. \A k \in Threads : answer'[k].at # "off" =>
             /\ answer'[k].task \in Tasks /\ answer'[k].n > 0
             /\ answer'[k].n <= approval'[answer'[k].task].n
      BY <1>1, <1>4 DEF AnswersFit, FilesKept
    <2>3. ASSUME ~overtaken', NEW k \in Threads, answer'[k].at = "execute"
          PROVE  /\ task'[answer'[k].task].state = "ACTIVE"
                 /\ approval'[answer'[k].task].n = answer'[k].n
                 /\ \A j \in Threads : answer'[j].at = "execute" /\ answer'[j].task = answer'[k].task
                                         => j = k
      BY <1>1, <1>4, <2>3 DEF AnswersFit, FilesKept
    <2> QED
      BY <2>1, <2>2, <2>3 DEF AnswersFit
  <1> QED
    BY <1>2, <1>4, <1>5, <1>6, <1>7, <1>8 DEF AdmissionSafe, AdmissionInv

(* A refused resumer leaves the task alone and ends. *)
LEMMA RefusedKeeps ==
    ASSUME AdmissionSafe, NEW h \in Threads, Refused(h)
    PROVE  AdmissionSafe'
  <1>1. AdmissionTypeOK /\ FieldTypes /\ AnswersFit
    BY AdmissionParts
  <1>2. PICK t \in Tasks : t = answer[h].task
    BY <1>1 DEF Refused, AnswersFit
  <1>3. /\ answer[h].at = "refused" /\ Return(h)
        /\ UNCHANGED <<session, task, journal, op, running, job, phase, todo, listing,
                       drawn, acked, overtaken, giveUps, restarts>>
    BY DEF Refused, Boot, history
  <1>4. /\ approval' \in [Tasks -> Approval]
        /\ \A u \in Tasks : approval'[u].n = approval[u].n /\ (u # t => approval'[u] = approval[u])
    <2>1. CASE UNCHANGED approval
      BY <1>1, <2>1 DEF AdmissionTypeOK
    <2>2. CASE approval' = [approval EXCEPT ![t].status = "CONSUMED"]
      BY <1>1, <2>2, ApprovalStatusChanged
    <2> QED
      BY <1>2, <2>1, <2>2 DEF Refused
  <1>5. \A u \in Tasks : approval'[u].status # "NONE" => approval[u].n > 0
    BY <1>1, <1>2, <1>3, <1>4 DEF AnswersFit, FieldTypes
  <1>6. FilesKept
    BY <1>1, <1>3, <1>4 DEF FilesKept, AdmissionTypeOK
  <1> QED
    BY <1>2, <1>3, <1>4, <1>5, <1>6, ReturnKeeps

(* A resumer may end at any place; its slot is given back. *)
LEMMA ResumeFailsKeeps ==
    ASSUME AdmissionSafe, NEW h \in Threads, ResumeFails(h)
    PROVE  AdmissionSafe'
  <1>1. AdmissionTypeOK /\ AnswersFit
    BY AdmissionParts
  <1>2. /\ answer[h].at # "off" /\ Return(h) /\ giveUps' = giveUps + 1
        /\ UNCHANGED <<session, task, journal, approval, op, running, job, phase, todo, listing,
                       drawn, acked, overtaken, restarts>>
    BY DEF ResumeFails, GiveUp, files, Boot
  <1>3. giveUps' \in Nat /\ giveUps' >= giveUps /\ approval' \in [Tasks -> Approval]
    BY <1>1, <1>2 DEF AdmissionTypeOK
  <1>4. FilesKept
    BY <1>2, <1>3 DEF FilesKept
  <1>5. \A u \in Tasks : approval'[u].status # "NONE" => approval[u].n > 0
    BY <1>1, <1>2 DEF AnswersFit
  <1> QED
    BY <1>2, <1>3, <1>4, <1>5, ReturnKeeps

(* A thread goes on to another place, other than execute, with the answer it has. *)
LEMMA AnswerMovesKeeps ==
    ASSUME AdmissionSafe, NEW h \in Threads, answer[h].at # "off", FilesKept,
           UNCHANGED <<job, running, slots, todo, listing, acked>>,
           approval' \in [Tasks -> Approval], answer' \in [Threads -> Answer],
           \A u \in Tasks : /\ u # answer[h].task => approval'[u] = approval[u]
                            /\ approval'[u].status # "NONE" => approval[u].n > 0,
           answer'[h].task = answer[h].task, answer'[h].n = answer[h].n,
           answer'[h].at \in {"resume", "cancel", "start"},
           answer'[h].at # "resume" => task[answer[h].task].state = "WAITING",
           \A k \in Threads : k # h => answer'[k] = answer[k]
    PROVE  AdmissionSafe'
  <1>1. /\ AdmissionTypeOK /\ FieldTypes /\ SlotsHeld /\ MarksHeld /\ PhaseReached /\ AnswersFit
    BY AdmissionParts
  <1>2. /\ Retention' /\ IdsFresh' /\ StageReached' /\ JournalsValid'
        /\ Exclusive' /\ AllOrNothing' /\ (Preparing' <=> Preparing)
    BY FilesKeptKeeps
  <1>3. Jobs' = Jobs /\ Marks' = Marks /\ Resolving' = Resolving
    BY DEF Jobs, Marks, Resolving, Threads
  <1>4. SlotsHeld' /\ MarksHeld'
    BY <1>1, <1>2, <1>3, SameSlots, SameMarks DEF FilesKept
  <1>5. AdmissionTypeOK'
    BY <1>1 DEF AdmissionTypeOK, FilesKept
  <1>6. PhaseReached'
    <2>1. ASSUME phase = "boot" PROVE h = "boot" /\ todo \subseteq ToResume'
      <3>1. h = "boot" /\ answer[h].task \notin todo /\ todo \subseteq ToResume
        BY <1>1, <2>1 DEF PhaseReached, Threads
      <3> QED
        BY <3>1 DEF ToResume
    <2> QED
      BY <1>1, <2>1, AdmissionAssumption DEF PhaseReached, Threads, Idle, FilesKept
  <1>7. AnswersFit'
    <2>1. \A u \in Tasks : /\ approval'[u].n > 0 => Exists(u)'
                           /\ approval'[u].status # "NONE" => approval'[u].n > 0
      BY <1>1 DEF AnswersFit, FilesKept, Exists
    <2>2. \A k \in Threads : answer'[k].at # "off" =>
             /\ answer'[k].task \in Tasks /\ answer'[k].n > 0
             /\ answer'[k].n <= approval'[answer'[k].task].n
      BY <1>1 DEF AnswersFit, FilesKept
    <2>3. ASSUME ~overtaken', NEW k \in Threads, answer'[k].at = "execute"
          PROVE  /\ task'[answer'[k].task].state = "ACTIVE"
                 /\ approval'[answer'[k].task].n = answer'[k].n
                 /\ \A j \in Threads : answer'[j].at = "execute" /\ answer'[j].task = answer'[k].task
                                         => j = k
      BY <1>1, <2>3 DEF AnswersFit, FilesKept
    <2> QED
      BY <2>1, <2>2, <2>3 DEF AnswersFit
  <1> QED
    BY <1>2, <1>4, <1>5, <1>6, <1>7 DEF AdmissionSafe, AdmissionInv

(* A resumer that finds its task waiting for this approval goes on, any other ends. *)
LEMMA ResumeKeeps ==
    ASSUME AdmissionSafe, NEW h \in Threads, Resume(h)
    PROVE  AdmissionSafe'
  <1>1. AdmissionTypeOK /\ FieldTypes /\ AnswersFit
    BY AdmissionParts
  <1>2. /\ answer[h].at = "resume"
        /\ UNCHANGED <<session, task, journal, approval, op, running, job, phase, todo, listing,
                       drawn, acked, overtaken, giveUps, restarts>>
    BY DEF Resume, files, Boot, history
  <1>3. /\ FilesKept /\ approval' \in [Tasks -> Approval]
        /\ \A u \in Tasks : approval'[u].status # "NONE" => approval[u].n > 0
    BY <1>1, <1>2 DEF FilesKept, AdmissionTypeOK, AnswersFit
  <1>4. CASE Return(h)
    BY <1>2, <1>3, <1>4, ReturnKeeps
  <1>5. ASSUME NEW p \in {"start", "cancel"}, At(h, p), task[answer[h].task].state = "WAITING"
        PROVE  AdmissionSafe'
    <2>1. /\ answer' \in [Threads -> Answer]
          /\ \A k \in Threads : /\ answer'[k].task = answer[k].task /\ answer'[k].n = answer[k].n
                                /\ k # h => answer'[k] = answer[k]
          /\ answer'[h].at = p
      BY <1>1, <1>5, AnswerMoved DEF At
    <2>2. slots' = slots
      BY <1>5 DEF At
    <2> QED
      BY <1>2, <1>3, <1>5, <2>1, <2>2, AnswerMovesKeeps
  <1> QED
    BY <1>4, <1>5 DEF Resume

(* An answer is recorded, or comes too late and ends the call. *)
LEMMA ResolveKeeps ==
    ASSUME AdmissionSafe, NEW h \in Threads, NEW decision \in {"APPROVED", "REJECTED"},
           Resolve(h, decision)
    PROVE  AdmissionSafe'
  <1>1. AdmissionTypeOK /\ FieldTypes /\ AnswersFit
    BY AdmissionParts
  <1>2. PICK t \in Tasks : t = answer[h].task
    BY <1>1 DEF Resolve, AnswersFit
  <1>3. /\ answer[h].at = "resolve"
        /\ UNCHANGED <<session, task, journal, op, running, job, phase, todo, listing,
                       drawn, acked, overtaken, giveUps, restarts>>
    BY DEF Resolve, Boot, history
  <1>4. approval[t].n > 0
    BY <1>1, <1>2, <1>3 DEF AnswersFit, FieldTypes
  <1>5. ASSUME NEW v \in {"EXPIRED", "APPROVED", "REJECTED"},
               UNCHANGED approval \/ approval' = [approval EXCEPT ![t].status = v]
        PROVE  /\ approval' \in [Tasks -> Approval] /\ FilesKept
               /\ \A u \in Tasks : u # t => approval'[u] = approval[u]
               /\ \A u \in Tasks : approval'[u].status # "NONE" => approval[u].n > 0
    <2>1. /\ approval' \in [Tasks -> Approval]
          /\ \A u \in Tasks : approval'[u].n = approval[u].n /\ (u # t => approval'[u] = approval[u])
      <3>1. CASE UNCHANGED approval
        BY <1>1, <3>1 DEF AdmissionTypeOK
      <3>2. CASE approval' = [approval EXCEPT ![t].status = v]
        BY <1>1, <3>2, ApprovalStatusChanged
      <3> QED
        BY <1>5, <3>1, <3>2
    <2>2. FilesKept
      BY <1>1, <1>3, <2>1 DEF FilesKept, AdmissionTypeOK
    <2>3. \A u \in Tasks : approval'[u].status # "NONE" => approval[u].n > 0
      BY <1>1, <1>4, <2>1 DEF AnswersFit
    <2> QED
      BY <2>1, <2>2, <2>3
  <1>6. CASE approval' = [approval EXCEPT ![t].status = "EXPIRED"] /\ Return(h)
    BY <1>2, <1>3, <1>5, <1>6, ReturnKeeps
  <1>7. CASE UNCHANGED approval /\ Return(h)
    BY <1>2, <1>3, <1>5, <1>7, ReturnKeeps
  <1>8. CASE /\ approval' = [approval EXCEPT ![t].status = decision]
             /\ answer' = [answer EXCEPT ![h].at = "resume", ![h].status = decision]
             /\ UNCHANGED slots
    <2>1. /\ answer' \in [Threads -> Answer]
          /\ \A k \in Threads : k # h => answer'[k] = answer[k]
          /\ answer'[h].at = "resume" /\ answer'[h].task = answer[h].task /\ answer'[h].n = answer[h].n
      BY <1>1, <1>8 DEF AdmissionTypeOK, Answer
    <2>2. /\ approval' \in [Tasks -> Approval] /\ FilesKept
          /\ \A u \in Tasks : u # t => approval'[u] = approval[u]
          /\ \A u \in Tasks : approval'[u].status # "NONE" => approval[u].n > 0
      BY <1>5, <1>8
    <2> QED
      BY <1>2, <1>3, <1>8, <2>1, <2>2, AnswerMovesKeeps
  <1> QED
    BY <1>2, <1>6, <1>7, <1>8 DEF Resolve

(* An expiry changes the status of a pending approval and nothing else. *)
LEMMA ExpireKeeps ==
    ASSUME AdmissionSafe, NEW t \in Tasks, Expire(t)
    PROVE  AdmissionSafe'
  <1>1. /\ AdmissionTypeOK /\ FieldTypes /\ SlotsHeld /\ MarksHeld /\ PhaseReached /\ AnswersFit
    BY AdmissionParts
  <1>2. /\ approval[t].status = "PENDING" /\ approval' = [approval EXCEPT ![t].status = "EXPIRED"]
        /\ UNCHANGED <<session, task, journal, op, running, slots, job, answer, phase, todo, listing,
                       drawn, acked, overtaken, giveUps, restarts>>
    BY DEF Expire, memory, history
  <1>3. /\ approval' \in [Tasks -> Approval]
        /\ \A u \in Tasks : /\ approval'[u].n = approval[u].n
                            /\ u # t => approval'[u] = approval[u]
        /\ approval'[t].status = "EXPIRED"
    BY <1>1, <1>2, ApprovalStatusChanged
  <1>4. FilesKept
    BY <1>1, <1>2, <1>3 DEF FilesKept, AdmissionTypeOK
  <1>5. /\ Retention' /\ IdsFresh' /\ StageReached' /\ JournalsValid'
        /\ Exclusive' /\ AllOrNothing' /\ (Preparing' <=> Preparing)
    BY <1>4, FilesKeptKeeps
  <1>6. Jobs' = Jobs /\ Marks' = Marks /\ Resolving' = Resolving
    BY <1>2 DEF Jobs, Marks, Resolving
  <1>7. SlotsHeld' /\ MarksHeld'
    BY <1>1, <1>2, <1>5, <1>6, SameSlots, SameMarks
  <1>8. AdmissionTypeOK'
    BY <1>1, <1>2, <1>3 DEF AdmissionTypeOK
  <1>9. PhaseReached'
    <2>1. ToResume \subseteq ToResume'
      BY <1>3 DEF ToResume
    <2> QED
      BY <1>1, <1>2, <2>1 DEF PhaseReached, Idle
  <1>10. AnswersFit'
    BY <1>1, <1>2, <1>3 DEF AnswersFit, Exists
  <1> QED
    BY <1>5, <1>7, <1>8, <1>9, <1>10 DEF AdmissionSafe, AdmissionInv

(* A resolver takes a slot of its own for an approval that was asked for. *)
LEMMA TakeSlotKeeps ==
    ASSUME AdmissionSafe, NEW h \in Resolvers, NEW t \in Tasks, TakeSlot(h, t)
    PROVE  AdmissionSafe'
  <1>1. /\ AdmissionTypeOK /\ FieldTypes /\ SlotsHeld /\ MarksHeld /\ PhaseReached /\ AnswersFit
    BY AdmissionParts
  <1>2. PICK a : a = [at |-> "resolve", task |-> t, n |-> approval[t].n, status |-> "NONE"]
    OBVIOUS
  <1>3. /\ phase = "up" /\ answer[h].at = "off" /\ approval[t].n > 0
        /\ slots < MaxConcurrentTasks /\ slots' = slots + 1
        /\ answer' = [answer EXCEPT ![h] = a]
        /\ UNCHANGED <<session, task, journal, approval, op, running, job, phase, todo, listing,
                       drawn, acked, overtaken, giveUps, restarts>>
    BY <1>2 DEF TakeSlot, SlotFree, files, Boot, history
  <1>4. a \in Answer /\ a.at = "resolve" /\ a.task = t /\ a.n = approval[t].n
    <2>1. t \in 0..MaxDrawn /\ approval[t].n \in 0..MaxApprovals
      BY <1>1, AdmissionAssumption DEF Tasks, FieldTypes
    <2> QED
      BY <1>2, <2>1 DEF Answer
  <1>5. h \in Threads /\ h # "boot"
    BY AdmissionAssumption DEF Threads
  <1>6. /\ answer' \in [Threads -> Answer]
        /\ \A k \in Threads : k # h => answer'[k] = answer[k]
        /\ answer'[h] = a
    BY <1>1, <1>3, <1>4, <1>5, AnswerSet
  <1>7. FilesKept
    BY <1>1, <1>3 DEF FilesKept, AdmissionTypeOK
  <1>8. /\ Retention' /\ IdsFresh' /\ StageReached' /\ JournalsValid'
        /\ Exclusive' /\ AllOrNothing' /\ (Preparing' <=> Preparing)
    BY <1>7, FilesKeptKeeps
  <1>9. SlotsHeld' /\ slots' \in 0..MaxConcurrentTasks
    <2>1. Jobs' = Jobs /\ h \notin Resolving /\ Resolving' = Resolving \cup {h}
      BY <1>3, <1>4, <1>5, <1>6 DEF Jobs, Resolving, Threads
    <2>2. /\ IsFiniteSet(Resolving) /\ Cardinality(Jobs) \in Nat /\ Cardinality(Resolving) \in Nat
      BY TasksFinite, ResolversFinite DEF Jobs, Resolving
    <2>3. Cardinality(Resolving') = Cardinality(Resolving) + 1
      BY <2>1, <2>2, FS_AddElement
    <2>4. slots \in 0..MaxConcurrentTasks /\ MaxConcurrentTasks \in Nat
      BY <1>1, AdmissionAssumption DEF AdmissionTypeOK
    <2> QED
      BY <1>1, <1>3, <1>8, <2>1, <2>2, <2>3, <2>4 DEF SlotsHeld
  <1>10. MarksHeld'
    <2>1. Marks' = Marks
      BY <1>3 DEF Marks
    <2> QED
      BY <1>1, <1>3, <2>1, SameMarks
  <1>11. AdmissionTypeOK'
    BY <1>1, <1>3, <1>6, <1>9 DEF AdmissionTypeOK
  <1>12. PhaseReached'
    BY <1>1, <1>3, <1>5, <1>6 DEF PhaseReached, Threads
  <1>13. AnswersFit'
    <2>1. approval[t].n <= approval[t].n
      BY <1>1 DEF FieldTypes
    <2> QED
      BY <1>1, <1>3, <1>4, <1>6, <2>1 DEF AnswersFit, Exists
  <1> QED
    BY <1>8, <1>9, <1>10, <1>11, <1>12, <1>13 DEF AdmissionSafe, AdmissionInv

(* The start takes up an approval that it found answered or expired. *)
LEMMA ResumeResolvedKeeps ==
    ASSUME AdmissionSafe, NEW t \in Tasks, ResumeResolved(t)
    PROVE  AdmissionSafe'
  <1>1. /\ AdmissionTypeOK /\ FieldTypes /\ SlotsHeld /\ MarksHeld /\ PhaseReached /\ AnswersFit
    BY AdmissionParts
  <1>2. PICK a : a = [at |-> "resume", task |-> t, n |-> approval[t].n, status |-> approval[t].status]
    OBVIOUS
  <1>3. /\ phase = "boot" /\ answer["boot"].at = "off"
        /\ t \in todo /\ todo' = todo \ {t} /\ answer' = [answer EXCEPT !["boot"] = a]
        /\ UNCHANGED <<session, task, journal, approval, op, running, slots, job, phase, listing,
                       drawn, acked, overtaken, giveUps, restarts>>
    BY <1>2 DEF ResumeResolved, Held, files, history
  <1>4. approval[t].status \in {"APPROVED", "REJECTED", "EXPIRED"} /\ approval[t].n > 0
    BY <1>1, <1>3 DEF PhaseReached, ToResume, AnswersFit
  <1>5. a \in Answer /\ a.at = "resume" /\ a.task = t /\ a.n = approval[t].n
    <2>1. t \in 0..MaxDrawn /\ approval[t].n \in 0..MaxApprovals
      BY <1>1, AdmissionAssumption DEF Tasks, FieldTypes
    <2> QED
      BY <1>2, <1>4, <2>1 DEF Answer
  <1>6. /\ answer' \in [Threads -> Answer]
        /\ \A k \in Threads : k # "boot" => answer'[k] = answer[k]
        /\ answer'["boot"] = a /\ "boot" \in Threads
    <2>1. "boot" \in Threads
      BY DEF Threads
    <2> QED
      BY <1>1, <1>3, <1>5, <2>1, AnswerSet
  <1>7. FilesKept
    BY <1>1, <1>3 DEF FilesKept, AdmissionTypeOK
  <1>8. /\ Retention' /\ IdsFresh' /\ StageReached' /\ JournalsValid'
        /\ Exclusive' /\ AllOrNothing' /\ (Preparing' <=> Preparing)
    BY <1>7, FilesKeptKeeps
  <1>9. SlotsHeld' /\ MarksHeld'
    <2>1. Jobs' = Jobs /\ Marks' = Marks /\ Resolving' = Resolving
      BY <1>3, <1>6, AdmissionAssumption DEF Jobs, Marks, Resolving, Threads
    <2> QED
      BY <1>1, <1>3, <1>8, <2>1, SameSlots, SameMarks
  <1>10. AdmissionTypeOK'
    BY <1>1, <1>3, <1>6 DEF AdmissionTypeOK
  <1>11. PhaseReached'
    BY <1>1, <1>3, <1>5, <1>6, AdmissionAssumption DEF PhaseReached, Threads, Idle, ToResume
  <1>12. AnswersFit'
    <2>1. approval[t].n <= approval[t].n
      BY <1>1 DEF FieldTypes
    <2> QED
      BY <1>1, <1>3, <1>4, <1>5, <1>6, <2>1 DEF AnswersFit, Exists
  <1> QED
    BY <1>8, <1>9, <1>10, <1>11, <1>12 DEF AdmissionSafe, AdmissionInv

(* RecoverIncomplete lists the active tasks; only a serving process does. *)
LEMMA ListTasksKeeps ==
    ASSUME AdmissionSafe, ListTasks
    PROVE  AdmissionSafe'
  <1>1. /\ AdmissionTypeOK /\ SlotsHeld /\ MarksHeld /\ PhaseReached /\ AnswersFit
    BY AdmissionParts
  <1>2. /\ listing /\ listing' = FALSE /\ todo' \subseteq Tasks
        /\ UNCHANGED <<session, task, journal, approval, op, running, slots, job, answer, phase,
                       drawn, acked, overtaken, giveUps, restarts>>
    BY DEF ListTasks, ToRun, Held, files, history
  <1>3. FilesKept
    BY <1>1, <1>2 DEF FilesKept, AdmissionTypeOK
  <1>4. /\ Retention' /\ IdsFresh' /\ StageReached' /\ JournalsValid'
        /\ Exclusive' /\ AllOrNothing' /\ (Preparing' <=> Preparing)
    BY <1>3, FilesKeptKeeps
  <1>5. SlotsHeld' /\ MarksHeld'
    <2>1. Jobs' = Jobs /\ Marks' = Marks /\ Resolving' = Resolving
      BY <1>2 DEF Jobs, Marks, Resolving
    <2> QED
      BY <1>1, <1>2, <1>4, <2>1, SameSlots, SameMarks
  <1>6. AdmissionTypeOK'
    BY <1>1, <1>2 DEF AdmissionTypeOK
  <1>7. PhaseReached'
    BY <1>1, <1>2 DEF PhaseReached
  <1>8. AnswersFit'
    BY <1>1, <1>2 DEF AnswersFit, Exists
  <1> QED
    BY <1>4, <1>5, <1>6, <1>7, <1>8 DEF AdmissionSafe, AdmissionInv

-----------------------------------------------------------------------------
(* A preparation ends, or there is none: whatever it has written stays. *)
LEMMA IdleStage ==
    ASSUME op' = Idle
    PROVE  StageReached' /\ ~Preparing' /\ op'.task = 0 /\ op'.of = 1 /\ op'.stage = "idle"
    BY DEF StageReached, Preparing, Writing, Recovering, Idle

PreparationEnds ==
    /\ session' = session /\ task' = task /\ journal' = journal /\ approval' = approval
    /\ drawn' = drawn /\ overtaken' = overtaken /\ op' = Idle
    /\ \A u \in Tasks : job[u] = "off" /\ job'[u] # "off" => u = op.task /\ op.stage = "trace"

(* A task without a journal is then complete, or was never begun. *)
LEMMA PreparationEndsKeeps ==
    ASSUME AdmissionSafe, PreparationEnds
    PROVE  /\ IdsFresh' /\ StageReached' /\ JournalsValid' /\ Exclusive' /\ AllOrNothing'
           /\ Cardinality(Retained') <= Cardinality(Retained) /\ ~Preparing'
  <1>1. /\ AdmissionTypeOK /\ FieldTypes /\ IdsFresh /\ StageReached
        /\ JournalsValid /\ Exclusive /\ AllOrNothing
    BY AdmissionParts
  <1>2. \A u \in Tasks : (Exists(u)' <=> Exists(u)) /\ (Unfinished(u)' <=> Unfinished(u))
    BY DEF PreparationEnds, Exists, Unfinished
  <1>3. StageReached' /\ ~Preparing' /\ op'.task = 0 /\ op'.of = 1 /\ op'.stage = "idle"
    BY IdleStage DEF PreparationEnds
  <1>4. op.stage = "trace" => op.task = drawn /\ op.task \in Tasks /\ ~journal[op.task].there
    BY <1>1 DEF StageReached, Preparing
  <1>5. IdsFresh'
    <2>1. \A u \in Tasks : Unused(u)' => Unused(u) /\ u > drawn
      BY <1>3 DEF PreparationEnds, Unused
    <2>2. \A u \in Tasks : u > drawn => u # drawn
      BY <1>1, AdmissionAssumption DEF Tasks, AdmissionTypeOK
    <2>3. \A u \in Tasks : Unused(u)' => job'[u] = "off"
      BY <1>1, <1>4, <2>1, <2>2 DEF PreparationEnds, IdsFresh
    <2> QED
      BY <1>1, <1>2, <2>1, <2>3 DEF PreparationEnds, IdsFresh
  <1>6. JournalsValid'
    <2>1. \A u \in Tasks : journal[u].there => job'[u] = "off"
      BY <1>1, <1>4 DEF PreparationEnds, JournalsValid
    <2>2. \A u \in Tasks : JournalApplies(u) => JournalApplies(u)'
      BY <1>2 DEF PreparationEnds, JournalApplies, UnfinishedOf
    <2> QED
      BY <1>1, <1>2, <2>1, <2>2 DEF PreparationEnds, JournalsValid
  <1>7. Exclusive'
    BY <1>1, <1>2 DEF PreparationEnds, Exclusive
  <1>8. AllOrNothing'
    <2> SUFFICES ASSUME ~overtaken, NEW t \in Tasks, ~journal[t].there
                 PROVE  Exists(t) <=> \E s \in Sessions : t \in session[s].messages
      BY <1>2 DEF PreparationEnds, AllOrNothing
    <2>1. CASE op.task # t
      BY <1>1, <2>1 DEF AllOrNothing
    <2>2. CASE op.task = t
      <3>1. op.stage \in {"prepare", "trace"}
        <4>1. op.stage # "idle"
          BY <1>1, <2>2, AdmissionAssumption DEF StageReached, Idle, Tasks
        <4>2. op.stage \notin Writing \cup Recovering
          BY <1>1, <2>2 DEF StageReached
        <4> QED
          BY <1>1, <4>1, <4>2 DEF FieldTypes, Stages
      <3>2. CASE op.stage = "prepare"
        BY <1>1, <2>2, <3>2 DEF IdsFresh, Unused
      <3>3. CASE op.stage = "trace"
        BY <1>1, <2>2, <3>3 DEF StageReached, FieldTypes
      <3> QED
        BY <3>1, <3>2, <3>3
    <2> QED
      BY <2>1, <2>2
  <1>9. Cardinality(Retained') <= Cardinality(Retained)
    <2>1. Retained' \subseteq Retained
      BY <1>2, <1>3 DEF PreparationEnds, Retained
    <2>2. IsFiniteSet(Retained)
      BY TasksFinite DEF Retained
    <2> QED
      BY <2>1, <2>2, FS_Subset
  <1> QED
    BY <1>3, <1>5, <1>6, <1>7, <1>8, <1>9

(* What does not grow the set of retained tasks keeps their limit. *)
LEMMA RetainedBound ==
    ASSUME AdmissionSafe, Cardinality(Retained') <= Cardinality(Retained),
           Retained' \in SUBSET Tasks, giveUps' \in Nat, giveUps' >= giveUps
    PROVE  Cardinality(Retained') <= MaxTasks + giveUps'
  <1>1. AdmissionTypeOK /\ Retention
    BY AdmissionParts
  <1>2. Cardinality(Retained) \in Nat /\ Cardinality(Retained') \in Nat
    BY TasksFinite DEF Retained
  <1>3. giveUps \in Nat /\ MaxTasks \in Nat
    BY <1>1, AdmissionAssumption DEF AdmissionTypeOK
  <1> QED
    BY <1>1, <1>2, <1>3 DEF Retention

(* The goroutine takes over the slot and the mark of the call that is answered. *)
LEMMA AcceptKeeps ==
    ASSUME AdmissionSafe, Accept
    PROVE  AdmissionSafe'
  <1>1. /\ AdmissionTypeOK /\ FieldTypes /\ SlotsHeld /\ MarksHeld /\ Retention /\ StageReached
        /\ JournalsValid /\ PhaseReached /\ AnswersFit
    BY AdmissionParts
  <1>2. /\ op.stage = "trace" /\ acked' = acked \cup {op.task}
        /\ job' = [job EXCEPT ![op.task] = "run"] /\ op' = Idle
        /\ UNCHANGED <<session, task, journal, approval, running, slots, answer, phase, todo,
                       listing, drawn, overtaken, giveUps, restarts>>
    BY DEF Accept, files, Boot
  <1>3. PICK t \in Tasks : t = op.task
    BY <1>1, <1>2 DEF StageReached
  <1>4. /\ Preparing /\ phase = "up" /\ job[t] = "off" /\ ~journal[t].there
        /\ Exists(t) /\ task[t].of = op.of
    BY <1>1, <1>2, <1>3 DEF StageReached, Preparing
  <1>5. /\ job' \in [Tasks -> {"off", "run", "end", "release"}]
        /\ \A u \in Tasks : job'[u] = IF u = t THEN "run" ELSE job[u]
    BY <1>1, <1>2, <1>3 DEF AdmissionTypeOK
  <1>6. PreparationEnds
    BY <1>2, <1>3, <1>5 DEF PreparationEnds
  <1>7. /\ IdsFresh' /\ StageReached' /\ JournalsValid' /\ Exclusive' /\ AllOrNothing'
        /\ Cardinality(Retained') <= Cardinality(Retained) /\ ~Preparing'
        /\ op'.task = 0 /\ op' = Idle /\ op' \in Operation
    <2>1. Idle \in Operation
      BY AdmissionAssumption DEF Idle, Operation, Stages, Sessions
    <2> QED
      BY <1>2, <1>6, <2>1, PreparationEndsKeeps, IdleStage
  <1>8. SlotsHeld'
    <2>1. Jobs' = Jobs \cup {t} /\ t \notin Jobs /\ Resolving' = Resolving
      BY <1>2, <1>4, <1>5 DEF Jobs, Resolving
    <2>2. /\ IsFiniteSet(Jobs) /\ Cardinality(Jobs) \in Nat /\ Cardinality(Resolving) \in Nat
      BY TasksFinite, ResolversFinite DEF Jobs, Resolving
    <2>3. Cardinality(Jobs') = Cardinality(Jobs) + 1
      BY <2>1, <2>2, FS_AddElement
    <2> QED
      BY <1>1, <1>2, <1>4, <1>7, <2>1, <2>2, <2>3 DEF SlotsHeld
  <1>9. MarksHeld'
    <2>1. Marks' = Marks \cup {t} /\ t \notin Marks
      BY <1>4, <1>5 DEF Marks
    <2>2. {task[u].of : u \in Marks \cup {t}} = {task[u].of : u \in Marks} \cup {task[t].of}
      OBVIOUS
    <2>3. running' = {task'[u].of : u \in Marks'}
      BY <1>1, <1>2, <1>4, <2>1, <2>2 DEF MarksHeld
    <2>4. \A u, v \in Marks \cup {t} : task[u].of = task[v].of => u = v
      BY <1>1, <1>4 DEF MarksHeld
    <2> QED
      BY <1>2, <1>7, <2>1, <2>3, <2>4 DEF MarksHeld
  <1>10. Retention'
    <2>1. Abandoned' = Abandoned
      BY <1>2, <1>3, <1>4, <1>7, AdmissionAssumption DEF Abandoned, Tasks
    <2>2. Retained' \in SUBSET Tasks
      BY DEF Retained
    <2>3. giveUps' \in Nat /\ giveUps' >= giveUps
      BY <1>1, <1>2 DEF AdmissionTypeOK
    <2> QED
      BY <1>1, <1>2, <1>7, <2>1, <2>2, <2>3, RetainedBound DEF Retention
  <1>11. AdmissionTypeOK'
    BY <1>1, <1>2, <1>3, <1>5, <1>7 DEF AdmissionTypeOK
  <1>12. PhaseReached' /\ AnswersFit'
    BY <1>1, <1>2, <1>4 DEF PhaseReached, AnswersFit, Exists
  <1> QED
    BY <1>7, <1>8, <1>9, <1>10, <1>11, <1>12 DEF AdmissionSafe, AdmissionInv

(* A call that is given up gives slot and mark back and may leave its journal. *)
LEMMA PrepareFailsKeeps ==
    ASSUME AdmissionSafe, PrepareFails
    PROVE  AdmissionSafe'
  <1>1. /\ AdmissionTypeOK /\ FieldTypes /\ SlotsHeld /\ MarksHeld /\ Retention /\ StageReached
        /\ PhaseReached /\ AnswersFit
    BY AdmissionParts
  <1>2. /\ Preparing /\ giveUps' = giveUps + 1 /\ op' = Idle
        /\ running' = running \ {op.of} /\ slots' = slots - 1
        /\ UNCHANGED <<session, task, journal, approval, job, answer, phase, todo,
                       listing, drawn, acked, overtaken, restarts>>
    BY DEF PrepareFails, GiveUp, Preparing, files, Boot
  <1>3. PreparationEnds
    BY <1>2 DEF PreparationEnds
  <1>4. /\ IdsFresh' /\ StageReached' /\ JournalsValid' /\ Exclusive' /\ AllOrNothing'
        /\ Cardinality(Retained') <= Cardinality(Retained) /\ ~Preparing'
        /\ op'.task = 0 /\ op' \in Operation
    <2>1. Idle \in Operation
      BY AdmissionAssumption DEF Idle, Operation, Stages, Sessions
    <2> QED
      BY <1>2, <1>3, <2>1, PreparationEndsKeeps, IdleStage
  <1>5. giveUps \in Nat /\ giveUps' \in Nat /\ giveUps' >= giveUps
    BY <1>1, <1>2 DEF AdmissionTypeOK
  <1>6. SlotsHeld' /\ slots' \in 0..MaxConcurrentTasks
    <2>1. Jobs' = Jobs /\ Resolving' = Resolving
      BY <1>2 DEF Jobs, Resolving
    <2>2. Cardinality(Jobs) \in Nat /\ Cardinality(Resolving) \in Nat
      BY TasksFinite, ResolversFinite DEF Jobs, Resolving
    <2>3. slots \in 0..MaxConcurrentTasks /\ MaxConcurrentTasks \in Nat
      BY <1>1, AdmissionAssumption DEF AdmissionTypeOK
    <2> QED
      BY <1>1, <1>2, <1>4, <2>1, <2>2, <2>3 DEF SlotsHeld
  <1>7. MarksHeld'
    <2>1. Marks' = Marks
      BY <1>2 DEF Marks
    <2>2. running' = {task'[u].of : u \in Marks'}
      BY <1>1, <1>2, <2>1 DEF MarksHeld
    <2> QED
      BY <1>1, <1>2, <1>4, <2>1, <2>2 DEF MarksHeld
  <1>8. Retention'
    <2>1. Abandoned' \subseteq Abandoned \cup {op.task}
      BY <1>2 DEF Abandoned
    <2>2. IsFiniteSet(Abandoned) /\ Cardinality(Abandoned) \in Nat /\ Cardinality(Abandoned') \in Nat
      BY TasksFinite DEF Abandoned
    <2>3. /\ IsFiniteSet(Abandoned \cup {op.task})
          /\ Cardinality(Abandoned \cup {op.task}) <= Cardinality(Abandoned) + 1
      BY <2>2, FS_AddElement
    <2>4. Cardinality(Abandoned') <= Cardinality(Abandoned \cup {op.task})
      BY <2>1, <2>3, FS_Subset
    <2>5. Cardinality(Abandoned \cup {op.task}) \in Nat
      BY <2>3, FS_CardinalityType
    <2>6. phase' = "up" => Cardinality(Abandoned') <= giveUps'
      BY <1>1, <1>2, <1>5, <2>2, <2>3, <2>4, <2>5 DEF Retention
    <2>7. Retained' \in SUBSET Tasks
      BY DEF Retained
    <2> QED
      BY <1>4, <1>5, <2>6, <2>7, RetainedBound DEF Retention
  <1>9. AdmissionTypeOK'
    BY <1>1, <1>2, <1>4, <1>5, <1>6 DEF AdmissionTypeOK
  <1>10. PhaseReached' /\ AnswersFit'
    <2>1. phase = "up"
      BY <1>1, <1>2 DEF StageReached
    <2> QED
      BY <1>1, <1>2, <2>1 DEF PhaseReached, AnswersFit, Exists
  <1> QED
    BY <1>4, <1>6, <1>7, <1>8, <1>9, <1>10 DEF AdmissionSafe, AdmissionInv

(* The end of the process frees all that was held and leaves the files. *)
LEMMA CrashKeeps ==
    ASSUME AdmissionSafe, Crash
    PROVE  AdmissionSafe'
  <1>1. /\ AdmissionTypeOK /\ FieldTypes /\ AnswersFit
    BY AdmissionParts
  <1>2. /\ phase' = "down" /\ todo' = {} /\ listing' = FALSE
        /\ op' = Idle /\ running' = {} /\ slots' = 0
        /\ job' = [t \in Tasks |-> "off"] /\ answer' = [h \in Threads |-> NoAnswer]
        /\ UNCHANGED <<session, task, journal, approval, drawn, acked, overtaken, giveUps>>
    BY DEF Crash, files
  <1>3. PreparationEnds
    BY <1>2 DEF PreparationEnds
  <1>4. /\ IdsFresh' /\ StageReached' /\ JournalsValid' /\ Exclusive' /\ AllOrNothing'
        /\ Cardinality(Retained') <= Cardinality(Retained) /\ ~Preparing' /\ op' \in Operation
    <2>1. Idle \in Operation
      BY AdmissionAssumption DEF Idle, Operation, Stages, Sessions
    <2> QED
      BY <1>2, <1>3, <2>1, PreparationEndsKeeps
  <1>5. \A h \in Threads : answer'[h].at = "off" /\ answer'[h] \in Answer
    BY <1>2, AnswerGone
  <1>6. SlotsHeld' /\ MarksHeld'
    <2>1. Jobs' = {} /\ Resolving' = {} /\ Marks' = {}
      BY <1>2, <1>5 DEF Jobs, Resolving, Marks, Threads
    <2>2. Cardinality({}) = 0
      BY FS_EmptySet
    <2>3. SlotsHeld'
      BY <1>2, <1>4, <2>1, <2>2 DEF SlotsHeld
    <2>4. MarksHeld'
      BY <1>2, <1>4, <2>1 DEF MarksHeld
    <2> QED
      BY <2>3, <2>4
  <1>7. Retention'
    <2>1. Retained' \in SUBSET Tasks
      BY DEF Retained
    <2>2. giveUps' \in Nat /\ giveUps' >= giveUps
      BY <1>1, <1>2 DEF AdmissionTypeOK
    <2> QED
      BY <1>2, <1>4, <2>1, <2>2, RetainedBound DEF Retention
  <1>8. AdmissionTypeOK'
    <2>1. answer' \in [Threads -> Answer] /\ job' \in [Tasks -> {"off", "run", "end", "release"}]
      BY <1>2, AnswerGone
    <2>2. slots' \in 0..MaxConcurrentTasks
      BY <1>2, AdmissionAssumption
    <2> QED
      BY <1>1, <1>2, <1>4, <2>1, <2>2 DEF AdmissionTypeOK
  <1>9. PhaseReached'
    BY <1>2, <1>5 DEF PhaseReached, Threads
  <1>10. AnswersFit'
    BY <1>1, <1>2, <1>5 DEF AnswersFit, Exists
  <1> QED
    BY <1>4, <1>6, <1>7, <1>8, <1>9, <1>10 DEF AdmissionSafe, AdmissionInv

(* The start goes on to its next phase; no journal is left and nothing is prepared. *)
LEMMA PhaseKeeps ==
    ASSUME AdmissionSafe, NewFileStore \/ Serve
    PROVE  AdmissionSafe'
  <1>1. /\ AdmissionTypeOK /\ FieldTypes /\ SlotsHeld /\ MarksHeld /\ PhaseReached /\ AnswersFit
    BY AdmissionParts
  <1>2. /\ op = Idle /\ \A t \in Tasks : ~journal[t].there
        /\ UNCHANGED <<session, task, journal, approval, op, running, slots, job, answer,
                       drawn, acked, overtaken, giveUps, restarts>>
    BY <1>1 DEF NewFileStore, Serve, PhaseReached, files, Held, history
  <1>3. PreparationEnds
    BY <1>2 DEF PreparationEnds
  <1>4. /\ IdsFresh' /\ StageReached' /\ JournalsValid' /\ Exclusive' /\ AllOrNothing'
        /\ Cardinality(Retained') <= Cardinality(Retained)
    BY <1>3, PreparationEndsKeeps
  <1>5. SlotsHeld' /\ MarksHeld'
    <2>1. Jobs' = Jobs /\ Marks' = Marks /\ Resolving' = Resolving /\ (Preparing' <=> Preparing)
      BY <1>2 DEF Jobs, Marks, Resolving, Preparing
    <2> QED
      BY <1>1, <1>2, <2>1, SameSlots, SameMarks
  <1>6. Retention'
    <2>1. Retained' \in SUBSET Tasks /\ Abandoned' = {}
      BY <1>2 DEF Retained, Abandoned
    <2>2. giveUps' \in Nat /\ giveUps' >= giveUps /\ Cardinality({}) = 0
      BY <1>1, <1>2, FS_EmptySet DEF AdmissionTypeOK
    <2> QED
      BY <1>4, <2>1, <2>2, RetainedBound DEF Retention
  <1>7. AdmissionTypeOK'
    BY <1>1, <1>2 DEF AdmissionTypeOK, NewFileStore, Serve, ToResume
  <1>8. PhaseReached'
    <2>1. CASE NewFileStore
      BY <1>1, <1>2, <2>1 DEF NewFileStore, PhaseReached, ToResume
    <2>2. CASE Serve
      BY <1>1, <1>2, <2>2 DEF Serve, PhaseReached
    <2> QED
      BY <2>1, <2>2
  <1>9. AnswersFit'
    BY <1>1, <1>2 DEF AnswersFit, Exists
  <1> QED
    BY <1>4, <1>5, <1>6, <1>7, <1>8, <1>9 DEF AdmissionSafe, AdmissionInv

(* The recovery turns to one of the journals. *)
LEMMA RecoverJournalKeeps ==
    ASSUME AdmissionSafe, NEW t \in Tasks, RecoverJournal(t)
    PROVE  AdmissionSafe'
  <1>1. /\ AdmissionTypeOK /\ FieldTypes /\ SlotsHeld /\ MarksHeld /\ Retention /\ IdsFresh
        /\ JournalsValid /\ PhaseReached /\ AnswersFit /\ Exclusive /\ AllOrNothing
    BY AdmissionParts
  <1>2. /\ phase = "down" /\ op = Idle /\ journal[t].there
        /\ op' = [stage |-> "rtask", task |-> t, of |-> journal[t].of]
        /\ UNCHANGED <<session, task, journal, approval, running, slots, job, answer, phase, todo,
                       listing, drawn, acked, overtaken, giveUps, restarts>>
    BY DEF RecoverJournal, files, Held, Boot, history
  <1>3. /\ op'.stage = "rtask" /\ op'.task = t /\ op'.of = journal[t].of /\ op' \in Operation
        /\ op.stage = "idle" /\ op.task = 0 /\ ~Preparing /\ ~Preparing'
    <2>1. t \in 0..MaxDrawn /\ journal[t].of \in Sessions
      BY <1>1, AdmissionAssumption DEF Tasks, FieldTypes
    <2> QED
      BY <1>2, <2>1 DEF Operation, Stages, Recovering, Idle, Preparing, Writing
  <1>4. /\ \A u \in Tasks : (Exists(u)' <=> Exists(u)) /\ (Unfinished(u)' <=> Unfinished(u))
        /\ \A u \in Tasks : Unused(u)' <=> Unused(u)
    BY <1>2, <1>3 DEF Exists, Unfinished, Unused
  <1>5. SlotsHeld' /\ MarksHeld'
    <2>1. Jobs' = Jobs /\ Marks' = Marks /\ Resolving' = Resolving
      BY <1>2 DEF Jobs, Marks, Resolving
    <2>2. MarksHeld'
      BY <1>1, <1>2, <1>3, <2>1 DEF MarksHeld
    <2> QED
      BY <1>1, <1>2, <1>3, <2>1, <2>2, SameSlots
  <1>6. Retention'
    <2>1. Retained' = Retained
      BY <1>2, <1>3, <1>4 DEF Retained
    <2> QED
      BY <1>1, <1>2, <2>1 DEF Retention
  <1>7. IdsFresh'
    BY <1>1, <1>2, <1>4 DEF IdsFresh
  <1>8. StageReached'
    BY <1>2, <1>3 DEF StageReached, Recovering, Writing
  <1>9. JournalsValid'
    BY <1>1, <1>2, <1>4 DEF JournalsValid, JournalApplies, UnfinishedOf
  <1>10. Exclusive' /\ AllOrNothing'
    <2>1. AllOrNothing'
      BY <1>1, <1>2, <1>3, <1>4, AdmissionAssumption DEF AllOrNothing, Tasks
    <2> QED
      BY <1>1, <1>2, <1>4, <2>1 DEF Exclusive
  <1>11. AdmissionTypeOK'
    BY <1>1, <1>2, <1>3 DEF AdmissionTypeOK
  <1>12. PhaseReached' /\ AnswersFit'
    BY <1>1, <1>2 DEF PhaseReached, AnswersFit, Exists
  <1> QED
    BY <1>5, <1>6, <1>7, <1>8, <1>9, <1>10, <1>11, <1>12 DEF AdmissionSafe, AdmissionInv

(* What a session's own record may become while nothing is prepared. *)
SessionEdited ==
    /\ session' \in [Sessions -> Session] /\ op = Idle /\ phase = "up"
    /\ \A s \in Sessions : session'[s].messages = session[s].messages
    /\ overtaken' \in BOOLEAN /\ (~overtaken' => ~overtaken)
    /\ ~overtaken' => \A t \in Tasks : journal[t].there => session'[journal[t].of] = session[journal[t].of]
    /\ ~overtaken' => \A t \in Tasks : Unfinished(t) => ~session'[task[t].of].archived
    /\ UNCHANGED <<task, journal, approval, op, running, slots, job, answer, phase, todo, listing,
                   drawn, acked, giveUps, restarts>>

(* Such a change keeps the invariant. *)
LEMMA SessionEditedKeeps ==
    ASSUME AdmissionSafe, SessionEdited
    PROVE  AdmissionSafe'
  <1>1. /\ AdmissionTypeOK /\ FieldTypes /\ SlotsHeld /\ MarksHeld /\ Retention /\ IdsFresh
        /\ JournalsValid /\ PhaseReached /\ AnswersFit /\ Exclusive /\ AllOrNothing
    BY AdmissionParts
  <1>2. /\ \A u \in Tasks : (Exists(u)' <=> Exists(u)) /\ (Unfinished(u)' <=> Unfinished(u))
        /\ \A u \in Tasks : Unused(u)' <=> Unused(u)
        /\ Preparing' <=> Preparing
    BY DEF SessionEdited, Exists, Unfinished, Unused, Preparing
  <1>3. SlotsHeld' /\ MarksHeld'
    <2>1. Jobs' = Jobs /\ Marks' = Marks /\ Resolving' = Resolving
      BY DEF SessionEdited, Jobs, Marks, Resolving
    <2> QED
      BY <1>1, <1>2, <2>1, SameSlots, SameMarks DEF SessionEdited
  <1>4. Retention'
    <2>1. Retained' = Retained /\ Abandoned' = Abandoned
      BY <1>2 DEF SessionEdited, Retained, Abandoned
    <2> QED
      BY <1>1, <2>1 DEF SessionEdited, Retention
  <1>5. IdsFresh' /\ AllOrNothing'
    BY <1>1, <1>2 DEF SessionEdited, IdsFresh, AllOrNothing
  <1>6. StageReached'
    BY IdleStage DEF SessionEdited
  <1>7. JournalsValid'
    <2>1. \A u \in Tasks : ~overtaken' /\ journal[u].there /\ JournalApplies(u) => JournalApplies(u)'
      BY <1>2 DEF SessionEdited, JournalApplies, UnfinishedOf
    <2> QED
      BY <1>1, <1>2, <2>1 DEF SessionEdited, JournalsValid
  <1>8. Exclusive'
    BY <1>1, <1>2 DEF SessionEdited, Exclusive
  <1>9. AdmissionTypeOK'
    BY <1>1 DEF SessionEdited, AdmissionTypeOK
  <1>10. PhaseReached'
    BY <1>1 DEF SessionEdited, PhaseReached
  <1>11. AnswersFit'
    BY <1>1, <1>2 DEF SessionEdited, AnswersFit
  <1> QED
    BY <1>3, <1>4, <1>5, <1>6, <1>7, <1>8, <1>9, <1>10, <1>11 DEF AdmissionSafe, AdmissionInv

(* A new session: no journal that still applies is for one that is not there. *)
LEMMA CreateSessionKeeps ==
    ASSUME AdmissionSafe, CreateSession
    PROVE  AdmissionSafe'
  <1>1. AdmissionTypeOK /\ FieldTypes /\ JournalsValid /\ Exclusive
    BY AdmissionParts
  <1>2. PICK k : k = Cardinality({s \in Sessions : session[s].there}) + 1
    OBVIOUS
  <1>3. /\ phase = "up" /\ op = Idle /\ session' = [session EXCEPT ![k].there = TRUE]
        /\ UNCHANGED <<task, journal, approval, op, running, slots, job, answer, phase, todo, listing,
                       drawn, acked, overtaken, giveUps, restarts>>
    BY <1>2 DEF CreateSession, memory, history
  <1>4. k \in Sessions
    <2>1. {s \in Sessions : session[s].there} \in SUBSET Sessions /\ MaxSessions \in Int
      BY AdmissionAssumption
    <2>5. IsFiniteSet(Sessions)
      BY <2>1, FS_Interval DEF Sessions
    <2>2. IsFiniteSet({s \in Sessions : session[s].there})
      BY <2>1, <2>5, FS_Subset
    <2>3. Cardinality({s \in Sessions : session[s].there}) \in Nat
      BY <2>2, FS_CardinalityType
    <2>4. Cardinality({s \in Sessions : session[s].there}) < MaxSessions
      BY DEF CreateSession
    <2> QED
      BY <1>2, <2>1, <2>3, <2>4 DEF Sessions
  <1>5. /\ session' \in [Sessions -> Session]
        /\ \A s \in Sessions : /\ session'[s].messages = session[s].messages
                               /\ session'[s].archived = session[s].archived
                               /\ s # k => session'[s] = session[s]
        /\ session[k].there => session'[k] = session[k]
    BY <1>1, <1>3, <1>4 DEF AdmissionTypeOK, Session
  <1>6. ~overtaken => \A t \in Tasks : journal[t].there => session[journal[t].of].there
    <2> SUFFICES ASSUME ~overtaken, NEW t \in Tasks, journal[t].there
                 PROVE  session[journal[t].of].there
      OBVIOUS
    <2>1. journal[t].copy.there /\ JournalApplies(t)
      BY <1>1 DEF JournalsValid
    <2>2. journal[t].copy = [session[journal[t].of] EXCEPT !.messages = @ \cup {t}]
      BY <2>1 DEF JournalApplies
    <2>3. journal[t].copy \in Session /\ session[journal[t].of] \in Session
      BY <1>1 DEF FieldTypes
    <2> QED
      BY <2>1, <2>2, <2>3, CopyFields
  <1>7. SessionEdited
    BY <1>1, <1>3, <1>5, <1>6 DEF SessionEdited, AdmissionTypeOK, FieldTypes, Exclusive
  <1> QED
    BY <1>7, SessionEditedKeeps

(* A session is renamed, archived or restored; it is archived only when it is free. *)
LEMMA UpdateSessionKeeps ==
    ASSUME AdmissionSafe, NEW s \in Sessions, NEW archive \in BOOLEAN, UpdateSession(s, archive)
    PROVE  AdmissionSafe'
  <1>1. AdmissionTypeOK /\ FieldTypes /\ JournalsValid /\ Exclusive
    BY AdmissionParts
  <1>2. /\ phase = "up" /\ op = Idle /\ session' = [session EXCEPT ![s].archived = archive]
        /\ archive => UnfinishedOf(s) = {}
        /\ Overtakes(s, 0)
        /\ UNCHANGED <<task, journal, approval, op, running, slots, job, answer, phase, todo, listing,
                       drawn, acked, giveUps, restarts>>
    BY DEF UpdateSession, memory
  <1>3. /\ session' \in [Sessions -> Session]
        /\ \A q \in Sessions : /\ session'[q].messages = session[q].messages
                               /\ q # s => session'[q] = session[q]
        /\ session'[s].archived = archive
    BY <1>1, <1>2 DEF AdmissionTypeOK, Session
  <1>4. /\ overtaken' \in BOOLEAN
        /\ ~overtaken' => ~overtaken
        /\ ~overtaken' => \A u \in Tasks : u # 0 => ~(journal[u].there /\ journal[u].of = s)
    BY <1>1, <1>2, OvertakesFacts
  <1>5. ~overtaken' => \A t \in Tasks : journal[t].there => session'[journal[t].of] = session[journal[t].of]
    <2>1. \A t \in Tasks : t # 0 /\ journal[t].of \in Sessions
      BY <1>1, AdmissionAssumption DEF Tasks, FieldTypes
    <2> QED
      BY <1>3, <1>4, <2>1
  <1>6. ~overtaken' => \A t \in Tasks : Unfinished(t) => ~session'[task[t].of].archived
    <2>1. archive => \A t \in Tasks : Unfinished(t) => task[t].of # s
      BY <1>2 DEF UnfinishedOf
    <2>2. \A t \in Tasks : task[t].of \in Sessions
      BY <1>1 DEF FieldTypes
    <2> QED
      BY <1>1, <1>3, <1>4, <2>1, <2>2 DEF Exclusive
  <1>7. SessionEdited
    BY <1>2, <1>3, <1>4, <1>5, <1>6 DEF SessionEdited
  <1> QED
    BY <1>7, SessionEditedKeeps

-----------------------------------------------------------------------------
(* A message is admitted: its id is fresh, its session free and unmarked, a slot free. *)
LEMMA CreateMessageKeeps ==
    ASSUME AdmissionSafe, NEW s \in Sessions, CreateMessage(s)
    PROVE  AdmissionSafe'
  <1>1. /\ AdmissionTypeOK /\ FieldTypes /\ SlotsHeld /\ MarksHeld /\ Retention /\ IdsFresh
        /\ JournalsValid /\ PhaseReached /\ AnswersFit /\ Exclusive /\ AllOrNothing
    BY AdmissionParts
  <1>2. PICK b \in Tasks : b = drawn + 1 /\ b > drawn
    BY <1>1, AdmissionAssumption DEF CreateMessage, Tasks, AdmissionTypeOK
  <1>3. /\ phase = "up" /\ op = Idle /\ drawn' = b
        /\ session[s].there /\ ~session[s].archived /\ s \notin running /\ UnfinishedOf(s) = {}
        /\ Cardinality({t \in Tasks : Exists(t)}) < MaxTasks
        /\ slots < MaxConcurrentTasks /\ slots' = slots + 1 /\ running' = running \cup {s}
        /\ op' = [stage |-> "prepare", task |-> b, of |-> s]
        /\ UNCHANGED <<session, task, journal, approval, job, answer, phase, todo, listing,
                       acked, overtaken, giveUps, restarts>>
    BY <1>2 DEF CreateMessage, Admissible, SlotFree, files, Boot
  <1>4. /\ op'.stage = "prepare" /\ op'.task = b /\ op'.of = s /\ op' \in Operation
        /\ op.task = 0 /\ ~Preparing /\ Preparing'
    <2>1. b \in 0..MaxDrawn
      BY AdmissionAssumption DEF Tasks
    <2> QED
      BY <1>3, <2>1 DEF Operation, Stages, Idle, Preparing, Writing
  <1>5. \A u \in Tasks : (Exists(u)' <=> Exists(u)) /\ (Unfinished(u)' <=> Unfinished(u))
    BY <1>3 DEF Exists, Unfinished
  <1>6. /\ ~Exists(b) /\ ~journal[b].there /\ job[b] = "off" /\ approval[b].n = 0
        /\ \A q \in Sessions : b \notin session[q].messages
        /\ \A u \in Tasks : b \notin journal[u].copy.messages
    BY <1>1, <1>2 DEF IdsFresh, Unused
  <1>7. SlotsHeld' /\ slots' \in 0..MaxConcurrentTasks
    <2>1. Jobs' = Jobs /\ Resolving' = Resolving
      BY <1>3 DEF Jobs, Resolving
    <2>2. Cardinality(Jobs) \in Nat /\ Cardinality(Resolving) \in Nat
      BY TasksFinite, ResolversFinite DEF Jobs, Resolving
    <2>3. slots \in 0..MaxConcurrentTasks /\ MaxConcurrentTasks \in Nat
      BY <1>1, AdmissionAssumption DEF AdmissionTypeOK
    <2> QED
      BY <1>1, <1>3, <1>4, <2>1, <2>2, <2>3 DEF SlotsHeld
  <1>8. MarksHeld'
    <2>1. Marks' = Marks
      BY <1>3 DEF Marks
    <2>2. running' = {task'[u].of : u \in Marks'} \cup {op'.of}
      BY <1>1, <1>3, <1>4, <2>1 DEF MarksHeld
    <2>3. \A u \in Marks : task[u].of # s
      BY <1>1, <1>3, <1>4 DEF MarksHeld
    <2> QED
      BY <1>1, <1>3, <1>4, <2>1, <2>2, <2>3 DEF MarksHeld
  <1>9. Retention'
    <2>1. PICK E \in SUBSET Tasks : E = {t \in Tasks : Exists(t)}
      OBVIOUS
    <2>2. Abandoned = {t \in Tasks : journal[t].there} /\ Abandoned \in SUBSET Tasks
      BY <1>4, AdmissionAssumption DEF Abandoned, Tasks
    <2>3. Retained' = (E \cup Abandoned) \cup {b} /\ Abandoned' = Abandoned
      BY <1>3, <1>4, <1>5, <1>6, <2>1, <2>2 DEF Retained, Abandoned
    <2>4. /\ IsFiniteSet(E) /\ IsFiniteSet(Abandoned) /\ Cardinality(E) \in Nat
          /\ Cardinality(Abandoned) \in Nat
      BY <2>1, <2>2, TasksFinite
    <2>5. /\ IsFiniteSet(E \cup Abandoned) /\ IsFiniteSet(E \cap Abandoned)
          /\ Cardinality(E \cup Abandoned)
               = Cardinality(E) + Cardinality(Abandoned) - Cardinality(E \cap Abandoned)
      BY <2>4, FS_Union, FS_Intersection
    <2>6. Cardinality(E \cap Abandoned) \in Nat /\ Cardinality(E \cup Abandoned) \in Nat
      BY <2>5, FS_CardinalityType
    <2>7. Cardinality(Retained') <= Cardinality(E \cup Abandoned) + 1 /\ Cardinality(Retained') \in Nat
      <3>1. PICK U : U = E \cup Abandoned
        OBVIOUS
      <3>2. /\ IsFiniteSet(U \cup {b})
            /\ Cardinality(U \cup {b}) = IF b \in U THEN Cardinality(U) ELSE Cardinality(U) + 1
        BY <2>5, <3>1, FS_AddElement
      <3> QED
        BY <2>3, <2>6, <3>1, <3>2
    <2>8. giveUps \in Nat /\ MaxTasks \in Nat
      BY <1>1, AdmissionAssumption DEF AdmissionTypeOK
    <2>9. Cardinality(E) < MaxTasks /\ Cardinality(Abandoned) <= giveUps
      BY <1>1, <1>3, <2>1 DEF Retention
    <2> QED
      BY <1>3, <2>3, <2>4, <2>5, <2>6, <2>7, <2>8, <2>9 DEF Retention
  <1>10. IdsFresh'
    <2>1. \A u \in Tasks : Unused(u)' => Unused(u)
      BY <1>1, <1>2, <1>3, <1>4 DEF Unused, Tasks, AdmissionTypeOK
    <2> QED
      BY <1>1, <1>3, <1>5, <2>1 DEF IdsFresh
  <1>11. StageReached'
    <2>1. UnfinishedOf(op.of)' = UnfinishedOf(s)
      BY <1>3, <1>4 DEF UnfinishedOf, Unfinished
    <2> QED
      BY <1>3, <1>4, <1>6, <2>1 DEF StageReached, Recovering, Writing
  <1>12. JournalsValid'
    BY <1>1, <1>3, <1>5 DEF JournalsValid, JournalApplies, UnfinishedOf
  <1>13. Exclusive'
    BY <1>1, <1>3, <1>5 DEF Exclusive
  <1>14. AllOrNothing'
    <2>1. \A u \in Tasks : u # 0
      BY AdmissionAssumption DEF Tasks
    <2> QED
      BY <1>1, <1>3, <1>4, <1>5, <2>1 DEF AllOrNothing
  <1>15. AdmissionTypeOK'
    <2>1. drawn' \in 0..MaxDrawn
      BY <1>3, AdmissionAssumption DEF Tasks
    <2> QED
      BY <1>1, <1>3, <1>4, <1>7, <2>1 DEF AdmissionTypeOK
  <1>16. PhaseReached' /\ AnswersFit'
    BY <1>1, <1>3 DEF PhaseReached, AnswersFit, Exists
  <1> QED
    BY <1>7, <1>8, <1>9, <1>10, <1>11, <1>12, <1>13, <1>14, <1>15, <1>16
    DEF AdmissionSafe, AdmissionInv

(* The writes of a preparation and of a recovery leave what the goroutines hold. *)
StageMoves(stage) ==
    /\ op' \in Operation /\ op'.stage = stage /\ op'.task = op.task /\ op'.of = op.of
    /\ UNCHANGED <<approval, running, slots, job, answer, phase, todo, listing,
                   drawn, acked, giveUps, restarts>>

(* The next stage of the same preparation. *)
LEMMA GotoStage ==
    ASSUME AdmissionTypeOK, NEW stage \in Stages, Goto(stage)
    PROVE  op' \in Operation /\ op'.stage = stage /\ op'.task = op.task /\ op'.of = op.of
    BY DEF Goto, AdmissionTypeOK, Operation

(* Slots and marks do not depend on how far a preparation is. *)
LEMMA StageMovesKeeps ==
    ASSUME AdmissionSafe, NEW stage \in Stages, StageMoves(stage), Preparing' <=> Preparing,
           \A u \in Tasks : job[u] # "off" => task'[u].of = task[u].of
    PROVE  SlotsHeld' /\ MarksHeld'
  <1>1. SlotsHeld /\ MarksHeld
    BY AdmissionParts
  <1>2. Jobs' = Jobs /\ Marks' = Marks /\ Resolving' = Resolving
    BY DEF StageMoves, Jobs, Marks, Resolving
  <1>3. \A u \in Marks : task'[u].of = task[u].of
    BY DEF Marks
  <1>4. {task'[u].of : u \in Marks} = {task[u].of : u \in Marks}
    BY <1>3
  <1>5. MarksHeld'
    BY <1>1, <1>2, <1>3, <1>4 DEF MarksHeld, StageMoves
  <1> QED
    BY <1>1, <1>2, <1>5, SameSlots DEF StageMoves

(* SaveJournal: the new journal applies, for its id is fresh and its session is free. *)
LEMMA SaveJournalKeeps ==
    ASSUME AdmissionSafe, SaveJournal
    PROVE  AdmissionSafe'
  <1>1. /\ AdmissionTypeOK /\ FieldTypes /\ Retention /\ IdsFresh /\ StageReached
        /\ JournalsValid /\ PhaseReached /\ AnswersFit /\ Exclusive /\ AllOrNothing
    BY AdmissionParts
  <1>2. PICK s \in Sessions : s = op.of
    BY <1>1 DEF FieldTypes
  <1>3. PICK t \in Tasks : t = op.task
    BY <1>1 DEF SaveJournal, StageReached
  <1>4. PICK c \in Session : c = [session[s] EXCEPT !.messages = @ \cup {t}]
    BY <1>1, CopyType DEF FieldTypes
  <1>5. /\ op.stage = "prepare" /\ journal' = [journal EXCEPT ![t] = [there |-> TRUE, of |-> s, copy |-> c]]
        /\ Overtakes(s, t) /\ session' = session /\ task' = task /\ Goto("task")
        /\ UNCHANGED <<approval, running, slots, job, answer, phase, todo, listing,
                       drawn, acked, giveUps, restarts>>
    BY <1>2, <1>3, <1>4 DEF SaveJournal, Held, Boot
  <1>6. /\ c.there = session[s].there /\ c.archived = session[s].archived
        /\ c.messages = session[s].messages \cup {t}
    BY <1>1, <1>4, CopyFields DEF FieldTypes
  <1>7. /\ journal' \in [Tasks -> Journal]
        /\ \A u \in Tasks : u # t => journal'[u] = journal[u]
        /\ journal'[t].there /\ journal'[t].of = s /\ journal'[t].copy = c
    BY <1>1, <1>5 DEF AdmissionTypeOK, Journal
  <1>8. StageMoves("task") /\ Preparing /\ Preparing'
    <2>1. "task" \in Stages
      BY DEF Stages, Writing
    <2> QED
      BY <1>1, <1>5, <2>1, GotoStage DEF StageMoves, Preparing, Writing
  <1>9. /\ op'.stage = "task" /\ op'.task = t /\ op'.of = s /\ op' \in Operation
    BY <1>2, <1>3, <1>8 DEF StageMoves
  <1>10. /\ phase = "up" /\ t = drawn /\ job[t] = "off" /\ session[s].there /\ ~session[s].archived
         /\ ~overtaken => UnfinishedOf(s) = {}
    BY <1>1, <1>2, <1>3, <1>5, <1>8 DEF StageReached
  <1>11. ~Exists(t) /\ task[t].state = "NONE" /\ ~journal[t].there /\ approval[t].n = 0
    BY <1>1, <1>3, <1>5 DEF IdsFresh, Unused, Exists
  <1>12. /\ overtaken' \in BOOLEAN
         /\ ~overtaken' => ~overtaken
         /\ ~overtaken' => \A u \in Tasks : u # t => ~(journal[u].there /\ journal[u].of = s)
    BY <1>1, <1>5, OvertakesFacts
  <1>13. \A u \in Tasks : (Exists(u)' <=> Exists(u)) /\ (Unfinished(u)' <=> Unfinished(u))
    BY <1>5 DEF Exists, Unfinished
  <1>14. SlotsHeld' /\ MarksHeld'
    <2>1. "task" \in Stages
      BY DEF Stages, Writing
    <2> QED
      BY <1>5, <1>8, <2>1, StageMovesKeeps
  <1>15. Retention'
    <2>1. Retained' = Retained /\ Abandoned' = Abandoned
      BY <1>3, <1>7, <1>8, <1>9, <1>13 DEF Retained, Abandoned
    <2> QED
      BY <1>1, <1>5, <2>1 DEF Retention
  <1>16. IdsFresh'
    <2>1. \A u \in Tasks : Unused(u)' => Unused(u) /\ u # t
      BY <1>1, <1>5, <1>9, <1>10, AdmissionAssumption DEF Unused, Tasks, AdmissionTypeOK
    <2> QED
      BY <1>1, <1>5, <1>6, <1>7, <1>13, <2>1 DEF IdsFresh
  <1>17. StageReached'
    BY <1>5, <1>7, <1>9, <1>10 DEF StageReached, Preparing, Recovering, Writing
  <1>18. JournalsValid'
    <2> SUFFICES ASSUME NEW u \in Tasks, journal'[u].there
                 PROVE  /\ job'[u] = "off" /\ u \in journal'[u].copy.messages
                        /\ journal'[u].copy.there /\ ~journal'[u].copy.archived
                        /\ Exists(u)' => task'[u].of = journal'[u].of
                        /\ ~overtaken' => JournalApplies(u)'
      BY DEF JournalsValid
    <2>1. CASE u = t
      <3>1. ASSUME ~overtaken' PROVE JournalApplies(t)'
        <4>1. UnfinishedOf(s) = {} /\ UnfinishedOf(journal[t].of)' = UnfinishedOf(s)
          BY <1>5, <1>7, <1>10, <1>12, <3>1 DEF UnfinishedOf, Unfinished
        <4>2. \A v \in Tasks : journal'[v].there /\ journal'[v].of = s => v = t
          BY <1>7, <1>12, <3>1
        <4> QED
          BY <1>4, <1>5, <1>7, <1>10, <1>11, <4>1, <4>2 DEF JournalApplies
      <3> QED
        BY <1>5, <1>6, <1>7, <1>10, <1>11, <1>13, <2>1, <3>1
    <2>2. CASE u # t
      <3>1. journal'[u] = journal[u] /\ journal[u].there
        BY <1>7, <2>2
      <3>2. ASSUME ~overtaken' PROVE JournalApplies(u)'
        <4>1. JournalApplies(u) /\ journal[u].of # s
          BY <1>1, <1>12, <2>2, <3>1, <3>2 DEF JournalsValid
        <4>2. UnfinishedOf(journal[u].of)' = UnfinishedOf(journal[u].of)
          BY <1>5, <3>1 DEF UnfinishedOf, Unfinished
        <4>3. \A v \in Tasks : journal'[v].there /\ journal'[v].of = journal[u].of => v = u
          BY <1>7, <4>1 DEF JournalApplies
        <4> QED
          BY <1>5, <3>1, <4>1, <4>2, <4>3 DEF JournalApplies
      <3> QED
        BY <1>1, <1>5, <1>13, <3>1, <3>2 DEF JournalsValid
    <2> QED
      BY <2>1, <2>2
  <1>19. Exclusive'
    BY <1>1, <1>5, <1>12, <1>13 DEF Exclusive
  <1>20. AllOrNothing'
    BY <1>1, <1>3, <1>5, <1>7, <1>9, <1>12, <1>13 DEF AllOrNothing
  <1>21. AdmissionTypeOK'
    BY <1>1, <1>5, <1>7, <1>9, <1>12 DEF AdmissionTypeOK
  <1>22. PhaseReached' /\ AnswersFit'
    BY <1>1, <1>5, <1>10, <1>12 DEF PhaseReached, AnswersFit, Exists
  <1> QED
    BY <1>14, <1>15, <1>16, <1>17, <1>18, <1>19, <1>20, <1>21, <1>22
    DEF AdmissionSafe, AdmissionInv

(* The task file is written by the call and, again, by the recovery: it is active. *)
LEMMA TaskFileKeeps ==
    ASSUME AdmissionSafe, SaveTaskFile \/ RecoverTask
    PROVE  AdmissionSafe'
  <1>1. /\ AdmissionTypeOK /\ FieldTypes /\ Retention /\ IdsFresh /\ StageReached
        /\ JournalsValid /\ PhaseReached /\ AnswersFit /\ Exclusive /\ AllOrNothing
    BY AdmissionParts
  <1>2. PICK s \in Sessions : s = op.of
    BY <1>1 DEF FieldTypes
  <1>3. PICK t \in Tasks : t = op.task
    BY <1>1 DEF SaveTaskFile, RecoverTask, StageReached
  <1>4. /\ op.stage \in {"task", "rtask"} /\ task' = [task EXCEPT ![t] = [state |-> "ACTIVE", of |-> s]]
        /\ session' = session /\ journal' = journal /\ overtaken' = overtaken
        /\ UNCHANGED <<approval, running, slots, job, answer, phase, todo, listing,
                       drawn, acked, giveUps, restarts>>
    BY <1>2, <1>3 DEF SaveTaskFile, RecoverTask, Held, Boot, history
  <1>5. PICK stage \in {"session", "rsession"} : /\ Goto(stage)
                                                 /\ stage = "session" <=> op.stage = "task"
    BY DEF SaveTaskFile, RecoverTask
  <1>6. /\ task' \in [Tasks -> TaskFile]
        /\ \A u \in Tasks : u # t => task'[u] = task[u]
        /\ task'[t].state = "ACTIVE" /\ task'[t].of = s
    BY <1>1, <1>4, TaskFileWritten
  <1>7. stage \in Stages /\ StageMoves(stage) /\ (Preparing' <=> Preparing)
    <2>1. stage \in Stages
      BY DEF Stages, Writing, Recovering
    <2> QED
      BY <1>1, <1>4, <1>5, <2>1, GotoStage DEF StageMoves, Preparing, Writing
  <1>8. /\ op'.stage = stage /\ op'.task = t /\ op'.of = s /\ op' \in Operation
    BY <1>2, <1>3, <1>7 DEF StageMoves
  <1>9. journal[t].there /\ journal[t].of = s
    BY <1>1, <1>2, <1>3, <1>4 DEF StageReached, Writing, Recovering
  <1>10. /\ job[t] = "off" /\ (~overtaken => JournalApplies(t))
    BY <1>1, <1>9 DEF JournalsValid
  <1>11. ~overtaken => /\ \A u \in Tasks : Unfinished(u) /\ task[u].of = s => u = t
                       /\ ~session[s].archived
                       /\ approval[t].n = 0 /\ task[t].state \in {"NONE", "ACTIVE"}
                       /\ \A u \in Tasks : journal[u].there /\ journal[u].of = s => u = t
    BY <1>9, <1>10 DEF JournalApplies, UnfinishedOf
  <1>12. Exists(t)' /\ \A u \in Tasks : u # t => /\ Exists(u)' <=> Exists(u)
                                                 /\ Unfinished(u)' <=> Unfinished(u)
    BY <1>6 DEF Exists, Unfinished
  <1>13. SlotsHeld' /\ MarksHeld'
    BY <1>6, <1>7, <1>10, StageMovesKeeps
  <1>14. Retention'
    <2>1. Retained' = Retained /\ Abandoned' = Abandoned
      BY <1>3, <1>4, <1>7, <1>8, <1>9, <1>12 DEF Retained, Abandoned
    <2> QED
      BY <1>1, <1>4, <2>1 DEF Retention
  <1>15. IdsFresh'
    <2>1. \A u \in Tasks : Unused(u)' => Unused(u) /\ u # t
      BY <1>1, <1>4, <1>8, <1>9 DEF Unused, IdsFresh
    <2> QED
      BY <1>1, <1>4, <1>6, <1>12, <2>1 DEF IdsFresh
  <1>16. StageReached'
    <2>1. Exists(op.task)' /\ task'[op'.task].of = op'.of /\ op'.task \in Tasks
      BY <1>6, <1>8 DEF Exists
    <2>2. Preparing' => /\ phase' = "up" /\ op'.task = drawn' /\ job'[op'.task] = "off"
                        /\ session'[op'.of].there /\ ~session'[op'.of].archived
      BY <1>1, <1>2, <1>3, <1>4, <1>7, <1>8 DEF StageReached
    <2>3. op'.stage \in Recovering => phase' = "down"
      BY <1>1, <1>4, <1>5, <1>8 DEF StageReached, Recovering
    <2> QED
      BY <1>4, <1>8, <1>9, <2>1, <2>2, <2>3 DEF StageReached
  <1>17. JournalsValid'
    <2> SUFFICES ASSUME NEW u \in Tasks, journal[u].there
                 PROVE  /\ job[u] = "off" /\ u \in journal[u].copy.messages
                        /\ journal[u].copy.there /\ ~journal[u].copy.archived
                        /\ Exists(u)' => task'[u].of = journal[u].of
                        /\ ~overtaken => JournalApplies(u)'
      BY <1>4 DEF JournalsValid
    <2>1. Exists(u)' => task'[u].of = journal[u].of
      BY <1>1, <1>6, <1>9, <1>12 DEF JournalsValid
    <2>2. ASSUME ~overtaken PROVE JournalApplies(u)'
      <3>1. JournalApplies(u)
        BY <1>1, <2>2 DEF JournalsValid
      <3>2. u # t => journal[u].of # s
        BY <1>11, <2>2
      <3>3. UnfinishedOf(journal[u].of)' \subseteq {u}
        <4>1. \A v \in Tasks : Unfinished(v)' /\ task'[v].of = journal[u].of => v = u
          BY <1>6, <1>9, <1>12, <3>1, <3>2 DEF JournalApplies, UnfinishedOf
        <4> QED
          BY <1>4, <4>1 DEF UnfinishedOf
      <3>4. task'[u].state \in {"NONE", "ACTIVE"}
        BY <1>6, <3>1 DEF JournalApplies
      <3> QED
        BY <1>4, <3>1, <3>3, <3>4 DEF JournalApplies
    <2> QED
      BY <1>1, <2>1, <2>2 DEF JournalsValid
  <1>18. Exclusive'
    <2>1. ASSUME ~overtaken
          PROVE  \A u, v \in Tasks : Unfinished(u)' /\ Unfinished(v)' /\ task'[u].of = task'[v].of => u = v
      BY <1>1, <1>6, <1>11, <1>12, <2>1 DEF Exclusive
    <2>2. ASSUME ~overtaken
          PROVE  \A u \in Tasks : Unfinished(u)' => ~session[task'[u].of].archived
      BY <1>1, <1>6, <1>11, <1>12, <2>2 DEF Exclusive
    <2> QED
      BY <1>4, <2>1, <2>2 DEF Exclusive
  <1>19. AllOrNothing'
    BY <1>1, <1>3, <1>4, <1>8, <1>12 DEF AllOrNothing
  <1>20. AdmissionTypeOK'
    BY <1>1, <1>4, <1>6, <1>8 DEF AdmissionTypeOK
  <1>21. PhaseReached'
    <2>1. phase # "boot"
      BY <1>1, <1>4 DEF PhaseReached, Idle
    <2> QED
      BY <1>1, <1>4, <2>1 DEF PhaseReached
  <1>22. AnswersFit'
    <2>1. \A u \in Tasks : Exists(u) => Exists(u)'
      BY <1>12
    <2>2. \A u \in Tasks : task[u].state = "ACTIVE" => task'[u].state = "ACTIVE"
      BY <1>6
    <2> QED
      BY <1>1, <1>4, <2>1, <2>2 DEF AnswersFit
  <1> QED
    BY <1>13, <1>14, <1>15, <1>16, <1>17, <1>18, <1>19, <1>20, <1>21, <1>22
    DEF AdmissionSafe, AdmissionInv

(* So is the session file: the journal's copy adds the message to it. *)
LEMMA SessionFileKeeps ==
    ASSUME AdmissionSafe, SaveSessionFile \/ RecoverSession
    PROVE  AdmissionSafe'
  <1>1. /\ AdmissionTypeOK /\ FieldTypes /\ Retention /\ IdsFresh /\ StageReached
        /\ JournalsValid /\ PhaseReached /\ AnswersFit /\ Exclusive /\ AllOrNothing
    BY AdmissionParts
  <1>2. PICK s \in Sessions : s = op.of
    BY <1>1 DEF FieldTypes
  <1>3. PICK t \in Tasks : t = op.task
    BY <1>1 DEF SaveSessionFile, RecoverSession, StageReached
  <1>4. /\ op.stage \in {"session", "rsession"} /\ session' = [session EXCEPT ![s] = journal[t].copy]
        /\ task' = task /\ journal' = journal /\ overtaken' = overtaken
        /\ UNCHANGED <<approval, running, slots, job, answer, phase, todo, listing,
                       drawn, acked, giveUps, restarts>>
    BY <1>2, <1>3 DEF SaveSessionFile, RecoverSession, Held, Boot, history
  <1>5. PICK stage \in {"remove", "rremove"} : /\ Goto(stage)
                                               /\ stage = "remove" <=> op.stage = "session"
    BY DEF SaveSessionFile, RecoverSession
  <1>6. /\ session' \in [Sessions -> Session]
        /\ \A q \in Sessions : q # s => session'[q] = session[q]
        /\ session'[s] = journal[t].copy
    BY <1>1, <1>4 DEF AdmissionTypeOK, FieldTypes
  <1>7. stage \in Stages /\ StageMoves(stage) /\ (Preparing' <=> Preparing)
    <2>1. stage \in Stages
      BY DEF Stages, Writing, Recovering
    <2> QED
      BY <1>1, <1>4, <1>5, <2>1, GotoStage DEF StageMoves, Preparing, Writing
  <1>8. /\ op'.stage = stage /\ op'.task = t /\ op'.of = s /\ op' \in Operation
    BY <1>2, <1>3, <1>7 DEF StageMoves
  <1>9. journal[t].there /\ journal[t].of = s /\ Exists(t) /\ task[t].of = s
    BY <1>1, <1>2, <1>3, <1>4 DEF StageReached, Writing, Recovering
  <1>10. /\ t \in journal[t].copy.messages /\ journal[t].copy.there /\ ~journal[t].copy.archived
         /\ ~overtaken => JournalApplies(t)
    BY <1>1, <1>9 DEF JournalsValid
  <1>11. ~overtaken => /\ session'[s].there = session[s].there
                       /\ session'[s].archived = session[s].archived
                       /\ session'[s].messages = session[s].messages \cup {t}
    <2>1. journal[t].copy \in Session /\ session[s] \in Session
      BY <1>1 DEF FieldTypes
    <2>2. ~overtaken => journal[t].copy = [session[s] EXCEPT !.messages = @ \cup {t}]
      BY <1>9, <1>10 DEF JournalApplies
    <2> QED
      BY <1>6, <2>1, <2>2, CopyFields
  <1>12. \A u \in Tasks : (Exists(u)' <=> Exists(u)) /\ (Unfinished(u)' <=> Unfinished(u))
    BY <1>4 DEF Exists, Unfinished
  <1>13. SlotsHeld' /\ MarksHeld'
    BY <1>4, <1>7, StageMovesKeeps
  <1>14. Retention'
    <2>1. Retained' = Retained /\ Abandoned' = Abandoned
      BY <1>3, <1>4, <1>7, <1>8, <1>12 DEF Retained, Abandoned
    <2> QED
      BY <1>1, <1>4, <2>1 DEF Retention
  <1>15. IdsFresh'
    <2>1. \A u \in Tasks : Unused(u)' => Unused(u)
      BY <1>4, <1>8 DEF Unused
    <2>2. \A u \in Tasks : Unused(u) => \A q \in Sessions : u \notin session'[q].messages
      BY <1>1, <1>6 DEF IdsFresh
    <2> QED
      BY <1>1, <1>4, <1>12, <2>1, <2>2 DEF IdsFresh
  <1>16. StageReached'
    <2>1. /\ Exists(op.task)' /\ task'[op'.task].of = op'.of /\ op'.task \in Tasks
          /\ op'.task \in session'[op'.of].messages
      BY <1>4, <1>6, <1>8, <1>9, <1>10 DEF Exists
    <2>2. Preparing' => /\ phase' = "up" /\ op'.task = drawn' /\ job'[op'.task] = "off"
                        /\ session'[op'.of].there /\ ~session'[op'.of].archived
      BY <1>1, <1>2, <1>3, <1>4, <1>6, <1>7, <1>8, <1>10 DEF StageReached
    <2>3. op'.stage \in Recovering => phase' = "down"
      BY <1>1, <1>4, <1>5, <1>8 DEF StageReached, Recovering
    <2> QED
      BY <1>4, <1>8, <1>9, <2>1, <2>2, <2>3 DEF StageReached
  <1>17. JournalsValid'
    <2> SUFFICES ASSUME NEW u \in Tasks, journal[u].there
                 PROVE  /\ job[u] = "off" /\ u \in journal[u].copy.messages
                        /\ journal[u].copy.there /\ ~journal[u].copy.archived
                        /\ Exists(u)' => task'[u].of = journal[u].of
                        /\ ~overtaken => JournalApplies(u)'
      BY <1>4 DEF JournalsValid
    <2>1. ASSUME ~overtaken PROVE JournalApplies(u)'
      <3>1. JournalApplies(u) /\ JournalApplies(t)
        BY <1>1, <1>10, <2>1 DEF JournalsValid
      <3>2. UnfinishedOf(journal[u].of)' = UnfinishedOf(journal[u].of)
        BY <1>4 DEF UnfinishedOf, Unfinished
      <3>3. /\ ~session'[journal[u].of].archived
            /\ journal[u].copy = [session'[journal[u].of] EXCEPT !.messages = @ \cup {u}]
        <4>1. CASE u # t
          <5>1. journal[u].of # s /\ journal[u].of \in Sessions
            BY <1>1, <1>9, <3>1, <4>1 DEF JournalApplies, FieldTypes
          <5> QED
            BY <1>6, <3>1, <5>1 DEF JournalApplies
        <4>2. CASE u = t
          <5>1. journal[t].copy \in Session /\ session'[s] \in Session
            BY <1>1, <1>6 DEF FieldTypes
          <5>2. journal[t].copy.messages = journal[t].copy.messages \cup {t}
            BY <1>10
          <5>3. journal[t].copy = [journal[t].copy EXCEPT !.messages = @ \cup {t}]
            BY <5>1, <5>2, CopyFields
          <5> QED
            BY <1>6, <1>9, <1>10, <4>2, <5>3
        <4> QED
          BY <4>1, <4>2
      <3> QED
        BY <1>4, <3>1, <3>2, <3>3 DEF JournalApplies
    <2> QED
      BY <1>1, <1>4, <1>12, <2>1 DEF JournalsValid
  <1>18. Exclusive'
    <2>1. ~overtaken => \A q \in Sessions : session'[q].archived = session[q].archived
      BY <1>6, <1>11
    <2> QED
      BY <1>1, <1>4, <1>12, <2>1 DEF Exclusive, FieldTypes
  <1>19. AllOrNothing'
    <2>1. ~overtaken => \A q \in Sessions, u \in Tasks :
             u # t => (u \in session'[q].messages <=> u \in session[q].messages)
      BY <1>6, <1>11
    <2> QED
      BY <1>1, <1>3, <1>4, <1>8, <1>12, <2>1 DEF AllOrNothing
  <1>20. AdmissionTypeOK'
    BY <1>1, <1>4, <1>6, <1>8 DEF AdmissionTypeOK
  <1>21. PhaseReached'
    <2>1. phase # "boot"
      BY <1>1, <1>4 DEF PhaseReached, Idle
    <2> QED
      BY <1>1, <1>4, <2>1 DEF PhaseReached
  <1>22. AnswersFit'
    BY <1>1, <1>4 DEF AnswersFit, Exists
  <1> QED
    BY <1>13, <1>14, <1>15, <1>16, <1>17, <1>18, <1>19, <1>20, <1>21, <1>22
    DEF AdmissionSafe, AdmissionInv

(* The journal goes last, when the task and its message are both there. *)
LEMMA JournalRemoved ==
    ASSUME AdmissionSafe, NEW t \in Tasks, t = op.task, op.stage \in {"remove", "rremove"},
           journal' = [journal EXCEPT ![t] = NoJournal],
           session' = session, task' = task, approval' = approval, job' = job,
           drawn' = drawn, overtaken' = overtaken, giveUps' = giveUps,
           op'.stage \in {"trace", "idle"}, op'.task \in {t, 0}, ~Preparing \/ Preparing'
    PROVE  /\ journal' \in [Tasks -> Journal] /\ ~journal'[t].there
           /\ IdsFresh' /\ JournalsValid' /\ Exclusive' /\ AllOrNothing'
           /\ Cardinality(Retained') <= MaxTasks + giveUps'
  <1>1. /\ AdmissionTypeOK /\ FieldTypes /\ Retention /\ IdsFresh /\ StageReached
        /\ JournalsValid /\ Exclusive /\ AllOrNothing
    BY AdmissionParts
  <1>2. /\ journal' \in [Tasks -> Journal]
        /\ \A u \in Tasks : u # t => journal'[u] = journal[u]
        /\ journal'[t] = NoJournal /\ ~journal'[t].there /\ journal'[t].copy.messages = {}
    <2>1. NoJournal \in Journal /\ ~NoJournal.there /\ NoJournal.copy.messages = {}
      BY AdmissionAssumption DEF NoJournal, Journal, NoSession, Session, Sessions
    <2> QED
      BY <1>1, <2>1 DEF AdmissionTypeOK
  <1>3. \A u \in Tasks : (Exists(u)' <=> Exists(u)) /\ (Unfinished(u)' <=> Unfinished(u))
    BY DEF Exists, Unfinished
  <1>4. Exists(t) /\ op.of \in Sessions /\ t \in session[op.of].messages /\ journal[t].there
    BY <1>1 DEF StageReached, FieldTypes, Writing, Recovering
  <1>5. IdsFresh'
    <2>1. \A u \in Tasks : Unused(u)' => Unused(u)
      BY DEF Unused
    <2> QED
      BY <1>1, <1>2, <1>3, <2>1 DEF IdsFresh
  <1>6. JournalsValid'
    <2> SUFFICES ASSUME NEW u \in Tasks, journal'[u].there
                 PROVE  /\ job[u] = "off" /\ u \in journal'[u].copy.messages
                        /\ journal'[u].copy.there /\ ~journal'[u].copy.archived
                        /\ Exists(u)' => task'[u].of = journal'[u].of
                        /\ ~overtaken => JournalApplies(u)'
      BY DEF JournalsValid
    <2>1. journal'[u] = journal[u] /\ journal[u].there
      BY <1>2
    <2>2. ASSUME ~overtaken PROVE JournalApplies(u)'
      <3>1. JournalApplies(u)
        BY <1>1, <2>1, <2>2 DEF JournalsValid
      <3>2. UnfinishedOf(journal[u].of)' = UnfinishedOf(journal[u].of)
        BY <2>1 DEF UnfinishedOf, Unfinished
      <3>3. \A v \in Tasks : journal'[v].there /\ journal'[v].of = journal[u].of => v = u
        BY <1>2, <3>1 DEF JournalApplies
      <3> QED
        BY <2>1, <3>1, <3>2, <3>3 DEF JournalApplies
    <2> QED
      BY <1>1, <1>3, <2>1, <2>2 DEF JournalsValid
  <1>7. Exclusive'
    BY <1>1, <1>3 DEF Exclusive
  <1>8. AllOrNothing'
    BY <1>1, <1>2, <1>3, <1>4 DEF AllOrNothing
  <1>9. Cardinality(Retained') <= MaxTasks + giveUps'
    <2>1. Retained' \subseteq Retained
      <3>1. \A u \in Tasks : u # 0
        BY AdmissionAssumption DEF Tasks
      <3> QED
        BY <1>2, <1>3, <1>4, <3>1 DEF Retained
    <2>2. Retained' \in SUBSET Tasks /\ IsFiniteSet(Retained)
      BY TasksFinite DEF Retained
    <2>3. Cardinality(Retained') <= Cardinality(Retained)
      BY <2>1, <2>2, FS_Subset
    <2>4. giveUps' \in Nat /\ giveUps' >= giveUps
      BY <1>1 DEF AdmissionTypeOK
    <2> QED
      BY <2>2, <2>3, <2>4, RetainedBound
  <1> QED
    BY <1>2, <1>5, <1>6, <1>7, <1>8, <1>9

(* The call removes the journal of its task. *)
LEMMA RemoveJournalKeeps ==
    ASSUME AdmissionSafe, RemoveJournal
    PROVE  AdmissionSafe'
  <1>1. /\ AdmissionTypeOK /\ FieldTypes /\ Retention /\ StageReached /\ PhaseReached /\ AnswersFit
    BY AdmissionParts
  <1>2. PICK t \in Tasks : t = op.task
    BY <1>1 DEF RemoveJournal, StageReached
  <1>3. /\ op.stage = "remove" /\ journal' = [journal EXCEPT ![t] = NoJournal] /\ Goto("trace")
        /\ session' = session /\ task' = task /\ overtaken' = overtaken
        /\ UNCHANGED <<approval, running, slots, job, answer, phase, todo, listing,
                       drawn, acked, giveUps, restarts>>
    BY <1>2 DEF RemoveJournal, Held, Boot, history
  <1>4. "trace" \in Stages /\ StageMoves("trace") /\ Preparing /\ Preparing'
    <2>1. "trace" \in Stages
      BY DEF Stages
    <2> QED
      BY <1>1, <1>3, <2>1, GotoStage DEF StageMoves, Preparing, Writing
  <1>5. op' \in Operation /\ op'.stage = "trace" /\ op'.task = t /\ op'.of = op.of
    BY <1>2, <1>4 DEF StageMoves
  <1>6. /\ journal' \in [Tasks -> Journal] /\ ~journal'[t].there
        /\ IdsFresh' /\ JournalsValid' /\ Exclusive' /\ AllOrNothing'
        /\ Cardinality(Retained') <= MaxTasks + giveUps'
    BY <1>2, <1>3, <1>4, <1>5, JournalRemoved
  <1>7. SlotsHeld' /\ MarksHeld'
    BY <1>3, <1>4, StageMovesKeeps
  <1>8. Retention'
    <2>1. Abandoned' = Abandoned
      BY <1>1, <1>2, <1>3, <1>5 DEF Abandoned, AdmissionTypeOK
    <2> QED
      BY <1>1, <1>3, <1>6, <2>1 DEF Retention
  <1>9. StageReached'
    <2>1. /\ Exists(op.task)' /\ task'[op'.task].of = op'.of /\ op'.task \in session'[op'.of].messages
      BY <1>1, <1>2, <1>3, <1>5 DEF StageReached, Exists
    <2>2. /\ phase' = "up" /\ op'.task = drawn' /\ job'[op'.task] = "off"
          /\ session'[op'.of].there /\ ~session'[op'.of].archived
      BY <1>1, <1>2, <1>3, <1>4, <1>5 DEF StageReached
    <2> QED
      BY <1>5, <1>6, <2>1, <2>2 DEF StageReached, Recovering, Writing
  <1>10. AdmissionTypeOK'
    BY <1>1, <1>3, <1>5, <1>6 DEF AdmissionTypeOK
  <1>11. PhaseReached' /\ AnswersFit'
    <2>1. phase = "up"
      BY <1>1, <1>4 DEF StageReached
    <2> QED
      BY <1>1, <1>3, <2>1 DEF PhaseReached, AnswersFit, Exists
  <1> QED
    BY <1>6, <1>7, <1>8, <1>9, <1>10, <1>11 DEF AdmissionSafe, AdmissionInv

(* The recovery removes the journal it has applied. *)
LEMMA RecoverRemoveKeeps ==
    ASSUME AdmissionSafe, RecoverRemove
    PROVE  AdmissionSafe'
  <1>1. /\ AdmissionTypeOK /\ FieldTypes /\ SlotsHeld /\ MarksHeld /\ StageReached
        /\ PhaseReached /\ AnswersFit
    BY AdmissionParts
  <1>2. PICK t \in Tasks : t = op.task
    BY <1>1 DEF RecoverRemove, StageReached
  <1>3. /\ op.stage = "rremove" /\ journal' = [journal EXCEPT ![t] = NoJournal] /\ op' = Idle
        /\ session' = session /\ task' = task /\ overtaken' = overtaken
        /\ UNCHANGED <<approval, running, slots, job, answer, phase, todo, listing,
                       drawn, acked, giveUps, restarts>>
    BY <1>2 DEF RecoverRemove, Held, Boot, history
  <1>4. /\ StageReached' /\ ~Preparing' /\ op'.task = 0 /\ op'.stage = "idle" /\ ~Preparing
        /\ op' \in Operation /\ phase = "down"
    <2>1. Idle \in Operation
      BY AdmissionAssumption DEF Idle, Operation, Stages, Sessions
    <2>2. ~Preparing /\ phase = "down"
      BY <1>1, <1>3 DEF Preparing, Writing, StageReached, Recovering
    <2> QED
      BY <1>3, <2>1, <2>2, IdleStage
  <1>5. /\ journal' \in [Tasks -> Journal]
        /\ IdsFresh' /\ JournalsValid' /\ Exclusive' /\ AllOrNothing'
        /\ Cardinality(Retained') <= MaxTasks + giveUps'
    BY <1>2, <1>3, <1>4, JournalRemoved
  <1>6. SlotsHeld' /\ MarksHeld'
    <2>1. Jobs' = Jobs /\ Marks' = Marks /\ Resolving' = Resolving
      BY <1>3 DEF Jobs, Marks, Resolving
    <2>2. MarksHeld'
      BY <1>1, <1>3, <1>4, <2>1 DEF MarksHeld
    <2> QED
      BY <1>1, <1>3, <1>4, <2>1, <2>2, SameSlots
  <1>7. Retention'
    BY <1>3, <1>4, <1>5 DEF Retention
  <1>8. AdmissionTypeOK'
    BY <1>1, <1>3, <1>4, <1>5 DEF AdmissionTypeOK
  <1>9. PhaseReached' /\ AnswersFit'
    BY <1>1, <1>3, <1>4 DEF PhaseReached, AnswersFit, Exists
  <1> QED
    BY <1>4, <1>5, <1>6, <1>7, <1>8, <1>9 DEF AdmissionSafe, AdmissionInv

-----------------------------------------------------------------------------
(* Nothing is held and nothing is on disk at first. *)
LEMMA AdmissionInitSafe == AdmissionInit => AdmissionSafe
  <1> SUFFICES ASSUME AdmissionInit PROVE AdmissionSafe
    OBVIOUS
  <1>1. /\ NoSession \in Session /\ NoTask \in TaskFile /\ NoJournal \in Journal
        /\ NoApproval \in Approval /\ Idle \in Operation /\ NoAnswer \in Answer
    BY AdmissionAssumption
    DEF NoSession, Session, NoTask, TaskFile, NoJournal, Journal, NoApproval, Approval,
        Idle, Operation, Stages, NoAnswer, Answer, Sessions
  <1>2. AdmissionTypeOK
    <2>1. /\ session \in [Sessions -> Session] /\ task \in [Tasks -> TaskFile]
          /\ journal \in [Tasks -> Journal] /\ approval \in [Tasks -> Approval]
          /\ job \in [Tasks -> {"off", "run", "end", "release"}]
          /\ answer \in [Threads -> Answer] /\ op \in Operation
      BY <1>1 DEF AdmissionInit
    <2>2. drawn \in 0..MaxDrawn /\ slots \in 0..MaxConcurrentTasks /\ giveUps \in Nat
      BY AdmissionAssumption DEF AdmissionInit
    <2>3. /\ phase \in {"down", "boot", "up"} /\ todo \subseteq Tasks /\ acked \subseteq Tasks
          /\ listing \in BOOLEAN /\ overtaken \in BOOLEAN
      BY DEF AdmissionInit
    <2> QED
      BY <2>1, <2>2, <2>3 DEF AdmissionTypeOK
  <1>3. /\ \A t \in Tasks : /\ ~Exists(t) /\ ~Unfinished(t) /\ ~journal[t].there /\ job[t] = "off"
                            /\ approval[t].n = 0 /\ approval[t].status = "NONE"
                            /\ journal[t].copy.messages = {}
        /\ \A h \in Threads : answer[h].at = "off"
        /\ \A s \in Sessions : session[s].messages = {} /\ ~session[s].archived
        /\ op.stage = "idle" /\ op = Idle /\ ~Preparing /\ op.task = 0
    BY DEF AdmissionInit, Exists, Unfinished, NoTask, NoJournal, NoApproval, NoAnswer, NoSession,
           Idle, Preparing, Writing
  <1>4. SlotsHeld /\ MarksHeld
    <2>1. Jobs = {} /\ Resolving = {} /\ Marks = {}
      BY <1>3 DEF Jobs, Resolving, Marks, Threads
    <2>2. Cardinality({}) = 0
      BY FS_EmptySet
    <2> QED
      BY <1>3, <2>1, <2>2 DEF AdmissionInit, SlotsHeld, MarksHeld
  <1>5. Retention
    <2>1. Retained = {} /\ Abandoned = {}
      BY <1>3 DEF Retained, Abandoned
    <2>2. Cardinality({}) = 0 /\ MaxTasks \in Nat
      BY FS_EmptySet, AdmissionAssumption
    <2> QED
      BY <2>1, <2>2 DEF AdmissionInit, Retention
  <1>6. IdsFresh
    BY <1>3 DEF IdsFresh
  <1>7. StageReached
    BY <1>3 DEF StageReached, Writing, Recovering
  <1>8. JournalsValid /\ AllOrNothing /\ Exclusive
    BY <1>3 DEF JournalsValid, AllOrNothing, Exclusive
  <1>9. PhaseReached /\ AnswersFit
    BY <1>3 DEF AdmissionInit, PhaseReached, AnswersFit, Threads
  <1> QED
    BY <1>2, <1>4, <1>5, <1>6, <1>7, <1>8, <1>9 DEF AdmissionSafe, AdmissionInv

(* Every step keeps the invariant. *)
LEMMA AdmissionStepSafe == AdmissionSafe /\ [AdmissionNext]_admissionVars => AdmissionSafe'
  <1> SUFFICES ASSUME AdmissionSafe, [AdmissionNext]_admissionVars PROVE AdmissionSafe'
    OBVIOUS
  <1>1. CASE CreateSession
    BY <1>1, CreateSessionKeeps
  <1>2. ASSUME NEW s \in Sessions, CreateMessage(s) PROVE AdmissionSafe'
    BY <1>2, CreateMessageKeeps
  <1>3. ASSUME NEW s \in Sessions, NEW archive \in BOOLEAN, UpdateSession(s, archive)
        PROVE  AdmissionSafe'
    BY <1>3, UpdateSessionKeeps
  <1>4. CASE PrepareStep
    BY <1>4, SaveJournalKeeps, TaskFileKeeps, SessionFileKeeps, RemoveJournalKeeps, AcceptKeeps
    DEF PrepareStep
  <1>5. CASE PrepareFails
    BY <1>5, PrepareFailsKeeps
  <1>6. ASSUME NEW t \in Tasks, JobStep(t) PROVE AdmissionSafe'
    BY <1>6, RunKeeps, RunReturnsKeeps, UnmarkKeeps, ReleaseTaskSlotKeeps DEF JobStep
  <1>7. ASSUME NEW t \in Tasks, RunFails(t) \/ Expire(t) \/ RecoverRun(t) PROVE AdmissionSafe'
    BY <1>7, RunFailsKeeps, ExpireKeeps, RecoverRunKeeps
  <1>8. ASSUME NEW h \in Resolvers, NEW t \in Tasks, TakeSlot(h, t) PROVE AdmissionSafe'
    BY <1>8, TakeSlotKeeps
  <1>9. ASSUME NEW h \in Threads, ResolveStep(h) PROVE AdmissionSafe'
    BY <1>9, ResolveKeeps DEF ResolveStep
  <1>10. ASSUME NEW h \in Threads, ResumeStep(h) \/ ResumeFails(h) PROVE AdmissionSafe'
    BY <1>10, ResumeKeeps, CancelKeeps, StartKeeps, ExecuteApprovedKeeps, RefusedKeeps,
       ResumeFailsKeeps DEF ResumeStep
  <1>11. CASE Crash
    BY <1>11, CrashKeeps
  <1>12. CASE StartStep
    BY <1>12, RecoverJournalKeeps, ResumeResolvedKeeps, TaskFileKeeps, SessionFileKeeps,
       RecoverRemoveKeeps, PhaseKeeps, ListTasksKeeps DEF StartStep
  <1>13. CASE UNCHANGED admissionVars
    <2>1. UNCHANGED <<session, task, journal, approval, op, running, slots, job, answer, phase,
                      todo, listing, drawn, acked, overtaken, giveUps, restarts>>
      BY <1>13 DEF admissionVars, files, memory, history
    <2>2. FilesKept
      BY <2>1, AdmissionParts DEF FilesKept, AdmissionTypeOK
    <2>3. AdmissionTypeOK' /\ PhaseReached' /\ AnswersFit'
      BY <2>1, AdmissionParts DEF AdmissionTypeOK, PhaseReached, AnswersFit, Exists, ToResume, Idle
    <2>4. Jobs' = Jobs /\ Marks' = Marks /\ Resolving' = Resolving
      BY <2>1 DEF Jobs, Marks, Resolving
    <2>5. SlotsHeld' /\ MarksHeld'
      BY <2>1, <2>2, <2>4, AdmissionParts, FilesKeptKeeps, SameSlots, SameMarks
    <2> QED
      BY <2>2, <2>3, <2>5, FilesKeptKeeps DEF AdmissionSafe, AdmissionInv
  <1> QED
    BY <1>1, <1>2, <1>3, <1>4, <1>5, <1>6, <1>7, <1>8, <1>9, <1>10, <1>11, <1>12, <1>13
    DEF AdmissionNext

(* The inductive invariant holds always. *)
LEMMA AdmissionSafeAlways == AdmissionSpec => []AdmissionSafe
    BY AdmissionInitSafe, AdmissionStepSafe, PTL DEF AdmissionSpec

(***************************************************************************)
(* The accounts of the server always balance: no path through              *)
(* createMessage, the goroutines, resolveApproval, a failure or a restart  *)
(* leaks a slot or a mark, and the retention limits hold.                  *)
(***************************************************************************)
THEOREM AdmissionInvHolds == AdmissionSpec => []AdmissionInv
  <1>1. AdmissionSafe => AdmissionInv
    BY DEF AdmissionSafe
  <1> QED
    BY <1>1, AdmissionSafeAlways, PTL

(***************************************************************************)
(* A session never has two unfinished tasks, and an archived one has none, *)
(* while no old copy is left to be written over a newer file.              *)
(***************************************************************************)
THEOREM SessionExclusiveAlways == AdmissionSpec => []SessionExclusive
  <1>1. AdmissionSafe => SessionExclusive
    <2> SUFFICES ASSUME AdmissionSafe, ~overtaken, NEW s \in Sessions
                 PROVE  /\ Cardinality(UnfinishedOf(s)) <= 1
                        /\ session[s].archived => UnfinishedOf(s) = {}
      BY DEF SessionExclusive
    <2>1. Exclusive
      BY AdmissionParts
    <2>2. session[s].archived => UnfinishedOf(s) = {}
      BY <2>1 DEF Exclusive, UnfinishedOf
    <2>3. CASE UnfinishedOf(s) = {}
      <3>1. Cardinality({}) = 0
        BY FS_EmptySet
      <3> QED
        BY <2>3, <3>1
    <2>4. CASE UnfinishedOf(s) # {}
      <3>1. PICK t \in UnfinishedOf(s) : TRUE
        BY <2>4
      <3>2. UnfinishedOf(s) = {t}
        BY <2>1, <3>1 DEF Exclusive, UnfinishedOf
      <3>3. Cardinality({t}) = 1
        BY FS_Singleton
      <3> QED
        BY <2>2, <3>2, <3>3
    <2> QED
      BY <2>2, <2>3, <2>4
  <1> QED
    BY <1>1, AdmissionSafeAlways, PTL

(***************************************************************************)
(* A task without a journal exists exactly when its message is in its      *)
(* session, at whichever write of PrepareTask or of its recovery a call or *)
(* the process ends.                                                       *)
(***************************************************************************)
THEOREM AllOrNothingAlways == AdmissionSpec => []AllOrNothing
  <1>1. AdmissionSafe => AllOrNothing
    BY DEF AdmissionSafe
  <1> QED
    BY <1>1, AdmissionSafeAlways, PTL

(* NotReset, as a fact about one step. *)
KeepsDone ==
    phase # "up" /\ ~overtaken =>
        \A t \in Tasks : task[t].state = "DONE" => task'[t].state = "DONE"

(* While a process starts, only a resumer and the recovery write tasks, neither a finished one. *)
LEMMA StepKeepsDone == AdmissionSafe /\ [AdmissionNext]_admissionVars => KeepsDone
  <1> SUFFICES ASSUME AdmissionSafe, [AdmissionNext]_admissionVars, phase # "up", ~overtaken,
                      NEW t \in Tasks, task[t].state = "DONE"
               PROVE  task'[t].state = "DONE"
    BY DEF KeepsDone
  <1>1. /\ AdmissionTypeOK /\ FieldTypes /\ StageReached /\ JournalsValid /\ PhaseReached /\ AnswersFit
    BY AdmissionParts
  <1>2. CASE task' = task
    BY <1>2
  <1>3. ASSUME NEW u \in Tasks, job[u] = "run" PROVE FALSE
    BY <1>1, <1>3 DEF PhaseReached
  <1>4. ASSUME NEW h \in Threads, NEW u \in Tasks, u = answer[h].task, answer[h].at # "off",
               \E v \in {"DONE", "ACTIVE", "WAITING"} : task' = [task EXCEPT ![u].state = v],
               answer[h].at \in {"cancel", "start"} => task[u].state = "WAITING",
               answer[h].at \in {"cancel", "start", "execute"}
        PROVE  task'[t].state = "DONE"
    <2>1. task[u].state # "DONE"
      BY <1>1, <1>4 DEF AnswersFit
    <2>2. u # t
      BY <2>1
    <2>3. PICK v \in {"DONE", "ACTIVE", "WAITING"} : task' = [task EXCEPT ![u].state = v]
      BY <1>4
    <2> QED
      BY <1>1, <2>2, <2>3, TaskStateChanged
  <1>5. ASSUME NEW h \in Threads, answer[h].at \in {"cancel", "start"}
        PROVE  answer[h].task \in Tasks /\ task[answer[h].task].state = "WAITING"
    <2>1. h = "boot" /\ phase = "boot"
      BY <1>1, <1>5 DEF PhaseReached, Threads, AdmissionTypeOK
    <2> QED
      BY <1>1, <1>5, <2>1 DEF PhaseReached, AnswersFit
  <1>6. ASSUME NEW h \in Threads, Cancel(h) \/ Start(h) PROVE task'[t].state = "DONE"
    <2>1. answer[h].at \in {"cancel", "start"}
      BY <1>6 DEF Cancel, Start
    <2>2. PICK u \in Tasks : u = answer[h].task /\ task[u].state = "WAITING"
      BY <1>5, <2>1
    <2>3. \E v \in {"DONE", "ACTIVE", "WAITING"} : task' = [task EXCEPT ![u].state = v]
      BY <1>6, <2>2 DEF Cancel, Start, SaveResumed
    <2> QED
      BY <1>4, <2>1, <2>2, <2>3
  <1>7. ASSUME NEW h \in Threads, ExecuteApproved(h) PROVE task'[t].state = "DONE"
    <2>1. answer[h].at = "execute"
      BY <1>7 DEF ExecuteApproved
    <2>2. PICK u \in Tasks : u = answer[h].task
      BY <1>1, <2>1 DEF AnswersFit
    <2>3. \E v \in {"DONE", "ACTIVE", "WAITING"} : task' = [task EXCEPT ![u].state = v]
      BY <1>7, <2>2 DEF ExecuteApproved, Finishes, Asks
    <2> QED
      BY <1>4, <2>1, <2>2, <2>3
  <1>8. CASE SaveTaskFile \/ RecoverTask
    <2>1. PICK u \in Tasks : u = op.task
      BY <1>1, <1>8 DEF SaveTaskFile, RecoverTask, StageReached
    <2>2. journal[u].there
      BY <1>1, <1>8, <2>1 DEF SaveTaskFile, RecoverTask, StageReached, Writing, Recovering
    <2>3. u # t
      BY <1>1, <2>2 DEF JournalsValid, JournalApplies
    <2>4. task' = [task EXCEPT ![u] = [state |-> "ACTIVE", of |-> op.of]] /\ op.of \in Sessions
      BY <1>1, <1>8, <2>1 DEF SaveTaskFile, RecoverTask, FieldTypes
    <2> QED
      BY <1>1, <2>3, <2>4, TaskFileWritten
  <1>9. CASE \/ CreateSession
             \/ \E s \in Sessions : \/ CreateMessage(s)
                                     \/ \E archive \in BOOLEAN : UpdateSession(s, archive)
    BY <1>2, <1>9 DEF CreateSession, CreateMessage, UpdateSession, files
  <1>10. CASE PrepareStep \/ PrepareFails
    BY <1>2, <1>8, <1>10
    DEF PrepareStep, SaveJournal, SaveSessionFile, RemoveJournal, Accept, PrepareFails, files
  <1>11. ASSUME NEW u \in Tasks, JobStep(u) \/ RunFails(u) \/ Expire(u) \/ RecoverRun(u)
         PROVE  task'[t].state = "DONE"
    BY <1>2, <1>3, <1>11
    DEF JobStep, Run, RunReturns, Unmark, ReleaseTaskSlot, RunFails, Expire, RecoverRun, files
  <1>12. ASSUME NEW h \in Resolvers, NEW u \in Tasks, TakeSlot(h, u) PROVE task'[t].state = "DONE"
    BY <1>2, <1>12 DEF TakeSlot, files
  <1>13. ASSUME NEW h \in Threads, ResolveStep(h) \/ ResumeStep(h) \/ ResumeFails(h)
         PROVE  task'[t].state = "DONE"
    BY <1>2, <1>6, <1>7, <1>13
    DEF ResolveStep, Resolve, ResumeStep, Resume, Refused, ResumeFails, files
  <1>14. CASE Crash
    BY <1>2, <1>14 DEF Crash, files
  <1>15. CASE StartStep
    BY <1>2, <1>8, <1>15
    DEF StartStep, RecoverJournal, ResumeResolved, RecoverSession, RecoverRemove, NewFileStore,
        Serve, ListTasks, files
  <1>16. CASE UNCHANGED admissionVars
    BY <1>2, <1>16 DEF admissionVars, files
  <1> QED
    BY <1>9, <1>10, <1>11, <1>12, <1>13, <1>14, <1>15, <1>16 DEF AdmissionNext

(***************************************************************************)
(* No start makes a finished task active again, whatever journals and      *)
(* answered approvals it finds.                                            *)
(***************************************************************************)
THEOREM NotResetAlways == AdmissionSpec => NotReset
  <1>1. AdmissionSafe /\ [AdmissionNext]_admissionVars => [KeepsDone]_admissionVars
    BY StepKeepsDone
  <1> QED
    BY <1>1, AdmissionSafeAlways, PTL DEF AdmissionSpec, NotReset, KeepsDone
=============================================================================
