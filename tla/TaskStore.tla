------------------------------ MODULE TaskStore ------------------------------
(***************************************************************************)
(* internal/storage: workers that claim a task, save their copy of it and  *)
(* release it, in one or in several processes.  withExclusive (mutex and   *)
(* flock) makes each call one step, across processes too; between calls a  *)
(* worker only has its copy, and its lease may run out or be taken over.   *)
(***************************************************************************)
EXTENDS TaskLease, FiniteSets

CONSTANTS
    Workers,    \* goroutines that run tasks, in any process on the data directory
    Values,     \* contents of a task told apart
    LeaseTTL,   \* lifetime of a lease
    MaxTime,    \* bound on the clock
    MaxFence    \* bound on the number of claims

ASSUME TaskStoreAssumption ==
    /\ Values # {}
    /\ LeaseTTL \in Nat \ {0} /\ MaxTime \in Nat /\ MaxFence \in Nat

VARIABLES
    clock,
    disk,       \* the task file
    copy,       \* worker -> the copy of the task it works on
    working,    \* workers between ClaimTask and the end of Run
    writer      \* history: who wrote the file last, {} before the first claim

taskVars == <<clock, disk, copy, working, writer>>

Task == [value : Values, token : Nat, fence : Nat, expires : Nat]
FirstValue == CHOOSE v \in Values : TRUE
NewTask == [value |-> FirstValue, token |-> 0, fence |-> 0, expires |-> 0]

TaskTypeOK ==
    /\ clock \in 0..MaxTime
    /\ disk \in Task
    /\ copy \in [Workers -> Task]
    /\ working \subseteq Workers
    /\ writer \subseteq Workers

TaskInit ==
    /\ clock = 0
    /\ disk = NewTask
    /\ copy = [w \in Workers |-> NewTask]
    /\ working = {}
    /\ writer = {}

Fresh == clock < disk.expires

(* Mutant: the fence stays as it was. *)
ClaimTaskKeepsFence(w) ==
    LET claimed == [disk EXCEPT !.token = disk.fence + 1,
                                !.expires = clock + LeaseTTL]
    IN  /\ w \notin working
        /\ disk.fence < MaxFence
        /\ ClaimAllowed(disk, Fresh)
        /\ disk' = claimed
        /\ copy' = [copy EXCEPT ![w] = claimed]
        /\ working' = working \cup {w}
        /\ writer' = {w}
        /\ UNCHANGED clock

(* ClaimTask returns the file as it now is: the worker starts from it. *)
ClaimTask(w) ==
    LET claimed == [disk EXCEPT !.token = disk.fence + 1,
                                !.fence = disk.fence + 1,
                                !.expires = clock + LeaseTTL]
    IN  /\ w \notin working
        /\ disk.fence < MaxFence
        /\ ClaimAllowed(disk, Fresh)
        /\ disk' = claimed
        /\ copy' = [copy EXCEPT ![w] = claimed]
        /\ working' = working \cup {w}
        /\ writer' = {w}
        /\ UNCHANGED clock

(* SaveTask writes the whole copy; a conflict leaves the file alone. *)
SaveTask(w, v) ==
    LET next == [copy[w] EXCEPT !.value = v]
    IN  /\ w \in working
        /\ copy' = [copy EXCEPT ![w] = next]
        /\ IF WriteAllowed(disk, next, Fresh)
           THEN disk' = next /\ writer' = {w}
           ELSE UNCHANGED <<disk, writer>>
        /\ UNCHANGED <<clock, working>>

(* saveLocked fails before its rename: only the copy has the new value. *)
SaveFails(w, v) ==
    /\ w \in working
    /\ copy' = [copy EXCEPT ![w].value = v]
    /\ UNCHANGED <<clock, disk, working, writer>>

(* The deferred ReleaseTask ends the run, whether or not the lease is lost. *)
ReleaseTask(w) ==
    /\ w \in working
    /\ IF ReleaseAllowed(disk, copy[w].token, copy[w].fence)
       THEN /\ disk' = [disk EXCEPT !.token = 0, !.expires = 0]
            /\ writer' = {w}
       ELSE UNCHANGED <<disk, writer>>
    /\ working' = working \ {w}
    /\ copy' = [copy EXCEPT ![w] = NewTask]
    /\ UNCHANGED clock

(* The process of the worker dies: the lease stays on disk until it expires. *)
WorkerDies(w) ==
    /\ w \in working
    /\ working' = working \ {w}
    /\ copy' = [copy EXCEPT ![w] = NewTask]
    /\ UNCHANGED <<clock, disk, writer>>

Tick ==
    /\ clock < MaxTime
    /\ clock' = clock + 1
    /\ UNCHANGED <<disk, copy, working, writer>>

TaskNext ==
    \/ \E w \in Workers : \/ ClaimTask(w)
                          \/ \E v \in Values : SaveTask(w, v) \/ SaveFails(w, v)
                          \/ ReleaseTask(w)
                          \/ WorkerDies(w)
    \/ Tick

TaskSpec == TaskInit /\ [][TaskNext]_taskVars

-----------------------------------------------------------------------------
(* Properties. *)

CanWrite(w) == w \in working /\ WriteAllowed(disk, copy[w], Fresh)

(***************************************************************************)
(* ExclusiveWriter: at any instant at most one worker's save would be      *)
(* accepted, and it is the worker that wrote the file last: a worker that  *)
(* lost its lease, by expiry or takeover, can no longer touch the task.    *)
(***************************************************************************)
ExclusiveWriter == \A w \in Workers : CanWrite(w) => writer = {w}

(***************************************************************************)
(* NoLostUpdate: a save or release that changes the file replaces a        *)
(* version its own worker wrote or claimed; only a claim may succeed       *)
(* another worker's version, and it starts from that version.  The fence   *)
(* never goes back.                                                        *)
(***************************************************************************)
NoLostUpdateStep ==
    disk' # disk =>
        /\ disk'.fence >= disk.fence
        /\ disk'.value # disk.value => writer' = writer
        /\ disk'.fence = disk.fence => writer' = writer

(* NoLostUpdate: every step of the store is such a step. *)
NoLostUpdate == [][NoLostUpdateStep]_taskVars

(* FenceInv, the inductive invariant: tokens are fences, and fences are never reused. *)
FenceInv ==
    /\ TaskTypeOK
    /\ disk.token \in {0, disk.fence}
    /\ \A w \in working :
          /\ copy[w].token = copy[w].fence
          /\ copy[w].fence \in 1..disk.fence
          /\ disk.token = copy[w].token => writer = {w}
          /\ \A u \in working : copy[u].fence = copy[w].fence => u = w
=============================================================================
