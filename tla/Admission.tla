----------------------------- MODULE Admission -----------------------------
(***************************************************************************)
(* internal/api with internal/storage below it: how messages become tasks. *)
(* createMessage admits at most one unfinished task per session, under     *)
(* sessionMu and resourceMu, takes a slot and has PrepareTask write the    *)
(* message and its task, which are two files: a journal with both is       *)
(* written first and removed last, and NewFileStore applies the journals   *)
(* it finds.  A goroutine then runs the task and gives session and slot    *)
(* back; resolveApproval takes a slot of its own and neither lock.         *)
(*                                                                         *)
(* What a task does while it runs is TaskFlow's subject: here it is ACTIVE *)
(* until it is DONE (any final state) or WAITING for an approval, and the  *)
(* lease makes each run one step.  GiveUp stands for everything that cuts  *)
(* a call short while the server lives: a cancelled request (saveLocked    *)
(* looks at its context), a failed write, a save that a lease refuses.     *)
(***************************************************************************)
EXTENDS Naturals, FiniteSets

CONSTANTS
    Resolvers,          \* goroutines of resolveApproval
    MaxSessions,        \* Limits.MaxSessions
    MaxTasks,           \* Limits.MaxTasks
    MaxConcurrentTasks, \* Limits.MaxConcurrentTasks
    MaxDrawn,           \* bound on the task ids drawn
    MaxApprovals,       \* bound on the approvals one task asks for
    MaxGiveUps,         \* bound on calls given up while the server lives
    MaxRestarts         \* bound on the ends of the server

ASSUME AdmissionAssumption ==
    /\ {MaxSessions, MaxTasks, MaxConcurrentTasks, MaxDrawn, MaxApprovals,
        MaxGiveUps, MaxRestarts} \subseteq Nat
    /\ MaxSessions > 0 /\ MaxConcurrentTasks > 0
    /\ IsFiniteSet(Resolvers) /\ "boot" \notin Resolvers

VARIABLES
    session,    \* session id -> its file
    task,       \* task id -> its file
    journal,    \* task id -> the journal of its preparation
    approval,   \* task id -> the approval it asked for last
    op,         \* the preparation in progress, or the journal being recovered
    drawn,      \* number of task ids drawn
    running,    \* Server.runningSessions
    slots,      \* tokens in Server.taskSlots
    job,        \* task id -> where the goroutine of createMessage is
    answer,     \* thread -> the approval it resolves and resumes
    phase,      \* "down", "boot": resumeResolvedApprovals, "up": serving
    todo,       \* what the start has still to resume, or RecoverIncomplete to run
    listing,    \* has RecoverIncomplete yet to list the tasks?
    acked,      \* history: tasks whose createMessage answered 202
    overtaken,  \* history: a file went on while an old copy of it was still to be written
    giveUps, restarts

files == <<session, task, journal, approval>>
memory == <<op, running, slots, job, answer, phase, todo, listing>>
history == <<drawn, acked, overtaken, giveUps, restarts>>
admissionVars == <<files, memory, history>>

Sessions == 1..MaxSessions
Tasks == 1..MaxDrawn
Threads == Resolvers \cup {"boot"}

(* A message is named by its task; the answers are not told apart. *)
Session == [there : BOOLEAN, archived : BOOLEAN, messages : SUBSET Tasks]
NoSession == [there |-> FALSE, archived |-> FALSE, messages |-> {}]
TaskFile == [state : {"NONE", "ACTIVE", "WAITING", "DONE"}, of : Sessions]
NoTask == [state |-> "NONE", of |-> 1]
Journal == [there : BOOLEAN, of : Sessions, copy : Session]
NoJournal == [there |-> FALSE, of |-> 1, copy |-> NoSession]
Approval == [n : 0..MaxApprovals,
             status : {"NONE", "PENDING", "APPROVED", "REJECTED", "EXPIRED", "CONSUMED"}]
NoApproval == [n |-> 0, status |-> "NONE"]

(* The stages of createMessage and (r...) of the recovery of a journal. *)
Writing == {"task", "session", "remove"}
Recovering == {"rtask", "rsession", "rremove"}
Stages == {"idle", "prepare", "trace"} \cup Writing \cup Recovering
Operation == [stage : Stages, task : 0..MaxDrawn, of : Sessions]
Idle == [stage |-> "idle", task |-> 0, of |-> 1]
Answer == [at : {"off", "resolve", "resume", "cancel", "start", "execute", "refused"}, task : 0..MaxDrawn,
           n : 0..MaxApprovals, status : {"NONE", "APPROVED", "REJECTED", "EXPIRED"}]
NoAnswer == [at |-> "off", task |-> 0, n |-> 0, status |-> "NONE"]

AdmissionInit ==
    /\ session = [s \in Sessions |-> NoSession]
    /\ task = [t \in Tasks |-> NoTask]
    /\ journal = [t \in Tasks |-> NoJournal]
    /\ approval = [t \in Tasks |-> NoApproval]
    /\ op = Idle /\ drawn = 0
    /\ running = {} /\ slots = 0
    /\ job = [t \in Tasks |-> "off"]
    /\ answer = [h \in Threads |-> NoAnswer]
    /\ phase = "up" /\ todo = {} /\ listing = FALSE
    /\ acked = {} /\ overtaken = FALSE
    /\ giveUps = 0 /\ restarts = 0

-----------------------------------------------------------------------------
Exists(t) == task[t].state # "NONE"
Unfinished(t) == task[t].state \in {"ACTIVE", "WAITING"}
UnfinishedOf(s) == {t \in Tasks : Unfinished(t) /\ task[t].of = s}

(* withExclusive: nobody reads or writes between the writes of PrepareTask. *)
StoreFree == op.stage \notin Writing \cup Recovering

(* A session is written; the journals other calls left for it hold an old copy. *)
Overtakes(s, by) ==
    overtaken' = (overtaken \/ \E t \in Tasks \ {by} : journal[t].there /\ journal[t].of = s)

SlotFree == slots < MaxConcurrentTasks
Goto(stage) == op' = [op EXCEPT !.stage = stage]
GiveUp == giveUps < MaxGiveUps /\ giveUps' = giveUps + 1
Held == <<running, slots, job>>
Boot == <<phase, todo, listing>>

(* createSession, under resourceMu, which createMessage holds while it prepares. *)
CreateSession ==
    LET there == {s \in Sessions : session[s].there}
    IN  /\ phase = "up" /\ op = Idle
        /\ Cardinality(there) < MaxSessions
        /\ session' = [session EXCEPT ![Cardinality(there) + 1].there = TRUE]
        /\ UNCHANGED <<task, journal, approval, memory, history>>

(* updateSession, under sessionMu: renames (archive as it was), archives or restores. *)
UpdateSession(s, archive) ==
    /\ phase = "up" /\ op = Idle
    /\ session[s].there
    /\ archive => s \notin running /\ UnfinishedOf(s) = {}
    /\ session' = [session EXCEPT ![s].archived = archive]
    /\ Overtakes(s, 0)
    /\ UNCHANGED <<task, journal, approval, memory, drawn, acked, giveUps, restarts>>

-----------------------------------------------------------------------------
(* createMessage. *)

(* Mutant: only the sessions this process marked are looked at. *)
AdmissibleUnmarked(s) ==
    /\ session[s].there /\ ~session[s].archived
    /\ s \notin running
    /\ Cardinality({t \in Tasks : Exists(t)}) < MaxTasks
    /\ SlotFree

(* The checks of createMessage, made under sessionMu and resourceMu. *)
Admissible(s) ==
    /\ session[s].there /\ ~session[s].archived
    /\ s \notin running
    /\ UnfinishedOf(s) = {}
    /\ Cardinality({t \in Tasks : Exists(t)}) < MaxTasks
    /\ SlotFree

CreateMessage(s) ==
    /\ phase = "up" /\ op = Idle
    /\ Admissible(s)
    /\ drawn < MaxDrawn /\ drawn' = drawn + 1
    /\ slots' = slots + 1 /\ running' = running \cup {s}
    /\ op' = [stage |-> "prepare", task |-> drawn + 1, of |-> s]
    /\ UNCHANGED <<files, job, answer, Boot, acked, overtaken, giveUps, restarts>>

(* PrepareTask loads the session, adds the message and writes both down. *)
SaveJournal ==
    LET t == op.task
        s == op.of
    IN  /\ op.stage = "prepare"
        /\ journal' = [journal EXCEPT ![t] =
               [there |-> TRUE, of |-> s,
                copy |-> [session[s] EXCEPT !.messages = @ \cup {t}]]]
        /\ Overtakes(s, t)
        /\ Goto("task")
        /\ UNCHANGED <<session, task, approval, Held, answer, Boot, drawn, acked, giveUps, restarts>>

SaveTaskFile ==
    /\ op.stage = "task"
    /\ task' = [task EXCEPT ![op.task] = [state |-> "ACTIVE", of |-> op.of]]
    /\ Goto("session")
    /\ UNCHANGED <<session, journal, approval, Held, answer, Boot, history>>

SaveSessionFile ==
    /\ op.stage = "session"
    /\ session' = [session EXCEPT ![op.of] = journal[op.task].copy]
    /\ Goto("remove")
    /\ UNCHANGED <<task, journal, approval, Held, answer, Boot, history>>

(* Mutant: the journal is left behind after all writes succeeded. *)
RemoveSkipped ==
    /\ op.stage = "remove"
    /\ Goto("trace")
    /\ UNCHANGED <<files, Held, answer, Boot, history>>

RemoveJournal ==
    /\ op.stage = "remove"
    /\ journal' = [journal EXCEPT ![op.task] = NoJournal]
    /\ Goto("trace")
    /\ UNCHANGED <<session, task, approval, Held, answer, Boot, history>>

(* Prepare writes the first audit facts; createMessage starts Run and answers 202. *)
Accept ==
    /\ op.stage = "trace"
    /\ acked' = acked \cup {op.task}
    /\ job' = [job EXCEPT ![op.task] = "run"]
    /\ op' = Idle
    /\ UNCHANGED <<files, running, slots, answer, Boot, drawn, overtaken, giveUps, restarts>>

(* Mutant: the slot is not given back on the error path. *)
PrepareFailsHeld ==
    /\ op.stage \in {"prepare", "trace"} \cup Writing
    /\ GiveUp
    /\ op' = Idle
    /\ running' = running \ {op.of}
    /\ UNCHANGED <<files, slots, job, answer, Boot, drawn, acked, overtaken, restarts>>

(* Prepare returns an error and leaves the files it has written. *)
PrepareFails ==
    /\ op.stage \in {"prepare", "trace"} \cup Writing
    /\ GiveUp
    /\ op' = Idle
    /\ running' = running \ {op.of} /\ slots' = slots - 1
    /\ UNCHANGED <<files, job, answer, Boot, drawn, acked, overtaken, restarts>>

-----------------------------------------------------------------------------
(* The goroutine of createMessage. *)

(* What a run leaves: a finished task, or one that waits for its next approval. *)
Finishes(t) == task' = [task EXCEPT ![t].state = "DONE"] /\ UNCHANGED approval
Asks(t) ==
    /\ approval[t].n < MaxApprovals
    /\ task' = [task EXCEPT ![t].state = "WAITING"]
    /\ approval' = [approval EXCEPT ![t] = [n |-> @.n + 1, status |-> "PENDING"]]

(* It may have written to the session as well: an answer, a resource, a pin. *)
MayReply(t) == Overtakes(task[t].of, 0) \/ UNCHANGED overtaken

(* It has claimed the task: who read it before is behind the fence and cannot save it. *)
Fences(t) ==
    answer' = [h \in Threads |->
                  IF answer[h].task = t /\ answer[h].at \in {"cancel", "start", "execute"}
                  THEN [answer[h] EXCEPT !.at = "refused"] ELSE answer[h]]

Run(t) ==
    /\ job[t] = "run" /\ StoreFree
    /\ task[t].state = "ACTIVE"
    /\ Fences(t)
    /\ Finishes(t) \/ Asks(t)
    /\ MayReply(t)
    /\ job' = [job EXCEPT ![t] = "end"]
    /\ UNCHANGED <<session, journal, op, running, slots, Boot, drawn, acked, giveUps, restarts>>

(* Run returns at once: the task is not active any more, or RecoverIncomplete has it. *)
RunReturns(t) ==
    /\ job[t] = "run" /\ StoreFree
    /\ task[t].state # "ACTIVE" \/ (~listing /\ t \in todo)
    /\ job' = [job EXCEPT ![t] = "end"]
    /\ UNCHANGED <<files, op, running, slots, answer, Boot, history>>

(* Run fails and so does the save of FAILED. *)
RunFails(t) ==
    /\ job[t] = "run" /\ GiveUp
    /\ Fences(t) \/ UNCHANGED answer
    /\ job' = [job EXCEPT ![t] = "end"]
    /\ UNCHANGED <<files, op, running, slots, Boot, drawn, acked, overtaken, restarts>>

(* The deferred function takes sessionMu to unmark the session, ... *)
Unmark(t) ==
    /\ job[t] = "end" /\ op = Idle
    /\ running' = running \ {task[t].of}
    /\ job' = [job EXCEPT ![t] = "release"]
    /\ UNCHANGED <<files, op, slots, answer, Boot, history>>

(* ... and then gives the slot back. *)
ReleaseTaskSlot(t) ==
    /\ job[t] = "release"
    /\ slots' = slots - 1
    /\ job' = [job EXCEPT ![t] = "off"]
    /\ UNCHANGED <<files, op, running, answer, Boot, history>>

-----------------------------------------------------------------------------
(* resolveApproval, and Resume, which the start calls as well. *)

At(h, place) ==
    answer' = [answer EXCEPT ![h].at = place] /\ UNCHANGED slots

(* The call ends with the deferred releaseTaskSlot; the loop of the start holds no slot. *)
Return(h) ==
    /\ answer' = [answer EXCEPT ![h] = NoAnswer]
    /\ slots' = IF h = "boot" THEN slots ELSE slots - 1

TakeSlot(h, t) ==
    /\ phase = "up" /\ answer[h].at = "off"
    /\ approval[t].n > 0
    /\ SlotFree /\ slots' = slots + 1
    /\ answer' = [answer EXCEPT ![h] =
                     [at |-> "resolve", task |-> t, n |-> approval[t].n, status |-> "NONE"]]
    /\ UNCHANGED <<files, op, running, job, Boot, history>>

(* Resolve records the answer, or that it comes too late: then Resume is not called. *)
Resolve(h, decision) ==
    LET t == answer[h].task
        current == approval[t].n = answer[h].n
        status == approval[t].status
    IN  /\ answer[h].at = "resolve"
        /\ \/ /\ current                    \* now.Before(ExpiresAt) is false
              /\ approval' = [approval EXCEPT ![t].status = "EXPIRED"]
              /\ Return(h)
           \/ /\ current /\ status \in {"PENDING", decision}
              /\ approval' = [approval EXCEPT ![t].status = decision]
              /\ answer' = [answer EXCEPT ![h].at = "resume", ![h].status = decision]
              /\ UNCHANGED slots
           \/ /\ ~current \/ status \notin {"PENDING", decision}
              /\ Return(h)
              /\ UNCHANGED approval
        /\ UNCHANGED <<session, task, journal, op, running, job, Boot, history>>

(* Get and List write EXPIRED when they find the expiry past. *)
Expire(t) ==
    /\ approval[t].status = "PENDING"
    /\ approval' = [approval EXCEPT ![t].status = "EXPIRED"]
    /\ UNCHANGED <<session, task, journal, memory, history>>

(* Resume reads the task; it goes on only if the task waits for this approval. *)
Resume(h) ==
    LET t == answer[h].task
    IN  /\ answer[h].at = "resume" /\ StoreFree
        /\ IF task[t].state = "WAITING" /\ approval[t].n = answer[h].n
           THEN At(h, IF answer[h].status = "APPROVED" THEN "start" ELSE "cancel")
           ELSE Return(h)
        /\ UNCHANGED <<files, op, running, job, Boot, history>>

(* The save replaces whatever another thread has made of the task by now. *)
SaveResumed(h, state) ==
    LET t == answer[h].task
    IN  /\ task' = [task EXCEPT ![t].state = state]
        /\ overtaken' = (overtaken \/ task[t].state # "WAITING" \/ approval[t].n # answer[h].n)

Cancel(h) ==
    /\ answer[h].at = "cancel" /\ StoreFree
    /\ SaveResumed(h, "DONE")
    /\ Return(h)
    /\ UNCHANGED <<session, journal, approval, op, running, job, Boot, drawn, acked, giveUps, restarts>>

Start(h) ==
    /\ answer[h].at = "start" /\ StoreFree
    /\ SaveResumed(h, "ACTIVE")
    /\ At(h, "execute")
    /\ UNCHANGED <<session, journal, approval, op, running, job, Boot, drawn, acked, giveUps, restarts>>

(***************************************************************************)
(* The executor consumes the approval and the task completes, fails or     *)
(* asks for its next approval; or the executor refuses and the task fails. *)
(***************************************************************************)
ExecuteApproved(h) ==
    LET t == answer[h].task
        consumed == [approval EXCEPT ![t].status = "CONSUMED"]
        granted == approval[t] = [n |-> answer[h].n, status |-> "APPROVED"]
    IN  /\ answer[h].at = "execute" /\ StoreFree
        /\ \/ Finishes(t)
           \/ granted /\ task' = [task EXCEPT ![t].state = "DONE"] /\ approval' = consumed
           \/ granted /\ Asks(t)
        /\ MayReply(t)
        /\ Return(h)
        /\ UNCHANGED <<session, journal, op, running, job, Boot, drawn, acked, giveUps, restarts>>

(* The next save is refused; the executor may have carried the action out. *)
Refused(h) ==
    LET t == answer[h].task
    IN  /\ answer[h].at = "refused"
        /\ \/ UNCHANGED approval
           \/ /\ approval[t] = [n |-> answer[h].n, status |-> "APPROVED"]
              /\ approval' = [approval EXCEPT ![t].status = "CONSUMED"]
        /\ Return(h)
        /\ UNCHANGED <<session, task, journal, op, running, job, Boot, history>>

ResumeFails(h) ==
    /\ answer[h].at # "off"
    /\ GiveUp
    /\ Return(h)
    /\ UNCHANGED <<files, op, running, job, Boot, drawn, acked, overtaken, restarts>>

-----------------------------------------------------------------------------
(* The end of the server and its start. *)

Crash ==
    /\ restarts < MaxRestarts /\ restarts' = restarts + 1
    /\ phase' = "down" /\ todo' = {} /\ listing' = FALSE
    /\ op' = Idle /\ running' = {} /\ slots' = 0
    /\ job' = [t \in Tasks |-> "off"]
    /\ answer' = [h \in Threads |-> NoAnswer]
    /\ UNCHANGED <<files, drawn, acked, overtaken, giveUps>>

(* recoverTaskPreparationsLocked: one journal after another. *)
RecoverJournal(t) ==
    /\ phase = "down" /\ op = Idle
    /\ journal[t].there
    /\ op' = [stage |-> "rtask", task |-> t, of |-> journal[t].of]
    /\ UNCHANGED <<files, Held, answer, Boot, history>>

RecoverTask ==
    /\ op.stage = "rtask"
    /\ task' = [task EXCEPT ![op.task] = [state |-> "ACTIVE", of |-> op.of]]
    /\ Goto("rsession")
    /\ UNCHANGED <<session, journal, approval, Held, answer, Boot, history>>

(* Mutant: the recovery forgets the session. *)
RecoverNoSession ==
    /\ op.stage = "rsession"
    /\ Goto("rremove")
    /\ UNCHANGED <<files, Held, answer, Boot, history>>

RecoverSession ==
    /\ op.stage = "rsession"
    /\ session' = [session EXCEPT ![op.of] = journal[op.task].copy]
    /\ Goto("rremove")
    /\ UNCHANGED <<task, journal, approval, Held, answer, Boot, history>>

RecoverRemove ==
    /\ op.stage = "rremove"
    /\ journal' = [journal EXCEPT ![op.task] = NoJournal]
    /\ op' = Idle
    /\ UNCHANGED <<session, task, approval, Held, answer, Boot, history>>

(* Mutant: the start takes up the answers, not the expiries. *)
ToResumeAnswered == {t \in Tasks : approval[t].status \in {"APPROVED", "REJECTED"}}

(* The records resumeResolvedApprovals does not skip. *)
ToResume == {t \in Tasks : approval[t].status \in {"APPROVED", "REJECTED", "EXPIRED"}}

NewFileStore ==
    /\ phase = "down" /\ op = Idle
    /\ \A t \in Tasks : ~journal[t].there
    /\ phase' = "boot" /\ todo' = ToResume
    /\ UNCHANGED <<files, op, Held, answer, listing, history>>

ResumeResolved(t) ==
    /\ phase = "boot" /\ answer["boot"].at = "off"
    /\ t \in todo /\ todo' = todo \ {t}
    /\ answer' = [answer EXCEPT !["boot"] =
                     [at |-> "resume", task |-> t, n |-> approval[t].n, status |-> approval[t].status]]
    /\ UNCHANGED <<files, op, Held, phase, listing, history>>

(* The server listens; a goroutine begins RecoverIncomplete. *)
Serve ==
    /\ phase = "boot" /\ todo = {} /\ answer["boot"].at = "off"
    /\ phase' = "up" /\ listing' = TRUE
    /\ UNCHANGED <<files, op, Held, answer, todo, history>>

(* Mutant: only tasks whose message was acknowledged are recovered. *)
ToRunAcked == {t \in acked : task[t].state = "ACTIVE"}

ToRun == {t \in Tasks : task[t].state = "ACTIVE"}

ListTasks ==
    /\ listing /\ StoreFree
    /\ listing' = FALSE /\ todo' = ToRun
    /\ UNCHANGED <<files, op, Held, answer, phase, history>>

(***************************************************************************)
(* RecoverIncomplete waits for the lease and runs the task anew (one whose *)
(* action may be under way is failed), unless another thread has dealt     *)
(* with it.  It may find a task whose createMessage gave up.               *)
(***************************************************************************)
RecoverRun(t) ==
    /\ phase = "up" /\ ~listing /\ StoreFree
    /\ t \in todo /\ todo' = todo \ {t}
    /\ \/ /\ task[t].state = "ACTIVE"
          /\ \/ Finishes(t)
             \/ Asks(t) /\ \A h \in Threads : answer[h].task # t
          /\ Overtakes(task[t].of, 0)
          /\ Fences(t)
       \/ /\ task[t].state # "ACTIVE" \/ job[t] = "run"
          /\ UNCHANGED <<task, approval, overtaken, answer>>
    /\ UNCHANGED <<session, journal, op, Held, phase, listing, drawn, acked, giveUps, restarts>>

-----------------------------------------------------------------------------
PrepareStep == SaveJournal \/ SaveTaskFile \/ SaveSessionFile \/ RemoveJournal \/ Accept
JobStep(t) == Run(t) \/ RunReturns(t) \/ Unmark(t) \/ ReleaseTaskSlot(t)
ResumeStep(h) == Resume(h) \/ Cancel(h) \/ Start(h) \/ ExecuteApproved(h) \/ Refused(h)
ResolveStep(h) == \E decision \in {"APPROVED", "REJECTED"} : Resolve(h, decision)
StartStep ==
    \/ \E t \in Tasks : RecoverJournal(t) \/ ResumeResolved(t)
    \/ RecoverTask \/ RecoverSession \/ RecoverRemove
    \/ NewFileStore \/ Serve \/ ListTasks

AdmissionNext ==
    \/ CreateSession
    \/ \E s \in Sessions : \/ CreateMessage(s)
                           \/ \E archive \in BOOLEAN : UpdateSession(s, archive)
    \/ PrepareStep \/ PrepareFails
    \/ \E t \in Tasks : JobStep(t) \/ RunFails(t) \/ Expire(t) \/ RecoverRun(t)
    \/ \E h \in Resolvers, t \in Tasks : TakeSlot(h, t)
    \/ \E h \in Threads : ResolveStep(h) \/ ResumeStep(h) \/ ResumeFails(h)
    \/ Crash
    \/ StartStep

(* The goroutines of the server are scheduled and the server is started again. *)
AdmissionFairness ==
    /\ WF_admissionVars(PrepareStep)
    /\ \A t \in Tasks : WF_admissionVars(JobStep(t)) /\ WF_admissionVars(RecoverRun(t))
    /\ \A h \in Threads : WF_admissionVars(ResolveStep(h) \/ ResumeStep(h))
    /\ WF_admissionVars(StartStep)

AdmissionSpec == AdmissionInit /\ [][AdmissionNext]_admissionVars

-----------------------------------------------------------------------------
(* Properties. *)

(* AdmissionTypeOK: the variables stay in their ranges. *)
AdmissionTypeOK ==
    /\ session \in [Sessions -> Session] /\ task \in [Tasks -> TaskFile]
    /\ journal \in [Tasks -> Journal] /\ approval \in [Tasks -> Approval]
    /\ op \in Operation /\ drawn \in 0..MaxDrawn
    /\ job \in [Tasks -> {"off", "run", "end", "release"}]
    /\ answer \in [Threads -> Answer]
    /\ phase \in {"down", "boot", "up"} /\ todo \subseteq Tasks
    /\ listing \in BOOLEAN /\ overtaken \in BOOLEAN /\ acked \subseteq Tasks
    /\ slots \in 0..MaxConcurrentTasks /\ giveUps \in Nat

(* Who holds what: slots, and the marks on the sessions. *)
Jobs == {t \in Tasks : job[t] # "off"}
Resolving == {h \in Resolvers : answer[h].at # "off"}
Marks == {t \in Tasks : job[t] \in {"run", "end"}}
Preparing == op.stage \in {"prepare", "trace"} \cup Writing
SlotsHeld ==
    slots = Cardinality(Jobs) + Cardinality(Resolving) + (IF Preparing THEN 1 ELSE 0)
MarksHeld ==
    /\ running = {task[t].of : t \in Marks} \cup (IF Preparing THEN {op.of} ELSE {})
    /\ \A t, u \in Marks : task[t].of = task[u].of => t = u
    /\ Preparing => \A t \in Marks : task[t].of # op.of

(* The limit counts tasks that exist; a journal left by a call given up may add one later. *)
Retained == {t \in Tasks : Exists(t) \/ journal[t].there \/ (Preparing /\ t = op.task)}
Abandoned == {t \in Tasks : journal[t].there /\ t # op.task}
Retention ==
    /\ Cardinality(Retained) <= MaxTasks + giveUps
    /\ phase = "up" => Cardinality(Abandoned) <= giveUps

(* An id is unused until the journal of its task is written. *)
Unused(t) == t > drawn \/ (op.stage = "prepare" /\ t = op.task)
IdsFresh ==
    \A t \in Tasks : Unused(t) =>
        /\ ~Exists(t) /\ ~journal[t].there /\ job[t] = "off" /\ approval[t].n = 0
        /\ \A s \in Sessions : t \notin session[s].messages
        /\ \A u \in Tasks : t \notin journal[u].copy.messages

(* How far a preparation or a recovery has come, by its stage. *)
StageReached ==
    /\ op.stage = "idle" => op = Idle
    /\ op.stage # "idle" => op.task \in Tasks
    /\ Preparing => /\ phase = "up" /\ op.task = drawn /\ job[op.task] = "off"
                    /\ session[op.of].there /\ ~session[op.of].archived
    /\ op.stage \in Recovering => phase = "down"
    /\ op.stage \in Writing \cup Recovering => journal[op.task].there /\ journal[op.task].of = op.of
    /\ op.stage = "trace" => ~journal[op.task].there
    /\ op.stage \in {"session", "remove", "trace", "rsession", "rremove"} =>
          Exists(op.task) /\ task[op.task].of = op.of
    /\ op.stage \in {"remove", "trace", "rremove"} => op.task \in session[op.of].messages
    /\ op.stage = "prepare" /\ ~overtaken => UnfinishedOf(op.of) = {}

(* Until a file has gone on, applying a journal adds its task and its message and nothing else. *)
JournalApplies(t) ==
    LET s == journal[t].of
    IN  /\ task[t].state \in {"NONE", "ACTIVE"} /\ approval[t].n = 0
        /\ ~session[s].archived /\ UnfinishedOf(s) \subseteq {t}
        /\ journal[t].copy = [session[s] EXCEPT !.messages = @ \cup {t}]
        /\ \A u \in Tasks : journal[u].there /\ journal[u].of = s => u = t
JournalsValid ==
    \A t \in Tasks : journal[t].there =>
        /\ job[t] = "off" /\ t \in journal[t].copy.messages
        /\ journal[t].copy.there /\ ~journal[t].copy.archived
        /\ Exists(t) => task[t].of = journal[t].of
        /\ ~overtaken => JournalApplies(t)

(* Whose turn it is: at the start nobody else changes the task that is resumed. *)
PhaseReached ==
    /\ listing => phase = "up"
    /\ phase # "up" => /\ \A t \in Tasks : job[t] = "off"
                       /\ \A h \in Resolvers : answer[h].at = "off"
    /\ phase # "boot" => answer["boot"].at = "off"
    /\ phase = "boot" => /\ op = Idle /\ \A t \in Tasks : ~journal[t].there
                         /\ todo \subseteq ToResume
                         /\ answer["boot"].at # "off" => answer["boot"].task \notin todo
                         /\ answer["boot"].at \in {"off", "resume", "cancel", "start", "execute"}
                         /\ answer["boot"].at \in {"cancel", "start"} => task[answer["boot"].task].state = "WAITING"

(* What is answered was asked for, and only one thread carries out the answer. *)
AnswersFit ==
    /\ \A t \in Tasks : /\ approval[t].n > 0 => Exists(t)
                        /\ approval[t].status # "NONE" => approval[t].n > 0
    /\ \A h \in Threads : answer[h].at # "off" =>
          /\ answer[h].task \in Tasks /\ answer[h].n > 0
          /\ answer[h].n <= approval[answer[h].task].n
    /\ ~overtaken => \A h \in Threads : answer[h].at = "execute" =>
          /\ task[answer[h].task].state = "ACTIVE" /\ approval[answer[h].task].n = answer[h].n
          /\ \A k \in Threads : answer[k].at = "execute" /\ answer[k].task = answer[h].task => k = h

(***************************************************************************)
(* AdmissionInv: the types, and the accounts of the server.  Every token   *)
(* in taskSlots belongs to one goroutine, so error paths, early returns    *)
(* and restarts neither leak nor free one twice; a session is marked as    *)
(* running by exactly one goroutine; the retention limits hold, but for    *)
(* the task of each call given up, which the next start may complete; and  *)
(* what the writes of PrepareTask, the recovery and the resumers rely on.  *)
(***************************************************************************)
AdmissionInv ==
    /\ AdmissionTypeOK /\ SlotsHeld /\ MarksHeld /\ Retention
    /\ IdsFresh /\ StageReached /\ JournalsValid /\ PhaseReached /\ AnswersFit

(***************************************************************************)
(* SessionExclusive: a session has at most one unfinished task, and an     *)
(* archived one has none, although the confirmations, the recovery and the *)
(* goroutines change tasks without sessionMu.  (Where an old copy was left *)
(* to be written over a newer file, it does not hold.)                     *)
(***************************************************************************)
SessionExclusive ==
    ~overtaken => \A s \in Sessions :
        /\ Cardinality(UnfinishedOf(s)) <= 1
        /\ session[s].archived => UnfinishedOf(s) = {}

(***************************************************************************)
(* AllOrNothing: whichever write of PrepareTask or of its recovery a call  *)
(* or the process ends at, a task that has no journal left exists exactly  *)
(* when its message is in its session.                                     *)
(***************************************************************************)
AllOrNothing ==
    ~overtaken => \A t \in Tasks :
        ~journal[t].there /\ op.task # t =>
            (Exists(t) <=> \E s \in Sessions : t \in session[s].messages)

(***************************************************************************)
(* NotReset: no start, whatever journals it finds, makes a finished task   *)
(* active again.                                                           *)
(***************************************************************************)
NotReset ==
    [][phase # "up" /\ ~overtaken =>
          \A t \in Tasks : task[t].state = "DONE" => task'[t].state = "DONE"]_admissionVars

(***************************************************************************)
(* AdmittedSettles: once its journal is on disk a task leaves the ACTIVE   *)
(* state, whoever runs it and however often the server ends, unless a call *)
(* is given up.                                                            *)
(***************************************************************************)
AdmittedSettles ==
    \A t \in Tasks :
        (journal[t].there \/ task[t].state = "ACTIVE")
            ~> (task[t].state \in {"WAITING", "DONE"} \/ giveUps > 0)

(***************************************************************************)
(* AnswersTakenUp: an approval that was answered, or that expired (a late  *)
(* answer does not resume its task), is acted on by the next start.        *)
(***************************************************************************)
Answered(t) ==
    task[t].state = "WAITING" /\ approval[t].status \in {"APPROVED", "REJECTED", "EXPIRED"}
AnswersTakenUp ==
    \A t \in Tasks : Answered(t) /\ phase = "down" ~> ~Answered(t) \/ giveUps > 0

(***************************************************************************)
(* AdmissionSettles: no task that was accepted, and none whose approval    *)
(* was answered or expired, is left behind by a crash, an early return or  *)
(* a call that never comes.                                                *)
(***************************************************************************)
AdmissionSettles == AdmittedSettles /\ AnswersTakenUp

(***************************************************************************)
(* MessagesKept: once createMessage has answered 202 the message stays in  *)
(* its session (PLAN.md: refresh and server restart retain messages).      *)
(***************************************************************************)
MessagesKept ==
    \A t \in acked : phase = "up" /\ StoreFree => t \in session[task[t].of].messages
=============================================================================
