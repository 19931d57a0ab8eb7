--------------------------- MODULE TaskFlowProofs ---------------------------
(***************************************************************************)
(* Proofs about TaskFlow, for any handlers, approvals, claims, restarts    *)
(* and faults, and for every interleaving of runs, resumptions, answers of *)
(* the operator and of the executor: waiting tasks can be resumed, nothing *)
(* sent before a restart is sent again, and the outcome in the task file   *)
(* is what happened.                                                       *)
(***************************************************************************)
EXTENDS TaskFlow, FiniteSetTheorems, TLAPS

(* Pcs of an actor that holds a copy of the task. *)
Bare == {"off", "listing", "waiting", "start", "checked", "resolved"}
Held(a) == act[a].pc \notin Bare
WorkerPCs == {"off", "listing", "waiting", "start", "checked", "working", "asking", "asked",
              "release", "failing", "completed"}
ResumerPCs == {"off", "resolved", "loaded", "executing", "sent", "replied", "verified",
               "rechecking", "planning", "asking", "asked", "failing", "completed"}

(* Who is where; a resumer has an approval to act on. *)
Places ==
    /\ \A w \in Workers : act[w].pc \in WorkerPCs
    /\ \A r \in Resumers : /\ act[r].pc \in ResumerPCs
                           /\ act[r].pc # "off" => act[r].id \in Approvals

(* Waits: whoever an envelope is to be answered to waits for the answer. *)
Waits ==
    \A p \in inbox : p[2] # "gone" => act[p[2]].pc = "sent" /\ act[p[2]].id = p[1]

(***************************************************************************)
(* Leases: a token is named by its fence, a copy is never newer than the   *)
(* file, and a worker's copy carries the lease it was claimed with.  While *)
(* nothing fails a lease on disk is that of a run that will release it.    *)
(***************************************************************************)
Leases ==
    /\ disk.token \in {0, disk.fence}
    /\ \A a \in Actors : Held(a) =>
          /\ act[a].t.token \in {0, act[a].t.fence} /\ act[a].t.fence <= disk.fence
          /\ act[a].t.fence = disk.fence /\ act[a].t.token = 0 => disk.token = 0
    /\ \A w \in Workers : Held(w) => act[w].t.token # 0
    /\ crashes = 0 /\ faults = 0 /\ disk.token # 0 =>
          \E w \in Workers : /\ Held(w) /\ act[w].t.fence = disk.fence
                             /\ act[w].t.token = disk.token

(* The statuses an approval can have while somebody acts on the answer s. *)
Compatible(s, status) ==
    \/ s = "APPROVED" /\ status \in {"APPROVED", "CONSUMED", "EXPIRED"}
    \/ s = "REJECTED" /\ status \in {"REJECTED", "EXPIRED"}
    \/ s = "EXPIRED" /\ status = "EXPIRED"

(***************************************************************************)
(* Answers: resumers act on an answer the approval has; two on the same    *)
(* approval act on the same answer; handlers rest until boot is done.      *)
(***************************************************************************)
Answers ==
    /\ \A r \in Resumers : act[r].pc # "off" => Compatible(act[r].status, appr[act[r].id])
    /\ \A p \in todo : Compatible(p[2], appr[p[1]])
    /\ Booting => \A h \in Handlers : act[h].pc = "off"
    /\ \A r, q \in Resumers :
          act[r].pc # "off" /\ act[q].pc # "off" /\ act[r].id = act[q].id =>
              act[r].status = act[q].status
    /\ \A r \in Resumers :
          act[r].pc \notin {"off", "resolved", "loaded"} => act[r].status = "APPROVED"
    /\ \A k \in Approvals : appr[k] = "EXPIRED" => k \in late

(* Approvals are asked for in turn. *)
InTurn == Asked \in 0..MaxApprovals /\ \A k \in Approvals : appr[k] # "ABSENT" <=> k <= Asked

(* Envelopes: what was sent and what took place. *)
Envelopes ==
    /\ \A k \in Approvals :
          /\ effects[k] \in {0, 1}
          /\ effects[k] = 1 => sent[k] > 0 /\ (appr[k] = "CONSUMED" \/ k \in late)
          /\ sent[k] > 0 => appr[k] # "ABSENT"
    /\ \A p \in inbox : sent[p[1]] > 0
    /\ \A r \in Resumers :
          act[r].pc \in {"sent", "replied", "verified", "rechecking", "planning"} =>
              sent[act[r].id] > 0

(***************************************************************************)
(* Copies: a resumer's copy is of the approval it acts on until the action *)
(* is taken off it; what is being asked for is nowhere else yet; and a     *)
(* task that waits waits for something nobody has begun.                   *)
(***************************************************************************)
Copies ==
    /\ \A r \in Resumers :
          act[r].pc \in {"loaded", "executing", "sent", "replied", "verified"} =>
              act[r].t.pend = act[r].id
    /\ \A a \in Actors : act[a].pc = "asking" =>
          /\ act[a].t.pend \in Approvals /\ appr[act[a].t.pend] # "ABSENT"
          /\ act[a].t.state = "WAITING"
          /\ disk.pend # act[a].t.pend /\ sent[act[a].t.pend] = 0
          /\ \A b \in Actors : b # a /\ Held(b) => act[b].t.pend # act[a].t.pend
          /\ \A r \in Resumers : Held(r) => act[r].id # act[a].t.pend
    /\ disk.pend # 0 => appr[disk.pend] # "ABSENT"
    /\ \A a \in Actors : Held(a) /\ act[a].t.pend # 0 => appr[act[a].t.pend] # "ABSENT"
    /\ disk.state = "WAITING" =>
          /\ disk.pend \in Approvals /\ sent[disk.pend] = 0
          /\ \A r \in Resumers : act[r].pc = "executing" => act[r].id # disk.pend

(***************************************************************************)
(* Lost: nobody acts on an approval whose envelope was sent before the     *)
(* restart, and a task in flight with one is left to a run that fails it.  *)
(***************************************************************************)
Lost ==
    /\ \A k \in lost : sent[k] > 0
    /\ \A r \in Resumers : Held(r) => act[r].id \notin lost
    /\ InFlight(disk) /\ disk.pend \in lost =>
          /\ \A r \in Resumers : ~Held(r)
          /\ \A w \in Workers : Held(w) => act[w].pc \in {"failing", "release"}

-----------------------------------------------------------------------------
(***************************************************************************)
(* The shapes of the steps.  Only(a): no other actor moves.                *)
(***************************************************************************)
SameLease(t, u) == t.token = u.token /\ t.fence = u.fence
SameErrand(a) == act'[a].id = act[a].id /\ act'[a].status = act[a].status
Only(a) == act' \in [Actors -> Actor] /\ \A b \in Actors : b # a => act'[b] = act[b]

(* a looks, waits, fails, gives up or is done, and saves nothing. *)
Yields(a) ==
    /\ UNCHANGED <<disk, environment, raced>> /\ Only(a)
    /\ act[a].pc # "sent"
    /\ faults' \in 0..MaxFaults /\ faults' \in {faults, faults + 1}
    /\ \/ appr' = appr
       \/ act[a].pc \in {"asking", "asked"} /\ appr' = Withdrawn(act[a].t.pend)
    /\ \/ act'[a] = Off /\ (a \in Workers /\ Held(a) => faults' # faults \/ ~SameLease(act[a].t, disk))
       \/ a \in Workers /\ act[a].pc \in Bare /\ act'[a].pc \in {"waiting", "start", "checked"}
       \/ /\ Held(a) /\ act[a].pc # "loaded"
          /\ act'[a].pc \in {"failing", "release"} /\ (a \in Resumers => act'[a].pc = "failing")
          /\ SameErrand(a) /\ SameLease(act'[a].t, act[a].t)
          /\ act'[a].t.pend \in {0, act[a].t.pend}

(* a saves its copy: from where, to where, and what the task is then. *)
Edge(a, from, to, state, pend) ==
    /\ act[a].pc = from /\ act'[a].pc = to
    /\ disk'.state = state /\ disk'.pend = pend

WorkerEdge(w) ==
    \/ Edge(w, "working", "working", "WORKING", act[w].t.pend)
    \/ Edge(w, "working", "completed", "COMPLETED", act[w].t.pend)
    \/ Edge(w, "failing", "release", "FAILED", act[w].t.pend)

ResumerEdge(r) ==
    \/ Edge(r, "loaded", "off", "CANCELLED", 0) /\ act[r].status # "APPROVED"
    \/ Edge(r, "loaded", "executing", "EXECUTING", act[r].t.pend) /\ act[r].status = "APPROVED"
    \/ Edge(r, "replied", "verified", "VERIFYING", act[r].t.pend)
    \/ Edge(r, "verified", "off", "COMPLETED", 0)
    \/ Edge(r, "verified", "planning", "WORKING", 0)
    \/ Edge(r, "verified", "rechecking", "VERIFYING", 0)
    \/ Edge(r, "rechecking", "completed", "COMPLETED", 0)
    \/ Edge(r, "failing", "off", "FAILED", act[r].t.pend)

Saves(a) ==
    /\ UNCHANGED <<environment, raced, appr, faults>> /\ Only(a)
    /\ disk' \in Task /\ WriteAllowed(disk, disk', Fresh) /\ SameLease(disk', act[a].t)
    /\ \/ act'[a] = Off /\ a \in Resumers
       \/ act'[a].pc # "off" /\ act'[a].t = disk' /\ SameErrand(a)
    /\ \/ Edge(a, "asking", "asked", act[a].t.state, act[a].t.pend)
       \/ a \in Workers /\ WorkerEdge(a)
       \/ a \in Resumers /\ ResumerEdge(a)

(* w claims the task, w releases it. *)
Claims(w) ==
    /\ UNCHANGED <<environment, appr, faults>> /\ Only(w)
    /\ act[w].pc = "checked"
    /\ disk' \in Task /\ disk'.state = disk.state /\ disk'.pend = disk.pend
    /\ disk'.fence = disk.fence + 1 /\ disk'.token = disk'.fence
    /\ act'[w].pc = (IF InFlight(disk) THEN "failing" ELSE "working") /\ act'[w].t = disk'
    /\ raced' = (raced \/ Parked(disk))

Releases(w) ==
    /\ UNCHANGED <<environment, raced, appr, faults>> /\ Only(w)
    /\ act[w].pc = "release" /\ SameLease(act[w].t, disk)
    /\ disk' \in Task /\ disk'.state = disk.state /\ disk'.pend = disk.pend
    /\ disk'.fence = disk.fence /\ disk'.token = 0
    /\ act'[w] = Off

(* a creates approval Asked + 1. *)
Asks(a) ==
    /\ UNCHANGED <<environment, raced, disk, faults>> /\ Only(a)
    /\ act[a].pc = (IF a \in Workers THEN "working" ELSE "planning") /\ act'[a].pc = "asking"
    /\ SameErrand(a) /\ SameLease(act'[a].t, act[a].t)
    /\ act'[a].t.state = "WAITING" /\ act'[a].t.pend = Asked + 1
    /\ Asked + 1 \in Approvals /\ appr' = [appr EXCEPT ![Asked + 1] = "PENDING"]

(* h resolves approval k; past its lifetime k is closed; boot takes a pair. *)
Decides(h, k, d) ==
    /\ UNCHANGED <<environment, raced, disk, faults>> /\ Only(h)
    /\ act[h].pc = "off" /\ ~Booting
    /\ k \notin late /\ appr[k] \in {"PENDING", d} /\ appr' = [appr EXCEPT ![k] = d]
    /\ act'[h].pc = "resolved" /\ act'[h].id = k /\ act'[h].status = d

Closes(k) ==
    /\ UNCHANGED <<environment, raced, disk, faults, act>>
    /\ k \in late /\ appr[k] # "ABSENT" /\ appr' = [appr EXCEPT ![k] = "EXPIRED"]

Boots(p) ==
    /\ UNCHANGED <<disk, over, appr, late, inbox, sent, effects, lost, raced, crashes, faults>>
    /\ todo' = todo \ {p} /\ Only("boot") /\ act["boot"].pc = "off"
    /\ act'["boot"].pc = "resolved" /\ act'["boot"].id = p[1] /\ act'["boot"].status = p[2]

(* r loads a task that waits for its approval, sends the envelope, gives up on the answer. *)
Loads(r) ==
    /\ UNCHANGED <<environment, raced, disk, appr, faults>> /\ Only(r)
    /\ act[r].pc = "resolved" /\ disk.pend = act[r].id /\ disk.state = "WAITING"
    /\ act'[r].pc = "loaded" /\ act'[r].t = disk /\ SameErrand(r)

Sends(r) ==
    /\ UNCHANGED <<disk, over, appr, late, todo, effects, lost, raced, crashes, faults>> /\ Only(r)
    /\ act[r].pc = "executing" /\ act'[r].pc = "sent"
    /\ act'[r].t = act[r].t /\ SameErrand(r)
    /\ inbox' = inbox \cup {<<act[r].id, r>>}
    /\ sent' = [sent EXCEPT ![act[r].id] = @ + 1]

GivesUp(r) ==
    /\ UNCHANGED <<disk, over, appr, late, todo, sent, effects, lost, raced, crashes>> /\ Only(r)
    /\ faults' = faults + 1 /\ faults' \in 0..MaxFaults
    /\ act[r].pc = "sent"
    /\ inbox' = (inbox \ {<<act[r].id, r>>}) \cup {<<act[r].id, "gone">>}
    /\ \/ act'[r] = Off
       \/ act'[r].pc = "failing" /\ act'[r].t = act[r].t /\ SameErrand(r)

(* The executor answers r; it may have carried out the action of k. *)
Effects(k, r) ==
    /\ UNCHANGED <<disk, over, late, todo, sent, lost, raced, crashes, faults>>
    /\ <<k, r>> \in inbox /\ inbox' = inbox \ {<<k, r>>}
    /\ \/ r = "gone" /\ act' = act
       \/ /\ r # "gone" /\ Only(r) /\ act'[r].pc \in {"failing", "replied"}
          /\ act'[r].t = act[r].t /\ SameErrand(r)
    /\ \/ /\ appr[k] = "APPROVED" /\ k \notin late /\ appr' = [appr EXCEPT ![k] = "CONSUMED"]
          /\ effects' = [effects EXCEPT ![k] = @ + 1]
       \/ /\ appr[k] = "APPROVED" /\ appr' = [appr EXCEPT ![k] = "CONSUMED"] /\ effects' = effects
          /\ r # "gone" => act'[r].pc = "failing"
       \/ /\ appr' = appr /\ effects' = effects
          /\ r # "gone" => act'[r].pc = "failing"

-----------------------------------------------------------------------------
(* The copy of a is not behind the file: its lease is the one on disk. *)
Live(a) == Held(a) /\ SameLease(act[a].t, disk)
(* An actor that decides how the task goes on. *)
Driving == {"working", "asking", "replied", "verified", "rechecking", "planning"}
Driver(a) == a \in Actors /\ Live(a) /\ act[a].pc \in Driving
(* A resumer on its way to the executor. *)
Ahead == {"loaded", "executing", "sent"}
Before(r) == r \in Resumers /\ Live(r) /\ act[r].pc \in Ahead

Touched(k) == sent[k] > 0 \/ \E r \in Resumers : act[r].pc = "executing" /\ act[r].id = k
Clean == \A k \in Approvals : Touched(k) => effects[k] = 1

(* States in which a run may go on, or nobody has to. *)
GoesOn(t) == \/ t.state \in {"NEW", "WORKING", "COMPLETED"}
             \/ t.state \in {"EXECUTING", "VERIFYING"} /\ t.pend = 0

Outcome1 == GoesOn(disk) => Clean

Outcome2 ==
    \A a \in Actors : Driver(a) =>
        /\ Clean
        /\ \A b \in Actors : Driver(b) => b = a
        /\ \A r \in Resumers : Before(r) => effects[act[r].id] = 1
        /\ act[a].pc = "asking" => \A j \in Approvals : j >= act[a].t.pend => ~Touched(j)

Outcome3 ==
    disk.state = "WAITING" =>
        /\ \A j \in Approvals : j < disk.pend /\ Touched(j) => effects[j] = 1
        /\ \A j \in Approvals : j >= disk.pend => ~Touched(j)
        /\ \A a \in Actors : ~Driver(a)
        /\ \A r \in Resumers : Before(r) => act[r].id = disk.pend \/ effects[act[r].id] = 1

Outcome4 ==
    \A r \in Resumers : Before(r) /\ effects[act[r].id] = 0 =>
        /\ \A j \in Approvals : j # act[r].id /\ Touched(j) => effects[j] = 1
        /\ \A j \in Approvals : j > act[r].id => ~Touched(j)
        /\ \A a \in Actors : ~Driver(a)
        /\ \A q \in Resumers : Before(q) => act[q].id = act[r].id \/ effects[act[q].id] = 1
        /\ act[r].status # "APPROVED" => \A j \in Approvals : j = act[r].id => ~Touched(j)

Outcome5 == \A r \in Resumers : Before(r) /\ act[r].status # "APPROVED" => effects[act[r].id] = 0

Outcome6 == disk.state = "CANCELLED" => \A j \in Approvals : j = Asked => ~Touched(j)

Outcomes == Outcome1 /\ Outcome2 /\ Outcome3 /\ Outcome4 /\ Outcome5 /\ Outcome6

OutcomeInv == ~raced => Outcomes

-----------------------------------------------------------------------------
(* Every step has one of the shapes. *)

LEMMA NewTaskType == NewTask \in Task /\ Off \in Actor /\ Off.pc = "off"
BY FlowAssumption DEF NewTask, Off, Task, Actor, States, Statuses, PCs

LEMMA ActorSets ==
    /\ Workers \subseteq Actors /\ Resumers \subseteq Actors /\ Handlers \subseteq Resumers
    /\ "creator" \in Workers /\ "recovery" \in Workers /\ "boot" \in Resumers
    /\ \A r \in Resumers : r \notin Workers /\ r # "gone"
    /\ \A a \in Actors : a \in Workers \/ a \in Resumers
BY FlowAssumption DEF Workers, Resumers, Actors

LEMMA GotoMoves ==
    ASSUME FlowTypeOK, NEW a \in Actors, NEW pc \in PCs, Goto(a, pc)
    PROVE  /\ Only(a) /\ act'[a].pc = pc /\ act'[a].t = act[a].t /\ SameErrand(a)
BY DEF FlowTypeOK, Goto, Only, SameErrand, Actor

LEMMA StopMoves ==
    ASSUME FlowTypeOK, NEW a \in Actors, Stop(a)
    PROVE  Only(a) /\ act'[a] = Off /\ act'[a].pc = "off"
BY NewTaskType DEF FlowTypeOK, Stop, Only

LEMMA HoldMoves ==
    ASSUME FlowTypeOK, NEW a \in Actors, NEW pc \in PCs, NEW t \in Task, Hold(a, pc, t)
    PROVE  /\ Only(a) /\ act'[a].pc = pc
           /\ pc = "off" => act'[a] = Off
           /\ pc # "off" => act'[a].t = t /\ SameErrand(a)
<1>1. CASE pc = "off"
  BY <1>1, StopMoves DEF Hold
<1>2. CASE pc # "off"
  <2>1. act' = [act EXCEPT ![a].pc = pc, ![a].t = t]
    BY <1>2 DEF Hold
  <2> QED BY <1>2, <2>1 DEF FlowTypeOK, Only, SameErrand, Actor
<1> QED BY <1>1, <1>2

(* The copies that are saved. *)
LEMMA CopyFields ==
    ASSUME NEW t \in Task, NEW s \in States, NEW p \in 0..MaxApprovals
    PROVE  /\ [t EXCEPT !.state = s] \in Task
           /\ [t EXCEPT !.state = s].state = s /\ [t EXCEPT !.state = s].pend = t.pend
           /\ SameLease([t EXCEPT !.state = s], t)
           /\ [t EXCEPT !.state = s, !.pend = p] \in Task
           /\ [t EXCEPT !.state = s, !.pend = p].state = s /\ [t EXCEPT !.state = s, !.pend = p].pend = p
           /\ SameLease([t EXCEPT !.state = s, !.pend = p], t)
           /\ [t EXCEPT !.pend = p] \in Task /\ [t EXCEPT !.pend = p].pend = p
           /\ SameLease([t EXCEPT !.pend = p], t)
BY DEF Task, SameLease

LEMMA StateNames == /\ \A s \in {"WORKING", "WAITING", "EXECUTING", "VERIFYING", "COMPLETED", "FAILED", "CANCELLED"} :
                          s \in States
                    /\ 0 \in 0..MaxApprovals
BY FlowAssumption DEF States

(* A save is accepted, or the actor moves to where a refusal leads. *)
Accepted(a, next, pc) ==
    /\ WriteAllowed(disk, next, Fresh) /\ disk' = next /\ Only(a) /\ act'[a].pc = pc
    /\ pc = "off" => act'[a] = Off
    /\ pc # "off" => act'[a].t = next /\ SameErrand(a)

Refused(a, next, pc) ==
    /\ disk' = disk /\ Only(a) /\ act'[a].pc = pc
    /\ pc = "off" => act'[a] = Off
    /\ pc # "off" => act'[a].t = next /\ SameErrand(a)

LEMMA SaveMoves ==
    ASSUME FlowTypeOK, NEW a \in Actors, NEW next \in Task, NEW pc \in PCs, NEW refused \in PCs,
           SaveTask(a, next, pc, refused)
    PROVE  \/ Accepted(a, next, pc)
           \/ ~WriteAllowed(disk, next, Fresh) /\ Refused(a, next, refused)
<1>1. CASE WriteAllowed(disk, next, Fresh)
  BY <1>1, HoldMoves DEF SaveTask, Accepted
<1>2. CASE ~WriteAllowed(disk, next, Fresh)
  BY <1>2, HoldMoves DEF SaveTask, Refused
<1> QED BY <1>1, <1>2

LEMMA ActorTypes ==
    ASSUME FlowTypeOK, NEW a \in Actors
    PROVE  /\ act[a] \in Actor /\ act[a].t \in Task /\ act[a].pc \in PCs
           /\ act[a].t.pend \in 0..MaxApprovals /\ disk \in Task /\ faults \in Nat
           /\ {"off", "waiting", "start", "checked", "working", "asking", "asked", "release", "failing",
               "loaded", "executing", "sent", "replied", "verified", "rechecking", "planning",
               "completed"} \subseteq PCs
BY FlowAssumption DEF FlowTypeOK, Actor, Task, PCs

LEMMA LookShape ==
    ASSUME FlowTypeOK, ListTasks \/ LeaseAwaited
    PROVE  Yields("recovery")
<1>0. "recovery" \in Actors /\ "recovery" \in Workers
  BY ActorSets
<1>1. act["recovery"].pc \in {"listing", "waiting"} /\ Quiet /\ UNCHANGED <<disk, appr, faults>>
  BY DEF ListTasks, LeaseAwaited
<1>2. \/ Only("recovery") /\ act'["recovery"] = Off
      \/ Only("recovery") /\ act'["recovery"].pc \in {"waiting", "start"}
  <2>1. CASE ListTasks /\ Parked(disk)
    BY <2>1, <1>0, StopMoves DEF ListTasks
  <2>2. CASE ListTasks /\ ~Parked(disk)
    BY <2>2, <1>0, HoldMoves, ActorTypes DEF ListTasks
  <2>3. CASE LeaseAwaited
    BY <2>3, <1>0, GotoMoves, ActorTypes DEF LeaseAwaited
  <2> QED BY <2>1, <2>2, <2>3
<1> QED BY <1>0, <1>1, <1>2 DEF Yields, Quiet, Bare, Held, FlowTypeOK

LEMMA WorkerShape ==
    ASSUME FlowTypeOK, NEW w \in Workers,
           CheckState(w) \/ WorkFails(w) \/ Finish(w) \/ WorkerFault(w)
    PROVE  Yields(w)
<1>0. w \in Actors /\ w \notin Resumers
  BY ActorSets
<1>1. CASE CheckState(w)
  <2>1. \/ Only(w) /\ act'[w] = Off
        \/ Only(w) /\ act'[w].pc = "checked"
    <3>1. CASE Parked(disk)
      BY <1>1, <3>1, <1>0, StopMoves DEF CheckState
    <3>2. CASE ~Parked(disk)
      BY <1>1, <3>2, <1>0, GotoMoves, ActorTypes DEF CheckState
    <3> QED BY <3>1, <3>2
  <2> QED BY <1>0, <1>1, <2>1 DEF CheckState, Yields, Quiet, Bare, Held, FlowTypeOK
<1>2. CASE WorkFails(w) \/ Finish(w)
  <2>1. /\ Only(w) /\ act'[w].pc \in {"failing", "release"} /\ act'[w].t = act[w].t /\ SameErrand(w)
        /\ act[w].pc \in {"working", "completed"} /\ Quiet /\ UNCHANGED <<disk, appr, faults>>
    BY <1>0, <1>2, GotoMoves, ActorTypes DEF WorkFails, Finish
  <2> QED BY <1>0, <2>1 DEF Yields, Quiet, Bare, Held, FlowTypeOK, SameLease
<1>3. CASE WorkerFault(w)
  <2>1. /\ act[w].pc \in {"working", "completed", "failing", "release"}
        /\ Quiet /\ UNCHANGED <<disk, appr>> /\ faults' = faults + 1 /\ faults' \in 0..MaxFaults /\ faults' # faults
    BY <1>3, FlowAssumption DEF WorkerFault, Fault, FlowTypeOK
  <2>2. \/ Only(w) /\ act'[w] = Off
        \/ Only(w) /\ act'[w].pc \in {"failing", "release"} /\ act'[w].t = act[w].t /\ SameErrand(w)
    <3>1. CASE Goto(w, "failing") \/ Goto(w, "release")
      BY <1>0, <3>1, GotoMoves, ActorTypes
    <3>2. CASE Stop(w)
      BY <1>0, <3>2, StopMoves
    <3> QED BY <1>3, <3>1, <3>2 DEF WorkerFault
  <2> QED BY <1>0, <2>1, <2>2 DEF Yields, Quiet, Bare, Held, SameLease
<1> QED BY <1>1, <1>2, <1>3

LEMMA WorkerSaveShape ==
    ASSUME FlowTypeOK, NEW w \in Workers, Work(w) \/ Complete(w) \/ MarkFailed(w)
    PROVE  Saves(w) \/ Yields(w)
<1>0. /\ w \in Actors /\ w \notin Resumers /\ act[w].t \in Task /\ faults \in 0..MaxFaults
      /\ act[w].t.pend \in 0..MaxApprovals
  BY ActorSets, ActorTypes DEF FlowTypeOK
<1>1. Quiet /\ UNCHANGED <<appr, faults>> /\ act[w].pc \in {"working", "failing"}
  BY DEF Work, Complete, MarkFailed
<1>2. PICK s \in States, next \in Task, to \in PCs, no \in PCs :
        /\ next = [act[w].t EXCEPT !.state = s]
        /\ SaveTask(w, next, to, no) /\ no \in {"failing", "release"}
        /\ \/ act[w].pc = "working" /\ s = "WORKING" /\ to = "working"
           \/ act[w].pc = "working" /\ s = "COMPLETED" /\ to = "completed"
           \/ act[w].pc = "failing" /\ s = "FAILED" /\ to = "release"
  <2>1. CASE Work(w)
    BY <2>1, <1>0, CopyFields, StateNames, ActorTypes DEF Work
  <2>2. CASE Complete(w)
    BY <2>2, <1>0, CopyFields, StateNames, ActorTypes DEF Complete
  <2>3. CASE MarkFailed(w)
    BY <2>3, <1>0, CopyFields, StateNames, ActorTypes DEF MarkFailed
  <2> QED BY <2>1, <2>2, <2>3
<1>3. next.state = s /\ next.pend = act[w].t.pend /\ SameLease(next, act[w].t)
  BY <1>0, <1>2, CopyFields
<1>4. CASE Accepted(w, next, to)
  BY <1>0, <1>1, <1>2, <1>3, <1>4 DEF Accepted, Saves, Quiet, WorkerEdge, Edge
<1>5. CASE Refused(w, next, no)
  BY <1>0, <1>1, <1>2, <1>3, <1>5 DEF Refused, Yields, Quiet, Bare, Held, SameLease
<1> QED BY <1>0, <1>2, <1>4, <1>5, SaveMoves

(* What a resumer may save, where it goes on and where a refusal leads. *)
ResumerSave(r, next, to, no) ==
    /\ SameLease(next, act[r].t)
    /\ no = "off" \/ (no = "failing" /\ act[r].pc # "loaded")
    /\ \/ /\ act[r].pc = "loaded" /\ to = "off" /\ next.state = "CANCELLED" /\ next.pend = 0
          /\ act[r].status # "APPROVED"
       \/ /\ act[r].pc = "loaded" /\ to = "executing" /\ next.state = "EXECUTING"
          /\ next.pend = act[r].t.pend /\ act[r].status = "APPROVED"
       \/ /\ act[r].pc = "replied" /\ to = "verified" /\ next.state = "VERIFYING"
          /\ next.pend = act[r].t.pend
       \/ act[r].pc = "verified" /\ to = "off" /\ next.state = "COMPLETED" /\ next.pend = 0
       \/ act[r].pc = "verified" /\ to = "planning" /\ next.state = "WORKING" /\ next.pend = 0
       \/ act[r].pc = "verified" /\ to = "rechecking" /\ next.state = "VERIFYING" /\ next.pend = 0
       \/ act[r].pc = "rechecking" /\ to = "completed" /\ next.state = "COMPLETED" /\ next.pend = 0
       \/ act[r].pc = "failing" /\ to = "off" /\ next.state = "FAILED" /\ next.pend = act[r].t.pend

LEMMA ResumerSaves ==
    ASSUME FlowTypeOK, NEW r \in Resumers, NEW next \in Task, NEW to \in PCs, NEW no \in PCs,
           ResumerSave(r, next, to, no), SaveTask(r, next, to, no),
           Quiet, UNCHANGED <<appr, faults>>
    PROVE  Saves(r) \/ Yields(r)
<1>0. r \in Actors /\ r \notin Workers /\ faults \in 0..MaxFaults
  BY ActorSets DEF FlowTypeOK
<1>1. CASE Accepted(r, next, to)
  BY <1>0, <1>1 DEF ResumerSave, Accepted, Saves, Quiet, ResumerEdge, Edge
<1>2. CASE Refused(r, next, no)
  BY <1>0, <1>2 DEF ResumerSave, Refused, Yields, Quiet, Bare, Held, SameLease
<1> QED BY <1>0, <1>1, <1>2, SaveMoves

LEMMA ResumerSaveShape ==
    ASSUME FlowTypeOK, NEW r \in Resumers,
           \/ CancelTask(r) \/ BeginExecution(r) \/ SaveVerifying(r) \/ CompleteTask(r)
           \/ ContinueAfterAction(r) \/ VerifyRecovery(r) \/ FailExecution(r)
    PROVE  Saves(r) \/ Yields(r)
<1> DEFINE As(s) == [act[r].t EXCEPT !.state = s]
           Bared == [act[r].t EXCEPT !.pend = 0]
<1>0. /\ r \in Actors /\ r \notin Workers /\ faults \in 0..MaxFaults
      /\ {"off", "executing", "verified", "planning", "rechecking", "completed", "failing"} \subseteq PCs
  BY ActorSets, ActorTypes DEF FlowTypeOK
<1>1. /\ Quiet /\ UNCHANGED <<appr, faults>>
      /\ act[r].pc \in {"loaded", "replied", "verified", "rechecking", "failing"}
  BY DEF CancelTask, BeginExecution, SaveVerifying, CompleteTask, ContinueAfterAction, VerifyRecovery,
         FailExecution
<1>2. \A s \in States : /\ As(s) \in Task /\ As(s).state = s /\ As(s).pend = act[r].t.pend
                        /\ SameLease(As(s), act[r].t)
                        /\ Settled(r, s) \in Task /\ Settled(r, s).state = s /\ Settled(r, s).pend = 0
                        /\ SameLease(Settled(r, s), act[r].t)
  <2> SUFFICES ASSUME NEW s \in States
               PROVE  /\ As(s) \in Task /\ As(s).state = s /\ As(s).pend = act[r].t.pend
                      /\ SameLease(As(s), act[r].t)
                      /\ Settled(r, s) \in Task /\ Settled(r, s).state = s /\ Settled(r, s).pend = 0
                      /\ SameLease(Settled(r, s), act[r].t)
    OBVIOUS
  <2>1. act[r].t \in Task /\ 0 \in 0..MaxApprovals
    BY <1>0, ActorTypes, StateNames
  <2> QED BY <2>1 DEF Settled, Task, SameLease
<1>3. /\ Bared \in Task /\ Bared.pend = 0 /\ SameLease(Bared, act[r].t)
  BY <1>0, CopyFields, ActorTypes, StateNames
<1>4. CASE CancelTask(r)
  <2>1. /\ SaveTask(r, Settled(r, "CANCELLED"), "off", "off")
        /\ act[r].pc = "loaded" /\ act[r].status # "APPROVED"
    BY <1>4 DEF CancelTask, Settled
  <2>2. ResumerSave(r, Settled(r, "CANCELLED"), "off", "off")
    BY <2>1, <1>2, StateNames DEF ResumerSave
  <2> QED BY <2>1, <2>2, <1>0, <1>1, <1>2, ResumerSaves, StateNames
<1>5. CASE BeginExecution(r)
  <2>1. /\ SaveTask(r, As("EXECUTING"), "executing", "off")
        /\ act[r].pc = "loaded" /\ act[r].status = "APPROVED"
    BY <1>5 DEF BeginExecution
  <2>2. ResumerSave(r, As("EXECUTING"), "executing", "off")
    BY <2>1, <1>2, StateNames DEF ResumerSave
  <2> HIDE DEF As
  <2> QED BY <2>1, <2>2, <1>0, <1>1, <1>2, ResumerSaves, StateNames
<1>6. CASE SaveVerifying(r)
  <2>1. SaveTask(r, As("VERIFYING"), "verified", "off") /\ act[r].pc = "replied"
    BY <1>6 DEF SaveVerifying
  <2>2. ResumerSave(r, As("VERIFYING"), "verified", "off")
    BY <2>1, <1>2, StateNames DEF ResumerSave
  <2> HIDE DEF As
  <2> QED BY <2>1, <2>2, <1>0, <1>1, <1>2, ResumerSaves, StateNames
<1>7. CASE CompleteTask(r)
  <2>1. SaveTask(r, Settled(r, "COMPLETED"), "off", "off") /\ act[r].pc = "verified"
    BY <1>7 DEF CompleteTask
  <2>2. ResumerSave(r, Settled(r, "COMPLETED"), "off", "off")
    BY <2>1, <1>2, StateNames DEF ResumerSave
  <2> QED BY <2>1, <2>2, <1>0, <1>1, <1>2, ResumerSaves, StateNames
<1>8. CASE ContinueAfterAction(r)
  <2>0. act[r].pc = "verified"
    BY <1>8 DEF ContinueAfterAction
  <2>1. CASE SaveTask(r, Settled(r, "WORKING"), "planning", "failing")
    <3>1. ResumerSave(r, Settled(r, "WORKING"), "planning", "failing")
      BY <2>0, <1>2, StateNames DEF ResumerSave
    <3> QED BY <2>1, <3>1, <1>0, <1>1, <1>2, ResumerSaves, StateNames
  <2>2. CASE SaveTask(r, Settled(r, "VERIFYING"), "rechecking", "failing")
    <3>1. ResumerSave(r, Settled(r, "VERIFYING"), "rechecking", "failing")
      BY <2>0, <1>2, StateNames DEF ResumerSave
    <3> QED BY <2>2, <3>1, <1>0, <1>1, <1>2, ResumerSaves, StateNames
  <2>3. CASE Hold(r, "failing", Bared) /\ UNCHANGED disk
    <3> HIDE DEF Bared
    <3>1. Only(r) /\ act'[r].pc = "failing" /\ SameErrand(r) /\ act'[r].t = Bared
      BY <1>0, <1>3, <2>3, HoldMoves
    <3> QED BY <1>0, <1>1, <1>3, <2>0, <2>3, <3>1 DEF Yields, Quiet, Bare, Held
  <2> QED BY <1>8, <2>1, <2>2, <2>3 DEF ContinueAfterAction
<1>9. CASE VerifyRecovery(r)
  <2>0. act[r].pc = "rechecking"
    BY <1>9 DEF VerifyRecovery
  <2>1. CASE SaveTask(r, Settled(r, "COMPLETED"), "completed", "failing")
    <3>1. ResumerSave(r, Settled(r, "COMPLETED"), "completed", "failing")
      BY <2>0, <1>2, StateNames DEF ResumerSave
    <3> QED BY <2>1, <3>1, <1>0, <1>1, <1>2, ResumerSaves, StateNames
  <2>2. CASE Goto(r, "failing") /\ UNCHANGED disk
    <3>1. Only(r) /\ act'[r].pc = "failing" /\ SameErrand(r) /\ act'[r].t = act[r].t
      BY <1>0, <2>2, GotoMoves
    <3> QED BY <1>0, <1>1, <2>0, <2>2, <3>1 DEF Yields, Quiet, Bare, Held, SameLease
  <2> QED BY <1>9, <2>1, <2>2 DEF VerifyRecovery
<1>10. CASE FailExecution(r)
  <2>1. SaveTask(r, As("FAILED"), "off", "off") /\ act[r].pc = "failing"
    BY <1>10 DEF FailExecution
  <2>2. ResumerSave(r, As("FAILED"), "off", "off")
    BY <2>1, <1>2, StateNames DEF ResumerSave
  <2> HIDE DEF As
  <2> QED BY <2>1, <2>2, <1>0, <1>1, <1>2, ResumerSaves, StateNames
<1> QED BY <1>4, <1>5, <1>6, <1>7, <1>8, <1>9, <1>10

(* Resumers that stop or fail. *)
LEMMA ResumerShape ==
    ASSUME FlowTypeOK, NEW r \in Resumers,
           \/ NextActionRefused(r) \/ ResumeReturns(r) \/ ResumeFails(r)
           \/ ResumeAbandoned(r) /\ act[r].pc # "sent"
    PROVE  Yields(r)
<1>0. r \in Actors /\ r \notin Workers /\ faults \in 0..MaxFaults
  BY ActorSets DEF FlowTypeOK
<1>1. CASE NextActionRefused(r) \/ ResumeFails(r)
  <2>1. /\ Quiet /\ UNCHANGED <<disk, appr>> /\ act[r].pc \in {"planning", "completed"}
        /\ faults' \in 0..MaxFaults /\ faults' \in {faults, faults + 1}
    BY <1>0, <1>1, FlowAssumption DEF NextActionRefused, ResumeFails, Fault
  <2>2. Only(r) /\ act'[r].pc = "failing" /\ act'[r].t = act[r].t /\ SameErrand(r)
    BY <1>0, <1>1, GotoMoves, ActorTypes DEF NextActionRefused, ResumeFails
  <2>3. Held(r) /\ act[r].pc # "sent" /\ act[r].pc # "loaded" /\ SameLease(act'[r].t, act[r].t)
    BY <2>1, <2>2 DEF Bare, Held, SameLease
  <2> QED BY <1>0, <2>1, <2>2, <2>3 DEF Yields, Quiet
<1>2. CASE ResumeReturns(r) \/ (ResumeAbandoned(r) /\ act[r].pc # "sent")
  <2>1. /\ Quiet /\ UNCHANGED <<disk, appr>> /\ act[r].pc # "sent"
        /\ faults' \in 0..MaxFaults /\ faults' \in {faults, faults + 1}
    BY <1>0, <1>2, FlowAssumption DEF ResumeReturns, ResumeAbandoned, Fault, Quiet, environment
  <2>2. Only(r) /\ act'[r] = Off
    BY <1>0, <1>2, StopMoves DEF ResumeReturns, ResumeAbandoned
  <2> QED BY <1>0, <2>1, <2>2 DEF Yields, Quiet
<1> QED BY <1>1, <1>2

(* The steps of ActionPreparer.Prepare after the approval is created. *)
LEMMA PrepareShape ==
    ASSUME FlowTypeOK, NEW a \in Actors, SaveWaiting(a) \/ Prepared(a) \/ PrepareFails(a)
    PROVE  Saves(a) \/ Yields(a)
<1>0. (a \in Workers \/ a \in Resumers) /\ faults \in 0..MaxFaults /\ act[a].t \in Task /\ (a \in Resumers => a \notin Workers)
  BY ActorSets, ActorTypes DEF FlowTypeOK
<1>1. CASE SaveWaiting(a)
  <2>1. SaveTask(a, act[a].t, "asked", "failing") /\ act[a].pc = "asking" /\ Quiet /\ UNCHANGED faults
    BY <1>1 DEF SaveWaiting
  <2>2. CASE Accepted(a, act[a].t, "asked")
    <3>1. appr' = appr
      BY <1>1, <2>2 DEF SaveWaiting, Accepted
    <3> QED BY <1>0, <2>1, <2>2, <3>1 DEF Accepted, Saves, Quiet, Edge, SameLease
  <2>3. CASE ~WriteAllowed(disk, act[a].t, Fresh) /\ Refused(a, act[a].t, "failing")
    <3>1. appr' = Withdrawn(act[a].t.pend)
      BY <1>1, <2>3 DEF SaveWaiting
    <3> QED BY <1>0, <2>1, <2>3, <3>1 DEF Refused, Yields, Quiet, Bare, Held, SameLease
  <2> QED BY <1>0, <2>1, <2>2, <2>3, SaveMoves, ActorTypes
<1>2. CASE Prepared(a)
  <2>1. /\ Quiet /\ UNCHANGED <<disk, appr, faults>> /\ act[a].pc = "asked"
    BY <1>2 DEF Prepared
  <2>2. CASE a \in Workers
    <3>1. Only(a) /\ act'[a].pc = "release" /\ act'[a].t = act[a].t /\ SameErrand(a)
      BY <1>2, <2>2, GotoMoves, ActorTypes DEF Prepared
    <3> QED BY <1>0, <2>1, <2>2, <3>1 DEF Yields, Quiet, Bare, Held, SameLease
  <2>3. CASE a \notin Workers
    <3>1. Only(a) /\ act'[a] = Off
      BY <1>2, <2>3, StopMoves DEF Prepared
    <3> QED BY <1>0, <2>1, <2>3, <3>1 DEF Yields, Quiet
  <2> QED BY <2>2, <2>3
<1>3. CASE PrepareFails(a)
  <2>1. /\ Quiet /\ UNCHANGED disk /\ appr' = Withdrawn(act[a].t.pend) /\ act[a].pc \in {"asking", "asked"}
        /\ faults' \in 0..MaxFaults /\ faults' = faults + 1
    BY <1>0, <1>3, FlowAssumption DEF PrepareFails, Fault
  <2>2. Only(a) /\ act'[a].pc = "failing" /\ act'[a].t = act[a].t /\ SameErrand(a)
    BY <1>3, GotoMoves, ActorTypes DEF PrepareFails
  <2> QED BY <1>0, <2>1, <2>2 DEF Yields, Quiet, Bare, Held, SameLease
<1> QED BY <1>1, <1>2, <1>3

LEMMA ClaimShape ==
    ASSUME FlowTypeOK, NEW w \in Workers, ClaimTask(w)
    PROVE  Claims(w) \/ Yields(w)
<1>0. /\ w \in Actors /\ w \notin Resumers /\ faults \in 0..MaxFaults /\ disk \in Task
      /\ disk.fence \in 0..MaxClaims /\ MaxClaims \in Nat
      /\ {"failing", "working"} \subseteq PCs
  BY ActorSets, ActorTypes, FlowAssumption DEF FlowTypeOK, Task
<1>1. PICK f : f = disk.fence + 1
  OBVIOUS
<1> DEFINE claimed == [disk EXCEPT !.token = f, !.fence = f]
<1>2. act[w].pc = "checked" /\ UNCHANGED <<environment, appr, faults>> /\ disk.fence < MaxClaims
  BY DEF ClaimTask
<1>3. f \in 0..MaxClaims
  BY <1>0, <1>1, <1>2
<1>4. /\ claimed \in Task /\ claimed.token = f /\ claimed.fence = f
      /\ claimed.state = disk.state /\ claimed.pend = disk.pend
  BY <1>0, <1>3 DEF Task
<1>5. CASE ClaimAllowed(disk, Fresh)
  <2>1. /\ disk' = claimed /\ raced' = (raced \/ Parked(disk))
        /\ Hold(w, IF InFlight(claimed) THEN "failing" ELSE "working", claimed)
    BY <1>1, <1>5 DEF ClaimTask
  <2> HIDE DEF claimed
  <2>2. InFlight(claimed) <=> InFlight(disk)
    BY <1>4 DEF InFlight
  <2>3. PICK pc \in PCs : pc = (IF InFlight(claimed) THEN "failing" ELSE "working")
    BY <1>0
  <2>4. /\ Only(w) /\ act'[w].pc = pc /\ act'[w].t = claimed
    BY <1>0, <1>4, <2>1, <2>3, HoldMoves
  <2> QED BY <1>0, <1>1, <1>2, <1>4, <2>1, <2>2, <2>3, <2>4 DEF Claims
<1>6. CASE ~ClaimAllowed(disk, Fresh)
  <2>1. UNCHANGED <<disk, raced>> /\ Stop(w)
    BY <1>6 DEF ClaimTask
  <2> QED BY <1>0, <1>2, <2>1, StopMoves DEF Yields, Bare, Held
<1> QED BY <1>5, <1>6

LEMMA ReleaseShape ==
    ASSUME FlowTypeOK, NEW w \in Workers, ReleaseTask(w)
    PROVE  Releases(w) \/ Yields(w)
<1>0. /\ w \in Actors /\ w \notin Resumers /\ faults \in 0..MaxFaults /\ disk \in Task
      /\ 0 \in 0..MaxClaims
  BY ActorSets, ActorTypes, FlowAssumption DEF FlowTypeOK
<1>1. act[w].pc = "release" /\ Quiet /\ UNCHANGED <<appr, faults>> /\ Only(w) /\ act'[w] = Off
  BY <1>0, StopMoves DEF ReleaseTask
<1>2. CASE ReleaseAllowed(disk, act[w].t.token, act[w].t.fence)
  <2>1. disk' = [disk EXCEPT !.token = 0]
    BY <1>2 DEF ReleaseTask
  <2>2. /\ disk' \in Task /\ disk'.state = disk.state /\ disk'.pend = disk.pend
        /\ disk'.fence = disk.fence /\ disk'.token = 0
    BY <1>0, <2>1 DEF Task
  <2>3. SameLease(act[w].t, disk)
    BY <1>2 DEF ReleaseAllowed, SameLease
  <2> QED BY <1>1, <2>2, <2>3 DEF Releases, Quiet
<1>3. CASE ~ReleaseAllowed(disk, act[w].t.token, act[w].t.fence)
  <2>1. disk' = disk /\ ~SameLease(act[w].t, disk)
    BY <1>3 DEF ReleaseTask, ReleaseAllowed, SameLease
  <2> QED BY <1>0, <1>1, <2>1 DEF Yields, Quiet
<1> QED BY <1>2, <1>3

LEMMA AskShape ==
    ASSUME FlowTypeOK, Places, NEW a \in Actors, CreateApproval(a)
    PROVE  Asks(a)
<1>0. /\ a \in Workers \/ a \in Resumers
      /\ a \in Workers => act[a].pc \in WorkerPCs
      /\ a \in Resumers => act[a].pc \in ResumerPCs /\ a \notin Workers
      /\ act[a].t \in Task /\ "WAITING" \in States
  BY ActorSets, ActorTypes, StateNames DEF Places
<1>1. PICK k : k = Asked + 1
  OBVIOUS
<1> DEFINE next == [act[a].t EXCEPT !.state = "WAITING", !.pend = k]
<1>2. /\ act[a].pc \in {"working", "planning"} /\ k \in Approvals
      /\ appr' = [appr EXCEPT ![k] = "PENDING"] /\ Hold(a, "asking", next)
      /\ Quiet /\ UNCHANGED <<disk, faults>>
  BY <1>1 DEF CreateApproval
<1>3. /\ next \in Task /\ next.state = "WAITING" /\ next.pend = k /\ SameLease(next, act[a].t)
  <2>1. k \in 0..MaxApprovals
    BY <1>2, FlowAssumption DEF Approvals
  <2> QED BY <1>0, <2>1 DEF Task, SameLease
<1> HIDE DEF next
<1>4. /\ Only(a) /\ act'[a].pc = "asking" /\ act'[a].t = next /\ SameErrand(a)
  BY <1>2, <1>3, HoldMoves, ActorTypes
<1>5. act[a].pc = (IF a \in Workers THEN "working" ELSE "planning")
  BY <1>0, <1>2 DEF WorkerPCs, ResumerPCs
<1> QED BY <1>1, <1>2, <1>3, <1>4, <1>5 DEF Asks, Quiet

LEMMA AnswerShape ==
    ASSUME FlowTypeOK, NEW h \in Handlers, NEW k \in Approvals, NEW d \in {"APPROVED", "REJECTED"},
           ResolveApproval(h, k, d)
    PROVE  Decides(h, k, d) \/ Closes(k)
<1>0. h \in Actors /\ k \in 0..MaxApprovals /\ d \in Statuses /\ "resolved" \in PCs
  BY ActorSets, FlowAssumption DEF Approvals, Statuses, PCs
<1>1. CASE k \in late
  BY <1>1 DEF ResolveApproval, Closes, Quiet
<1>2. CASE k \notin late
  <2> DEFINE m == [Off EXCEPT !.pc = "resolved", !.id = k, !.status = d]
  <2>1. m \in Actor /\ m.pc = "resolved" /\ m.id = k /\ m.status = d
    BY <1>0, NewTaskType DEF Actor
  <2>2. act' = [act EXCEPT ![h] = m]
    BY <1>2 DEF ResolveApproval
  <2> HIDE DEF m
  <2>3. Only(h) /\ act'[h] = m
    BY <1>0, <2>1, <2>2 DEF FlowTypeOK, Only
  <2> QED BY <1>2, <2>1, <2>3 DEF ResolveApproval, Decides, Quiet
<1> QED BY <1>1, <1>2

LEMMA BootShape ==
    ASSUME FlowTypeOK, BootResume
    PROVE  \E p \in todo : Boots(p)
<1>1. PICK p \in todo : /\ todo' = todo \ {p}
                        /\ act' = [act EXCEPT !["boot"] = [Off EXCEPT !.pc = "resolved",
                                                             !.id = p[1], !.status = p[2]]]
  BY DEF BootResume
<1>2. /\ "boot" \in Actors /\ p[1] \in 0..MaxApprovals /\ p[2] \in Statuses /\ "resolved" \in PCs
  BY ActorSets, FlowAssumption DEF FlowTypeOK, Approvals, Statuses, PCs
<1> DEFINE m == [Off EXCEPT !.pc = "resolved", !.id = p[1], !.status = p[2]]
<1>3. m \in Actor /\ m.pc = "resolved" /\ m.id = p[1] /\ m.status = p[2]
  BY <1>2, NewTaskType DEF Actor
<1>4. act' = [act EXCEPT !["boot"] = m]
  BY <1>1
<1> HIDE DEF m
<1>5. Only("boot") /\ act'["boot"] = m
  BY <1>2, <1>3, <1>4 DEF FlowTypeOK, Only
<1> QED BY <1>1, <1>3, <1>5 DEF BootResume, Boots

LEMMA LoadShape ==
    ASSUME FlowTypeOK, NEW r \in Resumers, Resume(r)
    PROVE  Loads(r) \/ Yields(r)
<1>0. r \in Actors /\ r \notin Workers /\ faults \in 0..MaxFaults /\ disk \in Task
  BY ActorSets, ActorTypes DEF FlowTypeOK
<1>1. act[r].pc = "resolved" /\ Quiet /\ UNCHANGED <<disk, appr, faults>>
  BY DEF Resume
<1>2. CASE disk.pend = act[r].id /\ disk.state = "WAITING"
  <2>1. Hold(r, "loaded", disk)
    BY <1>2 DEF Resume
  <2>2. Only(r) /\ act'[r].pc = "loaded" /\ act'[r].t = disk /\ SameErrand(r)
    BY <1>0, <2>1, HoldMoves, ActorTypes
  <2> QED BY <1>1, <1>2, <2>2 DEF Loads, Quiet
<1>3. CASE ~(disk.pend = act[r].id /\ disk.state = "WAITING")
  <2>1. Only(r) /\ act'[r] = Off
    BY <1>0, <1>3, StopMoves DEF Resume
  <2> QED BY <1>0, <1>1, <2>1 DEF Yields, Quiet
<1> QED BY <1>2, <1>3

LEMMA SendShape ==
    ASSUME FlowTypeOK, NEW r \in Resumers, Dispatch(r)
    PROVE  Sends(r)
<1>0. r \in Actors
  BY ActorSets
<1>1. Only(r) /\ act'[r].pc = "sent" /\ act'[r].t = act[r].t /\ SameErrand(r)
  BY <1>0, GotoMoves, ActorTypes DEF Dispatch
<1> QED BY <1>1 DEF Dispatch, Sends

LEMMA GiveUpShape ==
    ASSUME FlowTypeOK, NEW r \in Resumers,
           ClientTimeout(r) \/ (ResumeAbandoned(r) /\ act[r].pc = "sent")
    PROVE  GivesUp(r)
<1>0. r \in Actors /\ faults \in 0..MaxFaults
  BY ActorSets DEF FlowTypeOK
<1>1. faults' = faults + 1 /\ faults' \in 0..MaxFaults
  BY <1>0, FlowAssumption DEF ClientTimeout, ResumeAbandoned, Fault
<1>2. CASE ClientTimeout(r)
  <2>1. Only(r) /\ act'[r].pc = "failing" /\ act'[r].t = act[r].t /\ SameErrand(r)
    BY <1>0, <1>2, GotoMoves, ActorTypes DEF ClientTimeout
  <2> QED BY <1>1, <1>2, <2>1 DEF ClientTimeout, GivesUp
<1>3. CASE ResumeAbandoned(r) /\ act[r].pc = "sent"
  <2>1. Only(r) /\ act'[r] = Off
    BY <1>0, <1>3, StopMoves DEF ResumeAbandoned
  <2> QED BY <1>1, <1>3, <2>1 DEF ResumeAbandoned, GivesUp
<1> QED BY <1>2, <1>3

LEMMA EffectShape ==
    ASSUME FlowTypeOK, NEW p \in inbox, ExecutorActs(p[1], p[2])
    PROVE  Effects(p[1], p[2])
<1>0. p[1] \in Approvals /\ (p[2] = "gone" \/ p[2] \in Actors) /\ {"replied", "failing"} \subseteq PCs
  BY ActorSets DEF FlowTypeOK, PCs
<1>1. ASSUME NEW pc \in {"replied", "failing"}, Answer(p[2], pc)
      PROVE  \/ p[2] = "gone" /\ act' = act
             \/ /\ p[2] # "gone" /\ Only(p[2]) /\ act'[p[2]].pc = pc
                /\ act'[p[2]].t = act[p[2]].t /\ SameErrand(p[2])
  BY <1>0, <1>1, GotoMoves DEF Answer
<1>2. /\ UNCHANGED <<disk, over, late, todo, sent, lost, raced, crashes, faults>>
      /\ <<p[1], p[2]>> \in inbox /\ inbox' = inbox \ {<<p[1], p[2]>>}
  BY DEF ExecutorActs
<1>3. CASE appr[p[1]] = "APPROVED" /\ p[1] \notin late
  <2>1. appr' = [appr EXCEPT ![p[1]] = "CONSUMED"]
    BY <1>3 DEF ExecutorActs
  <2>2. CASE effects' = [effects EXCEPT ![p[1]] = @ + 1] /\ Answer(p[2], "replied")
    BY <1>1, <1>2, <1>3, <2>1, <2>2 DEF Effects
  <2>3. CASE effects' = [effects EXCEPT ![p[1]] = @ + 1] /\ Answer(p[2], "failing")
    BY <1>1, <1>2, <1>3, <2>1, <2>3 DEF Effects
  <2>4. CASE UNCHANGED effects /\ Answer(p[2], "failing")
    BY <1>1, <1>2, <1>3, <2>1, <2>4 DEF Effects
  <2> QED BY <1>3, <2>2, <2>3, <2>4 DEF ExecutorActs
<1>4. CASE ~(appr[p[1]] = "APPROVED" /\ p[1] \notin late)
  <2>1. UNCHANGED <<appr, effects>> /\ Answer(p[2], "failing")
    BY <1>4 DEF ExecutorActs
  <2> QED BY <1>1, <1>2, <2>1 DEF Effects
<1> QED BY <1>3, <1>4

ActorStep(a) == Yields(a) \/ Saves(a) \/ Asks(a)
WorkerMove(w) == Claims(w) \/ Releases(w)
ResumerMove(r) == Loads(r) \/ Sends(r) \/ GivesUp(r)
AnswerMove ==
    \/ \E h \in Handlers, k \in Approvals, d \in {"APPROVED", "REJECTED"} : Decides(h, k, d)
    \/ \E k \in Approvals : Closes(k)
    \/ \E p \in todo : Boots(p)
    \/ \E p \in inbox : Effects(p[1], p[2])
OtherStep == LeaseExpires \/ (\E k \in Approvals : ApprovalExpires(k)) \/ Restart

LEMMA WorkerShapes ==
    ASSUME FlowTypeOK, Places, NEW w \in Workers, WorkerStep(w)
    PROVE  ActorStep(w) \/ WorkerMove(w)
<1>0. w \in Actors
  BY ActorSets
<1>1. CASE CheckState(w) \/ WorkFails(w) \/ Finish(w)
  BY <1>1, WorkerShape DEF ActorStep
<1>2. CASE ClaimTask(w)
  BY <1>2, ClaimShape DEF ActorStep, WorkerMove
<1>3. CASE Work(w) \/ Complete(w) \/ MarkFailed(w)
  BY <1>3, WorkerSaveShape DEF ActorStep
<1>4. CASE CreateApproval(w)
  BY <1>0, <1>4, AskShape DEF ActorStep
<1>5. CASE SaveWaiting(w) \/ Prepared(w)
  BY <1>0, <1>5, PrepareShape DEF ActorStep
<1>6. CASE ReleaseTask(w)
  BY <1>6, ReleaseShape DEF ActorStep, WorkerMove
<1> QED BY <1>1, <1>2, <1>3, <1>4, <1>5, <1>6 DEF WorkerStep

LEMMA ResumerShapes ==
    ASSUME FlowTypeOK, Places, NEW r \in Resumers, ResumeStep(r)
    PROVE  ActorStep(r) \/ ResumerMove(r)
<1>0. r \in Actors
  BY ActorSets
<1>1. CASE Resume(r)
  BY <1>1, LoadShape DEF ActorStep, ResumerMove
<1>2. CASE Dispatch(r)
  BY <1>2, SendShape DEF ResumerMove
<1>3. CASE \/ CancelTask(r) \/ BeginExecution(r) \/ SaveVerifying(r) \/ CompleteTask(r)
           \/ ContinueAfterAction(r) \/ VerifyRecovery(r) \/ FailExecution(r)
  BY <1>3, ResumerSaveShape DEF ActorStep
<1>4. CASE NextActionRefused(r) \/ ResumeReturns(r)
  BY <1>4, ResumerShape DEF ActorStep
<1>5. CASE CreateApproval(r)
  BY <1>0, <1>5, AskShape DEF ActorStep
<1>6. CASE SaveWaiting(r) \/ Prepared(r)
  BY <1>0, <1>6, PrepareShape DEF ActorStep
<1> QED BY <1>1, <1>2, <1>3, <1>4, <1>5, <1>6 DEF ResumeStep

LEMMA Shapes ==
    ASSUME FlowTypeOK, Places, Next
    PROVE  \/ \E a \in Actors : ActorStep(a)
           \/ \E w \in Workers : WorkerMove(w)
           \/ \E r \in Resumers : ResumerMove(r)
           \/ AnswerMove \/ OtherStep
<1>0. Workers \subseteq Actors /\ Resumers \subseteq Actors /\ {"creator", "recovery"} \subseteq Workers
  BY ActorSets
<1>1. CASE WorkerStep("creator") \/ WorkerStep("recovery")
  BY <1>0, <1>1, WorkerShapes
<1>2. CASE ListTasks \/ LeaseAwaited
  BY <1>0, <1>2, LookShape DEF ActorStep
<1>3. CASE BootResume
  BY <1>3, BootShape DEF AnswerMove
<1>4. CASE \E r \in Resumers : ResumeStep(r)
  BY <1>0, <1>4, ResumerShapes
<1>5. CASE \E h \in Handlers, k \in Approvals, d \in {"APPROVED", "REJECTED"} : ResolveApproval(h, k, d)
  BY <1>5, AnswerShape DEF AnswerMove
<1>6. CASE \E p \in inbox : ExecutorActs(p[1], p[2])
  BY <1>6, EffectShape DEF AnswerMove
<1>7. CASE \E w \in Workers : WorkerFault(w)
  BY <1>0, <1>7, WorkerShape DEF ActorStep
<1>8. CASE \E r \in Resumers : ClientTimeout(r) \/ ResumeFails(r) \/ ResumeAbandoned(r)
  <2>1. PICK r \in Resumers : ClientTimeout(r) \/ ResumeFails(r) \/ ResumeAbandoned(r)
    BY <1>8
  <2>2. CASE ResumeFails(r) \/ (ResumeAbandoned(r) /\ act[r].pc # "sent")
    BY <1>0, <2>2, ResumerShape DEF ActorStep
  <2>3. CASE ClientTimeout(r) \/ (ResumeAbandoned(r) /\ act[r].pc = "sent")
    BY <2>3, GiveUpShape DEF ResumerMove
  <2> QED BY <2>1, <2>2, <2>3
<1>9. CASE \E a \in Actors : PrepareFails(a)
  BY <1>9, PrepareShape DEF ActorStep
<1>10. CASE LeaseExpires \/ (\E k \in Approvals : ApprovalExpires(k)) \/ Restart
  BY <1>10 DEF OtherStep
<1> QED BY <1>1, <1>2, <1>3, <1>4, <1>5, <1>6, <1>7, <1>8, <1>9, <1>10 DEF Next, RecoveryStep

-----------------------------------------------------------------------------
(* Types, places and leases. *)

Ground == FlowTypeOK /\ Places /\ Waits /\ Leases

LEMMA LeasesKept ==
    ASSUME FlowTypeOK, Leases, NEW a \in Actors, Only(a), SameLease(disk', disk),
           crashes' = crashes, faults' \in {faults, faults + 1},
           \/ act'[a].pc \in Bare /\ (a \in Workers /\ Held(a) => faults' # faults \/ ~SameLease(act[a].t, disk))
           \/ Held(a) /\ act'[a].pc \notin Bare /\ SameLease(act'[a].t, act[a].t)
           \/ a \notin Workers /\ SameLease(act'[a].t, disk)
    PROVE  Leases'
<1>0. Workers \subseteq Actors /\ faults \in Nat /\ disk.fence \in Nat /\ faults' \in Nat
  BY ActorSets, FlowAssumption DEF FlowTypeOK, Task
<1>1. disk'.token = disk.token /\ disk'.fence = disk.fence
  BY DEF SameLease
<1>2. \A b \in Actors : Held(b) =>
          /\ act[b].t.token \in {0, act[b].t.fence} /\ act[b].t.fence <= disk.fence
          /\ act[b].t.fence = disk.fence /\ act[b].t.token = 0 => disk.token = 0
  BY DEF Leases
<1>3. ASSUME NEW b \in Actors, act'[b].pc \notin Bare
      PROVE  /\ act'[b].t.token \in {0, act'[b].t.fence} /\ act'[b].t.fence <= disk'.fence
             /\ act'[b].t.fence = disk'.fence /\ act'[b].t.token = 0 => disk'.token = 0
             /\ b \in Workers => act'[b].t.token # 0
  <2>1. CASE b # a
    <3>1. act'[b] = act[b] /\ Held(b)
      BY <1>3, <2>1 DEF Only, Held
    <3> QED BY <1>1, <1>2, <3>1 DEF Leases
  <2>2. CASE b = a /\ Held(a) /\ SameLease(act'[a].t, act[a].t)
    BY <1>1, <1>2, <2>2 DEF SameLease, Leases
  <2>3. CASE b = a /\ a \notin Workers /\ SameLease(act'[a].t, disk)
    BY <1>0, <1>1, <2>3 DEF SameLease, Leases
  <2> QED BY <1>3, <2>1, <2>2, <2>3
<1>4. ASSUME crashes' = 0, faults' = 0, disk'.token # 0
      PROVE  \E w \in Workers : /\ act'[w].pc \notin Bare /\ act'[w].t.fence = disk'.fence
                                /\ act'[w].t.token = disk'.token
  <2>1. crashes = 0 /\ faults = 0 /\ faults' = faults /\ disk.token # 0
    BY <1>0, <1>1, <1>4
  <2>2. PICK w \in Workers : Held(w) /\ act[w].t.fence = disk.fence /\ act[w].t.token = disk.token
    BY <2>1 DEF Leases
  <2>3. CASE w # a
    BY <1>0, <1>1, <2>2, <2>3 DEF Only, Held
  <2>4. CASE w = a
    <3>1. act'[a].pc \notin Bare /\ SameLease(act'[a].t, act[a].t)
      BY <2>1, <2>2, <2>4 DEF SameLease
    <3> QED BY <1>0, <1>1, <2>2, <2>4, <3>1 DEF SameLease
  <2> QED BY <2>3, <2>4
<1>5. disk'.token \in {0, disk'.fence}
  BY <1>1 DEF Leases
<1> QED BY <1>0, <1>3, <1>4, <1>5 DEF Leases, Held

LEMMA PlacesKept ==
    ASSUME Places, NEW a \in Actors, Only(a),
           a \in Workers => act'[a].pc \in WorkerPCs,
           a \in Resumers =>
              /\ act'[a].pc \in ResumerPCs
              /\ act'[a].pc # "off" => act'[a].id \in Approvals \/ (act[a].pc # "off" /\ SameErrand(a))
    PROVE  Places'
<1>1. Workers \subseteq Actors /\ Resumers \subseteq Actors
  BY ActorSets
<1> QED BY <1>1 DEF Places, Only, SameErrand

LEMMA WaitsKept ==
    ASSUME FlowTypeOK, Waits, NEW a \in Actors, Only(a), act[a].pc # "sent", inbox' = inbox
    PROVE  Waits'
<1>1. \A p \in inbox : p[2] # "gone" => p[2] \in Actors
  BY ActorSets DEF FlowTypeOK
<1> QED BY <1>1 DEF Waits, Only

LEMMA YieldsGround ==
    ASSUME Ground, NEW a \in Actors, Yields(a)
    PROVE  Ground'
<1>0. FlowTypeOK /\ Places /\ Waits /\ Leases /\ (a \in Resumers => a \notin Workers)
  BY ActorSets DEF Ground
<1>1. FlowTypeOK'
  BY <1>0 DEF Yields, environment, FlowTypeOK, Only, Withdrawn, Statuses
<1>2. Places'
  BY <1>0, PlacesKept, NewTaskType DEF Yields, WorkerPCs, ResumerPCs, Held, Bare
<1>3. Leases'
  <2>1. \/ act'[a].pc \in Bare /\ (a \in Workers /\ Held(a) => faults' # faults \/ ~SameLease(act[a].t, disk))
        \/ Held(a) /\ act'[a].pc \notin Bare /\ SameLease(act'[a].t, act[a].t)
    BY <1>0, NewTaskType DEF Yields, Bare, Held
  <2>2. Only(a) /\ SameLease(disk', disk) /\ crashes' = crashes /\ faults' \in {faults, faults + 1}
    BY DEF Yields, environment, SameLease
  <2> QED BY <1>0, <2>1, <2>2, LeasesKept
<1>4. Waits'
  BY <1>0, WaitsKept DEF Yields, environment
<1> QED BY <1>1, <1>2, <1>3, <1>4 DEF Ground

(* An accepted save leaves the lease as it is, and it was the writer's. *)
LEMMA SavesLease ==
    ASSUME FlowTypeOK, Leases, NEW a \in Actors, Saves(a)
    PROVE  SameLease(disk', disk) /\ Held(a) /\ SameLease(act[a].t, disk)
<1>1. Held(a)
  BY DEF Saves, Edge, WorkerEdge, ResumerEdge, Held, Bare
<1>2. /\ act[a].t.token \in {0, act[a].t.fence} /\ act[a].t.fence <= disk.fence
      /\ act[a].t.fence \in Nat /\ disk.fence \in Nat
  BY <1>1, FlowAssumption DEF Leases, FlowTypeOK, Actor, Task
<1>3. SameLease(disk', act[a].t) /\ WriteAllowed(disk, disk', Fresh)
  BY DEF Saves
<1>4. SameLease(disk', disk)
  BY <1>2, <1>3 DEF SameLease, WriteAllowed
<1> QED BY <1>1, <1>3, <1>4 DEF SameLease

LEMMA SavesGround ==
    ASSUME Ground, NEW a \in Actors, Saves(a)
    PROVE  Ground'
<1>0. FlowTypeOK /\ Places /\ Leases /\ (a \in Resumers => a \notin Workers)
  BY ActorSets DEF Ground
<1>1. FlowTypeOK'
  BY <1>0 DEF Saves, environment, FlowTypeOK, Only
<1>2. Places'
  <2>1. Only(a) /\ act'[a].pc \in WorkerPCs \cup ResumerPCs
        /\ (a \in Workers => act'[a].pc \in WorkerPCs) /\ (a \in Resumers => act'[a].pc \in ResumerPCs)
        /\ act[a].pc # "off" /\ (act'[a].pc # "off" => SameErrand(a))
    BY <1>0, NewTaskType DEF Saves, WorkerPCs, ResumerPCs, Edge, WorkerEdge, ResumerEdge
  <2> QED BY <1>0, <2>1, PlacesKept
<1>3. Leases'
  <2>1. SameLease(disk', disk) /\ Held(a) /\ SameLease(act[a].t, disk)
    BY <1>0, SavesLease
  <2>2. Only(a) /\ crashes' = crashes /\ faults' = faults /\ SameLease(disk', act[a].t)
    BY DEF Saves, environment
  <2>3. CASE act'[a] = Off /\ a \in Resumers
    BY <1>0, <2>1, <2>2, <2>3, LeasesKept, NewTaskType DEF Bare
  <2>4. CASE act'[a].pc # "off" /\ act'[a].t = disk'
    <3>1. act'[a].pc \notin Bare
      BY <2>4 DEF Saves, Edge, WorkerEdge, ResumerEdge, Bare
    <3>2. SameLease(act'[a].t, act[a].t)
      BY <2>2, <2>4
    <3> QED BY <1>0, <2>1, <2>2, <3>1, <3>2, LeasesKept
  <2> QED BY <2>3, <2>4 DEF Saves
<1>4. Waits'
  <2>1. act[a].pc # "sent" /\ Only(a) /\ inbox' = inbox
    BY DEF Saves, Edge, WorkerEdge, ResumerEdge, environment
  <2> QED BY <1>0, <2>1, WaitsKept DEF Ground
<1> QED BY <1>1, <1>2, <1>3, <1>4 DEF Ground

LEMMA ClaimsGround ==
    ASSUME Ground, NEW w \in Workers, Claims(w)
    PROVE  Ground'
<1>0. FlowTypeOK /\ Places /\ Leases /\ w \in Actors /\ w \notin Resumers /\ Workers \subseteq Actors
  BY ActorSets DEF Ground
<1>1. FlowTypeOK'
  BY <1>0 DEF Claims, environment, FlowTypeOK, Only
<1>2. Places'
  <2>1. Only(w) /\ act'[w].pc \in WorkerPCs
    BY DEF Claims, WorkerPCs
  <2> QED BY <1>0, <2>1, PlacesKept
<1>3. Leases'
  <2>1. /\ disk.fence \in Nat /\ disk'.fence = disk.fence + 1 /\ disk'.token = disk'.fence
        /\ act'[w].t = disk' /\ act'[w].pc \in {"failing", "working"}
        /\ \A b \in Actors : b # w => act'[b] = act[b]
    BY <1>0, FlowAssumption DEF Claims, Only, FlowTypeOK, Task
  <2>2. ASSUME NEW b \in Actors, act'[b].pc \notin Bare, b # w
        PROVE  /\ act'[b].t.token \in {0, act'[b].t.fence} /\ act'[b].t.fence <= disk'.fence
               /\ act'[b].t.fence # disk'.fence /\ (b \in Workers => act'[b].t.token # 0)
    <3>1. Held(b) /\ act'[b] = act[b] /\ act[b].t.fence \in Nat
      BY <2>1, <2>2, <1>0, FlowAssumption DEF Held, FlowTypeOK, Actor, Task
    <3>2. act[b].t.fence <= disk.fence
      BY <1>0, <3>1 DEF Leases
    <3> QED BY <1>0, <2>1, <3>1, <3>2 DEF Leases
  <2>3. act'[w].pc \notin Bare /\ disk'.token # 0
    BY <2>1 DEF Bare
  <2> QED BY <1>0, <2>1, <2>2, <2>3 DEF Leases, Held
<1>4. Waits'
  BY <1>0, WaitsKept DEF Claims, environment, Ground
<1> QED BY <1>1, <1>2, <1>3, <1>4 DEF Ground

LEMMA ReleasesGround ==
    ASSUME Ground, NEW w \in Workers, Releases(w)
    PROVE  Ground'
<1>0. FlowTypeOK /\ Places /\ Leases /\ w \in Actors /\ w \notin Resumers /\ Workers \subseteq Actors
  BY ActorSets DEF Ground
<1>1. FlowTypeOK'
  BY <1>0 DEF Releases, environment, FlowTypeOK, Only
<1>2. Places'
  BY <1>0, PlacesKept, NewTaskType DEF Releases, WorkerPCs
<1>3. Leases'
  <2>1. \A b \in Actors : act'[b].pc \notin Bare => Held(b) /\ act'[b] = act[b]
    BY NewTaskType DEF Releases, Only, Held, Bare
  <2>2. disk'.fence = disk.fence /\ disk'.token = 0
    BY DEF Releases
  <2> QED BY <1>0, <2>1, <2>2 DEF Leases, Held
<1>4. Waits'
  BY <1>0, WaitsKept DEF Releases, environment, Ground
<1> QED BY <1>1, <1>2, <1>3, <1>4 DEF Ground

LEMMA AsksGround ==
    ASSUME Ground, NEW a \in Actors, Asks(a)
    PROVE  Ground'
<1>0. FlowTypeOK /\ Places /\ Leases /\ (a \in Resumers => a \notin Workers)
  BY ActorSets DEF Ground
<1>1. FlowTypeOK'
  BY <1>0 DEF Asks, environment, FlowTypeOK, Only, Statuses
<1>2. Places'
  BY <1>0, PlacesKept DEF Asks, WorkerPCs, ResumerPCs
<1>3. Leases'
  <2>1. Held(a) /\ act'[a].pc \notin Bare /\ SameLease(act'[a].t, act[a].t)
    BY DEF Asks, Held, Bare
  <2>2. Only(a) /\ SameLease(disk', disk) /\ crashes' = crashes /\ faults' = faults
    BY DEF Asks, environment, SameLease
  <2> QED BY <1>0, <2>1, <2>2, LeasesKept
<1>4. Waits'
  BY <1>0, WaitsKept DEF Asks, environment, Ground
<1> QED BY <1>1, <1>2, <1>3, <1>4 DEF Ground

(* A step of a resumer that leaves the file and the lease of its copy alone. *)
LEMMA ResumerGround ==
    ASSUME Ground, NEW r \in Resumers, Only(r), disk' = disk, FlowTypeOK', Waits',
           crashes' = crashes, faults' \in {faults, faults + 1}, act'[r].pc \in ResumerPCs,
           act'[r].pc # "off" => act'[r].id \in Approvals \/ (act[r].pc # "off" /\ SameErrand(r)),
           \/ act'[r].pc \in Bare
           \/ Held(r) /\ act'[r].t = act[r].t
           \/ act'[r].t = disk
    PROVE  Ground'
<1>0. FlowTypeOK /\ Places /\ Leases /\ r \notin Workers /\ r \in Actors
  BY ActorSets DEF Ground
<1>1. Places'
  BY <1>0, PlacesKept
<1>2. Leases'
  BY <1>0, LeasesKept DEF SameLease
<1> QED BY <1>1, <1>2 DEF Ground

LEMMA ResumerMoveGround ==
    ASSUME Ground, NEW r \in Resumers, ResumerMove(r)
    PROVE  Ground'
<1>0. FlowTypeOK /\ r \in Actors /\ (act[r].pc # "off" => act[r].id \in Approvals)
  BY ActorSets DEF Ground, Places
<1>1. CASE Loads(r)
  <2>1. FlowTypeOK'
    BY <1>0, <1>1 DEF Loads, environment, FlowTypeOK, Only
  <2>2. Waits'
    BY <1>0, <1>1, WaitsKept DEF Loads, environment, Ground
  <2> QED BY <1>1, <2>1, <2>2, ResumerGround DEF Loads, environment, ResumerPCs
<1>2. CASE Sends(r)
  <2>1. FlowTypeOK'
    <3>1. act[r].id \in Approvals /\ r \in Resumers
      BY <1>0, <1>2 DEF Sends
    <3>2. sent' \in [Approvals -> Nat]
      BY <1>0, <1>2, <3>1 DEF Sends, FlowTypeOK
    <3>3. inbox' \subseteq Approvals \X (Resumers \cup {"gone"})
      BY <1>0, <1>2, <3>1 DEF Sends, FlowTypeOK
    <3> QED BY <1>0, <1>2, <3>2, <3>3 DEF Sends, FlowTypeOK, Only
  <2>2. Waits'
    <3>1. \A p \in inbox : p[2] # "gone" => p[2] \in Actors /\ p[2] # r /\ act'[p[2]] = act[p[2]]
      BY <1>0, <1>2, ActorSets DEF Sends, FlowTypeOK, Ground, Waits, Only
    <3> QED BY <1>2, <3>1 DEF Sends, SameErrand, Ground, Waits
  <2> QED BY <1>2, <2>1, <2>2, ResumerGround DEF Sends, ResumerPCs, Held, Bare
<1>3. CASE GivesUp(r)
  <2>1. FlowTypeOK'
    <3>1. inbox' \subseteq Approvals \X (Resumers \cup {"gone"})
      <4>1. act[r].id \in Approvals
        BY <1>0, <1>3 DEF GivesUp
      <4> QED BY <1>0, <1>3, <4>1 DEF GivesUp, FlowTypeOK
    <3> QED BY <1>0, <1>3, <3>1 DEF GivesUp, FlowTypeOK, Only
  <2>2. Waits'
    <3>1. \A p \in inbox : p[2] # "gone" => p[2] \in Actors /\ (p[2] = r => p = <<act[r].id, r>>)
      BY <1>0, ActorSets DEF FlowTypeOK, Ground, Waits
    <3> QED BY <1>3, <3>1 DEF GivesUp, Only, Ground, Waits
  <2> QED BY <1>3, <2>1, <2>2, ResumerGround, NewTaskType DEF GivesUp, ResumerPCs, Held, Bare
<1> QED BY <1>1, <1>2, <1>3 DEF ResumerMove

(* Steps that leave the actors and the leases alone. *)
LEMMA StillGround ==
    ASSUME Ground, FlowTypeOK', UNCHANGED <<disk, act, crashes, faults>>, inbox' \subseteq inbox
    PROVE  Ground'
BY DEF Ground, Places, Waits, Leases, Held

LEMMA AnswerGround ==
    ASSUME Ground, AnswerMove
    PROVE  Ground'
<1>0. FlowTypeOK /\ "boot" \in Resumers /\ "boot" \in Actors
  BY ActorSets DEF Ground
<1>1. CASE \E h \in Handlers, k \in Approvals, d \in {"APPROVED", "REJECTED"} : Decides(h, k, d)
  <2>1. PICK h \in Handlers, k \in Approvals, d \in {"APPROVED", "REJECTED"} : Decides(h, k, d)
    BY <1>1
  <2>2. h \in Resumers /\ h \in Actors
    BY ActorSets
  <2>3. FlowTypeOK'
    BY <1>0, <2>1 DEF Decides, environment, FlowTypeOK, Only, Statuses
  <2>4. Waits'
    BY <1>0, <2>1, <2>2, WaitsKept DEF Decides, environment, Ground
  <2> QED BY <2>1, <2>2, <2>3, <2>4, ResumerGround DEF Decides, environment, ResumerPCs, Bare
<1>2. CASE \E k \in Approvals : Closes(k)
  <2>1. PICK k \in Approvals : Closes(k)
    BY <1>2
  <2>2. FlowTypeOK'
    BY <1>0, <2>1 DEF Closes, environment, FlowTypeOK, Statuses
  <2> QED BY <2>1, <2>2, StillGround DEF Closes, environment
<1>3. CASE \E p \in todo : Boots(p)
  <2>1. PICK p \in todo : Boots(p)
    BY <1>3
  <2>2. p[1] \in Approvals
    BY <1>0 DEF FlowTypeOK
  <2>3. FlowTypeOK'
    BY <1>0, <2>1 DEF Boots, FlowTypeOK, Only
  <2>4. Waits'
    BY <1>0, <2>1, WaitsKept DEF Boots, Ground
  <2> QED BY <1>0, <2>1, <2>2, <2>3, <2>4, ResumerGround DEF Boots, ResumerPCs, Bare
<1>4. CASE \E p \in inbox : Effects(p[1], p[2])
  <2>1. PICK p \in inbox : Effects(p[1], p[2])
    BY <1>4
  <2> DEFINE k == p[1]
             r == p[2]
  <2>2. k \in Approvals /\ (r # "gone" => r \in Resumers)
    BY <1>0 DEF FlowTypeOK
  <2>3. FlowTypeOK'
    <3>1. effects' \in [Approvals -> Nat] /\ appr' \in [Approvals -> Statuses]
      BY <1>0, <2>1, <2>2 DEF Effects, FlowTypeOK, Statuses
    <3>2. act' \in [Actors -> Actor]
      BY <1>0, <2>1 DEF Effects, FlowTypeOK, Only
    <3> QED BY <1>0, <2>1, <3>1, <3>2 DEF Effects, FlowTypeOK
  <2>4. CASE r = "gone"
    BY <2>1, <2>3, <2>4, StillGround DEF Effects
  <2>5. CASE r # "gone"
    <3>1. /\ Only(r) /\ disk' = disk /\ crashes' = crashes /\ faults' = faults
          /\ act'[r].pc \in ResumerPCs /\ act'[r].t = act[r].t /\ SameErrand(r)
      BY <2>1, <2>5 DEF Effects, ResumerPCs
    <3>2. act[r].pc = "sent" /\ act[r].id = k /\ Held(r)
      BY <2>5 DEF Ground, Waits, Held, Bare
    <3>3. Waits'
      <4>1. \A q \in inbox : q[2] # "gone" => q[2] \in Actors /\ (q[2] = r => q = <<k, r>>)
        BY <1>0, <3>2, ActorSets DEF FlowTypeOK, Ground, Waits
      <4> QED BY <2>1, <3>1, <4>1 DEF Effects, Only, Ground, Waits
    <3> QED BY <2>2, <2>3, <2>5, <3>1, <3>2, <3>3, ResumerGround
  <2> QED BY <2>4, <2>5
<1> QED BY <1>1, <1>2, <1>3, <1>4 DEF AnswerMove

LEMMA OtherGround ==
    ASSUME Ground, OtherStep
    PROVE  Ground'
<1>0. FlowTypeOK /\ crashes \in 0..MaxCrashes /\ MaxCrashes \in Nat
  BY FlowAssumption DEF Ground, FlowTypeOK
<1>1. CASE LeaseExpires
  <2>1. FlowTypeOK'
    <3>1. over' \in 0..MaxClaims
      BY <1>0, <1>1, FlowAssumption DEF LeaseExpires, FlowTypeOK, Task
    <3> QED BY <1>0, <1>1, <3>1 DEF LeaseExpires, FlowTypeOK
  <2> QED BY <1>1, <2>1, StillGround DEF LeaseExpires
<1>2. CASE \E k \in Approvals : ApprovalExpires(k)
  <2>1. FlowTypeOK'
    BY <1>0, <1>2 DEF ApprovalExpires, FlowTypeOK
  <2> QED BY <1>2, <2>1, StillGround DEF ApprovalExpires
<1>3. CASE Restart
  <2>0. PICK c : c = crashes + 1
    OBVIOUS
  <2>1. /\ UNCHANGED <<disk, over, late, sent, effects, raced, faults>>
        /\ crashes' = c /\ c \in 0..MaxCrashes /\ c # 0
    BY <1>0, <1>3, <2>0 DEF Restart
  <2>2. /\ act' \in [Actors -> Actor]
        /\ \A a \in Actors : /\ a = "recovery" => act'[a].pc = "listing"
                             /\ a # "recovery" => act'[a].pc = "off"
    <3>1. [Off EXCEPT !.pc = "listing"] \in Actor /\ [Off EXCEPT !.pc = "listing"].pc = "listing"
      BY NewTaskType DEF Actor, PCs
    <3>2. act' = [a \in Actors |-> IF a = "recovery" THEN [Off EXCEPT !.pc = "listing"] ELSE Off]
      BY <1>3 DEF Restart
    <3> QED BY <3>1, <3>2, NewTaskType
  <2>3. appr' \in [Approvals -> Statuses]
    BY <1>0, <1>3 DEF Restart, FlowTypeOK, Statuses
  <2>4. /\ todo' \subseteq Approvals \X {"APPROVED", "REJECTED", "EXPIRED"}
        /\ lost' \subseteq Approvals
        /\ inbox' \subseteq Approvals \X (Resumers \cup {"gone"})
        /\ \A p \in inbox' : p[2] = "gone"
    BY <1>0, <1>3 DEF Restart, FlowTypeOK
  <2>5. FlowTypeOK'
    BY <1>0, <2>1, <2>2, <2>3, <2>4 DEF FlowTypeOK
  <2>6. Places' /\ Waits'
    BY <2>2, <2>4, ActorSets DEF Places, Waits, WorkerPCs, ResumerPCs
  <2>7. \A a \in Actors : act'[a].pc \in Bare
    BY <2>2 DEF Bare
  <2>8. Leases'
    BY <2>1, <2>7, ActorSets DEF Leases, Held, Ground
  <2> QED BY <2>5, <2>6, <2>8 DEF Ground
<1> QED BY <1>1, <1>2, <1>3 DEF OtherStep

LEMMA GroundStep ==
    ASSUME Ground, [Next]_vars
    PROVE  Ground'
<1>1. CASE Next
  <2>0. FlowTypeOK /\ Places
    BY DEF Ground
  <2>1. ASSUME NEW a \in Actors, ActorStep(a) PROVE Ground'
    BY <2>1, YieldsGround, SavesGround, AsksGround DEF ActorStep
  <2>2. ASSUME NEW w \in Workers, WorkerMove(w) PROVE Ground'
    BY <2>2, ClaimsGround, ReleasesGround DEF WorkerMove
  <2> QED BY <1>1, <2>0, <2>1, <2>2, Shapes, ResumerMoveGround, AnswerGround, OtherGround
<1>2. CASE UNCHANGED vars
  BY <1>2 DEF vars, Ground, FlowTypeOK, Places, Waits, Leases, Held
<1> QED BY <1>1, <1>2

LEMMA GroundInit ==
    ASSUME Init
    PROVE  Ground
<1>0. Workers \subseteq Actors /\ Resumers \subseteq Actors /\ \A r \in Resumers : r # "creator" /\ r # "recovery"
  BY ActorSets DEF Workers
<1>1. /\ act \in [Actors -> Actor]
      /\ \A a \in Actors : /\ act[a].pc \in {"off", "listing", "start"}
                           /\ a # "creator" /\ a # "recovery" => act[a].pc = "off"
  <2>1. \A pc \in {"off", "listing", "start"} :
            [Off EXCEPT !.pc = pc] \in Actor /\ [Off EXCEPT !.pc = pc].pc = pc
    BY NewTaskType DEF Actor, PCs
  <2> DEFINE first(a) == CASE a = "creator" -> "start"
                           [] a = "recovery" /\ RecoveryDue -> "listing"
                           [] OTHER -> "off"
  <2>2. act = [a \in Actors |-> [Off EXCEPT !.pc = first(a)]]
    BY DEF Init
  <2>3. \A a : /\ first(a) \in {"off", "listing", "start"}
               /\ a # "creator" /\ a # "recovery" => first(a) = "off"
    OBVIOUS
  <2> HIDE DEF first
  <2> QED BY <2>1, <2>2, <2>3
<1>2. FlowTypeOK
  <2>1. 0 \in 0..MaxClaims /\ 0 \in 0..MaxCrashes /\ 0 \in 0..MaxFaults
    BY FlowAssumption
  <2>2. disk \in Task /\ over \in 0..MaxClaims /\ crashes \in 0..MaxCrashes /\ faults \in 0..MaxFaults
    BY <2>1, NewTaskType DEF Init
  <2>3. /\ appr \in [Approvals -> Statuses]
        /\ sent \in [Approvals -> Nat] /\ effects \in [Approvals -> Nat]
    BY DEF Init, Statuses
  <2>4. todo = {} /\ inbox = {} /\ lost = {} /\ late = {} /\ raced \in BOOLEAN
    BY DEF Init
  <2> QED BY <1>1, <2>2, <2>3, <2>4 DEF FlowTypeOK
<1>3. Places /\ Waits
  BY <1>0, <1>1 DEF Init, Places, Waits, WorkerPCs, ResumerPCs
<1>4. Leases
  BY <1>0, <1>1 DEF Init, NewTask, Leases, Held, Bare
<1> QED BY <1>2, <1>3, <1>4 DEF Ground

(* Leases keep waiting tasks resumable. *)
LEMMA GroundResumable ==
    ASSUME Ground
    PROVE  FlowInv
<1>0. FlowTypeOK /\ disk \in Task /\ disk.fence \in Nat
  BY FlowAssumption DEF Ground, FlowTypeOK, Task
<1>1. ASSUME disk.state = "WAITING", ~Running(disk.fence), crashes = 0, faults = 0
      PROVE  WriteAllowed(disk, [disk EXCEPT !.state = "EXECUTING"], Fresh)
  <2>1. disk.token = 0
    <3>1. SUFFICES ASSUME disk.token # 0 PROVE FALSE
      OBVIOUS
    <3>2. PICK w \in Workers : Held(w) /\ act[w].t.fence = disk.fence
      BY <1>1, <3>1 DEF Ground, Leases
    <3>3. act[w].pc \in {"working", "asking", "asked", "release", "failing", "completed"}
      BY <3>2 DEF Ground, Places, WorkerPCs, Held, Bare
    <3> QED BY <1>1, <3>2, <3>3 DEF Running
  <2>2. SameLease([disk EXCEPT !.state = "EXECUTING"], disk)
    BY <1>0, CopyFields, StateNames
  <2> QED BY <1>0, <2>1, <2>2 DEF WriteAllowed, SameLease
<1> QED BY <1>0, <1>1 DEF FlowInv, WaitingCanResume

(***************************************************************************)
(* FlowInvHolds: under every interleaving the types hold and a waiting     *)
(* task that no Run holds can be resumed while nothing has failed.         *)
(***************************************************************************)
THEOREM FlowInvHolds == Spec => []FlowInv
<1>1. Init => Ground
  BY GroundInit
<1>2. Ground /\ [Next]_vars => Ground'
  BY GroundStep
<1>3. Ground => FlowInv
  BY GroundResumable
<1> QED BY <1>1, <1>2, <1>3, PTL DEF Spec

-----------------------------------------------------------------------------
(* Answers, envelopes, copies and what was lost. *)

Course == Answers /\ InTurn /\ Envelopes /\ Copies /\ Lost

(* How the status of an approval may move on. *)
Onward ==
    /\ late \subseteq late'
    /\ \A k \in Approvals :
          /\ \A s \in Statuses : Compatible(s, appr[k]) => Compatible(s, appr'[k])
          /\ appr'[k] = "EXPIRED" => k \in late'
          /\ appr[k] = "CONSUMED" => appr'[k] = "CONSUMED" \/ k \in late'
          /\ appr[k] # "ABSENT" => appr'[k] # "ABSENT"

NoneAsked == \A k \in Approvals : appr[k] = "ABSENT" => appr'[k] = "ABSENT"

LEMMA SameOnward ==
    ASSUME Answers, appr' = appr, late \subseteq late'
    PROVE  Onward /\ NoneAsked
BY DEF Onward, Answers, NoneAsked

LEMMA WithdrawnOnward ==
    ASSUME FlowTypeOK, Answers, NEW j \in Approvals, appr[j] # "ABSENT",
           appr' = Withdrawn(j), late' = late
    PROVE  Onward /\ NoneAsked
<1>1. /\ appr'[j] = IF j \in late THEN "EXPIRED" ELSE IF appr[j] = "PENDING" THEN "REJECTED" ELSE appr[j]
      /\ \A k \in Approvals : k # j => appr'[k] = appr[k]
  BY DEF Withdrawn, FlowTypeOK
<1>2. \A k \in Approvals : appr[k] = "EXPIRED" => k \in late
  BY DEF Answers
<1> QED BY <1>1, <1>2 DEF Onward, NoneAsked, Compatible

LEMMA YieldsOnward ==
    ASSUME Ground, Answers, Copies, NEW a \in Actors, Yields(a)
    PROVE  Onward /\ NoneAsked
<1>1. late' = late
  BY DEF Yields, environment
<1>2. CASE appr' = appr
  BY <1>1, <1>2, SameOnward
<1>3. CASE act[a].pc \in {"asking", "asked"} /\ appr' = Withdrawn(act[a].t.pend)
  <2>1. Held(a) /\ act[a].t.pend \in 0..MaxApprovals
    BY <1>3, ActorTypes DEF Held, Bare, Ground
  <2>2. CASE act[a].t.pend # 0
    <3>1. act[a].t.pend \in Approvals /\ appr[act[a].t.pend] # "ABSENT"
      BY <2>1, <2>2, FlowAssumption DEF Approvals, Copies
    <3> QED BY <1>1, <1>3, <3>1, WithdrawnOnward DEF Ground
  <2>3. CASE act[a].t.pend = 0
    <3>1. appr' = appr
      BY <1>3, <2>3 DEF Withdrawn, Ground, FlowTypeOK, Approvals
    <3> QED BY <1>1, <3>1, SameOnward
  <2> QED BY <2>2, <2>3
<1> QED BY <1>2, <1>3 DEF Yields

LEMMA DecidesOnward ==
    ASSUME FlowTypeOK, Answers, NEW k \in Approvals, NEW d \in {"APPROVED", "REJECTED"},
           appr[k] \in {"PENDING", d}, appr' = [appr EXCEPT ![k] = d], late' = late
    PROVE  Onward /\ NoneAsked
<1>1. appr'[k] = d /\ \A j \in Approvals : j # k => appr'[j] = appr[j]
  BY DEF FlowTypeOK
<1>2. \A j \in Approvals : appr[j] = "EXPIRED" => j \in late
  BY DEF Answers
<1> QED BY <1>1, <1>2 DEF Onward, NoneAsked, Compatible

LEMMA ClosesOnward ==
    ASSUME FlowTypeOK, Answers, NEW k \in Approvals, Closes(k)
    PROVE  Onward /\ NoneAsked
<1>1. /\ appr'[k] = "EXPIRED" /\ k \in late /\ late' = late /\ appr[k] # "ABSENT"
      /\ \A j \in Approvals : j # k => appr'[j] = appr[j]
  BY DEF FlowTypeOK, Closes, environment
<1>2. \A j \in Approvals : appr[j] = "EXPIRED" => j \in late
  BY DEF Answers
<1> QED BY <1>1, <1>2 DEF Onward, NoneAsked, Compatible

LEMMA EffectsOnward ==
    ASSUME FlowTypeOK, Answers, NEW k \in Approvals, NEW r, Effects(k, r)
    PROVE  Onward /\ NoneAsked
<1>1. late' = late
  BY DEF Effects
<1>2. CASE appr' = appr
  BY <1>1, <1>2, SameOnward
<1>3. CASE appr[k] = "APPROVED" /\ appr' = [appr EXCEPT ![k] = "CONSUMED"]
  <2>1. appr'[k] = "CONSUMED" /\ \A j \in Approvals : j # k => appr'[j] = appr[j]
    BY <1>3 DEF FlowTypeOK
  <2>2. \A j \in Approvals : appr[j] = "EXPIRED" => j \in late
    BY DEF Answers
  <2> QED BY <1>1, <1>3, <2>1, <2>2 DEF Onward, NoneAsked, Compatible
<1> QED BY <1>2, <1>3 DEF Effects

LEMMA RestartOnward ==
    ASSUME FlowTypeOK, Answers, Restart
    PROVE  Onward /\ NoneAsked
<1>1. /\ late' = late
      /\ \A j \in Approvals : appr'[j] = IF appr[j] = "PENDING" /\ j \in late THEN "EXPIRED" ELSE appr[j]
  BY DEF FlowTypeOK, Restart
<1>2. \A j \in Approvals : appr[j] = "EXPIRED" => j \in late
  BY DEF Answers
<1> QED BY <1>1, <1>2 DEF Onward, NoneAsked, Compatible

(* What is asked for, and its number. *)
LEMMA AskedKept ==
    ASSUME InTurn, Onward, NoneAsked
    PROVE  Asked' = Asked /\ InTurn'
<1>1. \A k \in Approvals : appr'[k] # "ABSENT" <=> appr[k] # "ABSENT"
  BY DEF Onward, NoneAsked
<1>2. {k \in Approvals : appr'[k] # "ABSENT"} = {k \in Approvals : appr[k] # "ABSENT"}
  BY <1>1
<1>3. Asked' = Asked
  BY <1>2 DEF Asked
<1> QED BY <1>1, <1>3 DEF InTurn

LEMMA AskedGrows ==
    ASSUME FlowTypeOK, InTurn, Asked + 1 \in Approvals, appr' = [appr EXCEPT ![Asked + 1] = "PENDING"]
    PROVE  Asked' = Asked + 1 /\ InTurn'
<1>0. Asked \in 0..MaxApprovals /\ MaxApprovals \in Nat
  BY FlowAssumption DEF InTurn
<1>1. PICK n : n = Asked + 1
  OBVIOUS
<1>2. n \in Approvals /\ n \in Nat /\ n # 0 /\ n \in 0..MaxApprovals /\ appr' = [appr EXCEPT ![n] = "PENDING"]
  BY <1>0, <1>1 DEF Approvals
<1>3. appr'[n] = "PENDING" /\ \A k \in Approvals : k # n => appr'[k] = appr[k]
  BY <1>2 DEF FlowTypeOK
<1>4. \A k \in Approvals : appr'[k] # "ABSENT" <=> k <= n
  <2>1. \A k \in Approvals : k <= Asked <=> (k <= n /\ k # n)
    BY <1>0, <1>1 DEF Approvals
  <2>2. \A k \in Approvals : appr[k] # "ABSENT" <=> k <= Asked
    BY DEF InTurn
  <2> QED BY <1>2, <1>3, <2>1, <2>2
<1>5. {k \in Approvals : appr'[k] # "ABSENT"} = 1..n
  <2>1. \A k : k \in 1..n <=> k \in Approvals /\ k <= n
    BY <1>0, <1>2 DEF Approvals
  <2> QED BY <1>4, <2>1
<1>6. Cardinality(1..n) = n
  BY <1>2, FS_Interval
<1>7. Asked' = n
  BY <1>5, <1>6 DEF Asked
<1> QED BY <1>1, <1>2, <1>4, <1>7 DEF InTurn

LEMMA AnswersKept ==
    ASSUME Ground, Answers, Onward, NEW a \in Actors, Only(a), todo' = todo,
           a \in Resumers /\ act'[a].pc # "off" =>
              /\ act[a].pc # "off" /\ SameErrand(a)
              /\ \/ act'[a].pc \in {"resolved", "loaded"}
                 \/ act[a].pc \notin {"resolved", "loaded"}
                 \/ act[a].status = "APPROVED"
    PROVE  Answers'
<1>0. /\ Resumers \subseteq Actors /\ Handlers \subseteq Resumers /\ "boot" \in Resumers
      /\ \A r \in Resumers : act[r].status \in Statuses
      /\ \A r \in Resumers : act[r].pc # "off" => act[r].id \in Approvals
      /\ \A p \in todo : p[1] \in Approvals /\ p[2] \in Statuses
  BY ActorSets DEF Ground, FlowTypeOK, Places, Actor, Statuses
<1>1. \A r \in Resumers : act'[r].pc # "off" =>
          /\ act[r].pc # "off" /\ act'[r].id = act[r].id /\ act'[r].status = act[r].status
          /\ \/ act'[r].pc \in {"resolved", "loaded"}
             \/ act[r].pc \notin {"resolved", "loaded"}
             \/ act[r].status = "APPROVED"
  <2> SUFFICES ASSUME NEW r \in Resumers, act'[r].pc # "off"
               PROVE  /\ act[r].pc # "off" /\ act'[r].id = act[r].id /\ act'[r].status = act[r].status
                      /\ \/ act'[r].pc \in {"resolved", "loaded"}
                         \/ act[r].pc \notin {"resolved", "loaded"}
                         \/ act[r].status = "APPROVED"
    OBVIOUS
  <2>1. CASE r = a
    BY <2>1 DEF SameErrand
  <2>2. CASE r # a
    <3>1. act'[r] = act[r]
      BY <1>0, <2>2 DEF Only
    <3> QED BY <3>1
  <2> QED BY <2>1, <2>2
<1>2. \A r \in Resumers : act'[r].pc # "off" => Compatible(act'[r].status, appr'[act'[r].id])
  BY <1>0, <1>1 DEF Answers, Onward
<1>3. \A p \in todo' : Compatible(p[2], appr'[p[1]])
  BY <1>0 DEF Answers, Onward
<1>4. Booting' => \A h \in Handlers : act'[h].pc = "off"
  BY <1>0, <1>1 DEF Answers, Booting
<1>5. \A r, q \in Resumers :
          act'[r].pc # "off" /\ act'[q].pc # "off" /\ act'[r].id = act'[q].id =>
              act'[r].status = act'[q].status
  BY <1>1 DEF Answers
<1>6. \A r \in Resumers : act'[r].pc \notin {"off", "resolved", "loaded"} => act'[r].status = "APPROVED"
  BY <1>1 DEF Answers
<1>7. \A k \in Approvals : appr'[k] = "EXPIRED" => k \in late'
  BY DEF Onward
<1> QED BY <1>2, <1>3, <1>4, <1>5, <1>6, <1>7 DEF Answers

(* The statuses move on and the actors stay where they are. *)
LEMMA AnswersStill ==
    ASSUME Ground, Answers, Onward, act' = act, todo' = todo
    PROVE  Answers'
<1>1. Only("boot") /\ "boot" \in Actors
  BY ActorSets DEF Only, Ground, FlowTypeOK
<1>2. act["boot"].pc # "off" => act["boot"].pc # "off" /\ SameErrand("boot")
  BY DEF SameErrand
<1> QED BY <1>1, <1>2, AnswersKept

PastSending == {"sent", "replied", "verified", "rechecking", "planning"}

LEMMA EnvelopesKept ==
    ASSUME FlowTypeOK, Envelopes, Onward, UNCHANGED <<sent, effects>>, NEW a \in Actors, Only(a),
           \A p \in inbox' : \E q \in inbox : q[1] = p[1],
           a \in Resumers /\ act'[a].pc \in PastSending => act[a].pc \in PastSending /\ SameErrand(a)
    PROVE  Envelopes'
<1>0. Resumers \subseteq Actors
  BY ActorSets
<1>1. \A k \in Approvals :
          /\ effects'[k] \in {0, 1}
          /\ effects'[k] = 1 => sent'[k] > 0 /\ (appr'[k] = "CONSUMED" \/ k \in late')
          /\ sent'[k] > 0 => appr'[k] # "ABSENT"
  BY DEF Envelopes, Onward
<1>2. \A p \in inbox' : sent'[p[1]] > 0
  BY DEF Envelopes
<1>3. \A r \in Resumers : act'[r].pc \in PastSending => sent'[act'[r].id] > 0
  BY <1>0 DEF Envelopes, Only, SameErrand, PastSending
<1> QED BY <1>1, <1>2, <1>3 DEF Envelopes, PastSending

LEMMA EnvelopesStill ==
    ASSUME FlowTypeOK, Envelopes, Onward, UNCHANGED <<sent, effects, act, inbox>>
    PROVE  Envelopes'
BY DEF Envelopes, Onward

(***************************************************************************)
(* Copies when one actor moves: it stops holding the task, keeps the       *)
(* action of its copy or takes it off, or holds what is on disk.           *)
(***************************************************************************)
Keeps(a) ==
    \/ act'[a].pc \in Bare
    \/ /\ Held(a) /\ SameErrand(a) /\ act'[a].pc # "asking"
       /\ act'[a].t.pend \in {0, act[a].t.pend}

WithAction == {"loaded", "executing", "sent", "replied", "verified"}

LEMMA CopiesKept ==
    ASSUME Ground, Copies, Onward, NEW a \in Actors, Only(a), Keeps(a), UNCHANGED <<sent>>,
           disk'.pend \in {0, disk.pend, act[a].t.pend},
           disk'.pend = act[a].t.pend => Held(a) \/ disk'.pend = disk.pend,
           disk'.state = "WAITING" => disk.state = "WAITING" /\ disk'.pend = disk.pend,
           a \in Resumers /\ act'[a].pc \in WithAction =>
              act[a].pc \in WithAction /\ act'[a].t.pend = act[a].t.pend,
           act'[a].pc = "executing" => disk'.state # "WAITING"
    PROVE  Copies'
<1>0. Resumers \subseteq Actors /\ \A b \in Actors : act[b].t.pend \in 0..MaxApprovals
  BY ActorSets, ActorTypes DEF Ground
<1>1. \A b \in Actors : /\ act'[b].pc = "asking" => b # a /\ act'[b] = act[b]
                        /\ act'[b].pc \notin Bare => Held(b) /\ act'[b].t.pend \in {0, act[b].t.pend}
                                                   /\ act'[b].id = act[b].id
  BY DEF Only, Keeps, Held, Bare, SameErrand
<1>2. \A r \in Resumers : act'[r].pc \in WithAction => act'[r].t.pend = act'[r].id
  <2> SUFFICES ASSUME NEW r \in Resumers, act'[r].pc \in WithAction
               PROVE  act'[r].t.pend = act'[r].id
    OBVIOUS
  <2>1. CASE r # a
    BY <1>0, <2>1 DEF Only, Copies, WithAction
  <2>2. CASE r = a
    BY <1>0, <1>1, <2>2 DEF Copies, WithAction, Bare
  <2> QED BY <2>1, <2>2
<1>3. ASSUME NEW b \in Actors, act'[b].pc = "asking"
      PROVE  /\ act'[b].t.pend \in Approvals /\ appr'[act'[b].t.pend] # "ABSENT"
             /\ act'[b].t.state = "WAITING"
             /\ disk'.pend # act'[b].t.pend /\ sent'[act'[b].t.pend] = 0
             /\ \A c \in Actors : c # b /\ act'[c].pc \notin Bare => act'[c].t.pend # act'[b].t.pend
             /\ \A r \in Resumers : act'[r].pc \notin Bare => act'[r].id # act'[b].t.pend
  <2>1. b # a /\ act'[b] = act[b] /\ act[b].pc = "asking"
    BY <1>1, <1>3
  <2>2. /\ act[b].t.pend \in Approvals /\ appr[act[b].t.pend] # "ABSENT"
        /\ act[b].t.state = "WAITING"
        /\ disk.pend # act[b].t.pend /\ sent[act[b].t.pend] = 0
        /\ \A c \in Actors : c # b /\ Held(c) => act[c].t.pend # act[b].t.pend
        /\ \A r \in Resumers : Held(r) => act[r].id # act[b].t.pend
    BY <2>1 DEF Copies
  <2>3. act[b].t.pend # 0
    BY <2>2 DEF Approvals
  <2>4. disk'.pend # act[b].t.pend
    BY <2>1, <2>2, <2>3
  <2>5. appr'[act[b].t.pend] # "ABSENT"
    BY <2>2 DEF Onward
  <2> QED BY <1>0, <1>1, <2>1, <2>2, <2>3, <2>4, <2>5
<1>4. disk'.pend # 0 => appr'[disk'.pend] # "ABSENT"
  <2>1. ASSUME disk'.pend # 0 PROVE disk'.pend \in Approvals /\ appr[disk'.pend] # "ABSENT"
    <3>1. disk.pend \in 0..MaxApprovals
      BY DEF Ground, FlowTypeOK, Task
    <3> QED BY <1>0, <2>1, <3>1, FlowAssumption DEF Copies, Approvals
  <2> QED BY <2>1 DEF Onward
<1>5. \A b \in Actors : act'[b].pc \notin Bare /\ act'[b].t.pend # 0 => appr'[act'[b].t.pend] # "ABSENT"
  <2> SUFFICES ASSUME NEW b \in Actors, act'[b].pc \notin Bare, act'[b].t.pend # 0
               PROVE  appr'[act'[b].t.pend] # "ABSENT"
    OBVIOUS
  <2>1. Held(b) /\ act'[b].t.pend = act[b].t.pend
    BY <1>1
  <2>2. act[b].t.pend \in Approvals /\ appr[act[b].t.pend] # "ABSENT"
    BY <1>0, <2>1, FlowAssumption DEF Copies, Approvals
  <2> QED BY <2>1, <2>2 DEF Onward
<1>6. ASSUME disk'.state = "WAITING"
      PROVE  /\ disk'.pend \in Approvals /\ sent'[disk'.pend] = 0
             /\ \A r \in Resumers : act'[r].pc = "executing" => act'[r].id # disk'.pend
  BY <1>0, <1>6 DEF Copies, Only
<1> QED BY <1>2, <1>3, <1>4, <1>5, <1>6 DEF Copies, Held, WithAction

LEMMA LostKept ==
    ASSUME Lost, lost' = lost, \A k \in lost : sent[k] > 0 => sent'[k] > 0, NEW a \in Actors, Only(a),
           a \in Resumers /\ act'[a].pc \notin Bare => act'[a].id \notin lost,
           InFlight(disk') /\ disk'.pend \in lost =>
              /\ InFlight(disk) /\ disk.pend \in lost
              /\ act'[a].pc \notin Bare => a \notin Resumers /\ act'[a].pc \in {"failing", "release"}
    PROVE  Lost'
<1>0. Workers \subseteq Actors /\ Resumers \subseteq Actors
  BY ActorSets
<1>1. \A b \in Actors : b # a => act'[b] = act[b]
  BY DEF Only
<1>2. \A k \in lost' : sent'[k] > 0
  BY DEF Lost
<1>3. \A r \in Resumers : act'[r].pc \notin Bare => act'[r].id \notin lost'
  BY <1>0, <1>1 DEF Lost, Held
<1>4. ASSUME InFlight(disk'), disk'.pend \in lost'
      PROVE  /\ \A r \in Resumers : act'[r].pc \in Bare
             /\ \A w \in Workers : act'[w].pc \notin Bare => act'[w].pc \in {"failing", "release"}
  BY <1>0, <1>1, <1>4 DEF Lost, Held
<1>5. InFlight(disk)' <=> InFlight(disk')
  BY DEF InFlight
<1> QED BY <1>2, <1>3, <1>4, <1>5 DEF Lost, Held

LEMMA YieldsCourse ==
    ASSUME Ground, Course, NEW a \in Actors, Yields(a)
    PROVE  Course'
<1>0. /\ FlowTypeOK /\ Answers /\ InTurn /\ Envelopes /\ Copies /\ Lost
      /\ UNCHANGED <<disk, todo, inbox, sent, effects, lost>> /\ Only(a)
      /\ a \in Resumers => a \notin Workers
  BY ActorSets DEF Ground, Course, Yields, environment
<1>1. Onward /\ NoneAsked
  BY <1>0, YieldsOnward
<1>2. \/ act'[a].pc \in Bare /\ (a \in Resumers => act'[a].pc = "off")
      \/ /\ Held(a) /\ act[a].pc # "loaded" /\ act'[a].pc \in {"failing", "release"}
         /\ SameErrand(a) /\ act'[a].t.pend \in {0, act[a].t.pend}
  BY <1>0, NewTaskType DEF Yields, Bare
<1>3. Answers'
  BY <1>0, <1>1, <1>2, AnswersKept DEF Held, Bare
<1>4. InTurn'
  BY <1>0, <1>1, AskedKept
<1>5. Envelopes'
  BY <1>0, <1>1, <1>2, EnvelopesKept DEF PastSending
<1>6. Copies'
  <2>1. Keeps(a)
    BY <1>2 DEF Keeps
  <2>2. act'[a].pc \in Bare \cup {"failing", "release"}
    BY <1>2
  <2> QED BY <1>0, <1>1, <2>1, <2>2, CopiesKept DEF WithAction, Bare
<1>7. Lost'
  <2>1. a \in Resumers /\ act'[a].pc \notin Bare => act'[a].id \notin lost
    BY <1>0, <1>2 DEF Lost, SameErrand
  <2>2. InFlight(disk) /\ disk.pend \in lost /\ act'[a].pc \notin Bare =>
          a \notin Resumers /\ act'[a].pc \in {"failing", "release"}
    BY <1>0, <1>2 DEF Lost
  <2> QED BY <1>0, <2>1, <2>2, LostKept
<1> QED BY <1>3, <1>4, <1>5, <1>6, <1>7 DEF Course

(* A save; what waits on disk afterwards is what its writer has just asked for. *)
LEMMA SavesCourse ==
    ASSUME Ground, Course, NEW a \in Actors, Saves(a)
    PROVE  Course'
<1>0. /\ FlowTypeOK /\ Leases /\ Answers /\ InTurn /\ Envelopes /\ Copies /\ Lost
      /\ UNCHANGED <<appr, todo, late, inbox, sent, effects, lost>> /\ Only(a)
      /\ a \in Resumers => a \notin Workers
      /\ Resumers \subseteq Actors
  BY ActorSets DEF Ground, Course, Saves, environment
<1>1. Onward /\ NoneAsked
  BY <1>0, SameOnward
<1>2. Held(a)
  BY <1>0, SavesLease
<1>3. /\ act'[a].pc \in Bare => act'[a].pc = "off"
      /\ act'[a].pc # "off" => SameErrand(a) /\ act'[a].t = disk'
      /\ act[a].pc = "loaded" /\ act'[a].pc # "off" => act[a].status = "APPROVED"
      /\ act'[a].pc \notin {"resolved", "loaded", "asking", "sent"}
      /\ disk'.pend \in {0, act[a].t.pend}
  BY NewTaskType, <1>0 DEF Saves, Edge, WorkerEdge, ResumerEdge, Bare
<1>4. Answers'
  BY <1>0, <1>1, <1>2, <1>3, AnswersKept DEF Held, Bare
<1>5. InTurn'
  BY <1>0, <1>1, AskedKept
<1>6. Envelopes'
  <2>1. a \in Resumers /\ act'[a].pc \in PastSending => act[a].pc \in PastSending /\ SameErrand(a)
    BY <1>0, <1>3 DEF Saves, Edge, WorkerEdge, ResumerEdge, PastSending
  <2> QED BY <1>0, <1>1, <2>1, EnvelopesKept
<1>7. CASE Edge(a, "asking", "asked", act[a].t.state, act[a].t.pend)
  <2>1. /\ act[a].pc = "asking" /\ act'[a].pc = "asked" /\ disk'.pend = act[a].t.pend
        /\ act'[a].t.pend = act[a].t.pend /\ act'[a].id = act[a].id
    BY <1>3, <1>7 DEF Edge, SameErrand
  <2>2. /\ act[a].t.pend \in Approvals /\ appr[act[a].t.pend] # "ABSENT"
        /\ act[a].t.state = "WAITING" /\ sent[act[a].t.pend] = 0
        /\ \A b \in Actors : b # a /\ Held(b) => act[b].t.pend # act[a].t.pend
        /\ \A r \in Resumers : Held(r) => act[r].id # act[a].t.pend
    BY <1>0, <2>1 DEF Copies
  <2>3. disk'.state = "WAITING"
    BY <1>7, <2>2 DEF Edge
  <2>4. \A b \in Actors : /\ b # a => act'[b] = act[b]
                          /\ act'[b].pc \notin Bare => Held(b)
                          /\ act'[b].t.pend = act[b].t.pend /\ act'[b].id = act[b].id
    BY <1>0, <1>2, <2>1 DEF Only, Held
  <2>5. \A r \in Resumers : act'[r].pc \in WithAction => act'[r].t.pend = act'[r].id
    BY <1>0, <2>1, <2>4 DEF Copies, WithAction
  <2>6. ASSUME NEW b \in Actors, act'[b].pc = "asking"
        PROVE  /\ act'[b].t.pend \in Approvals /\ appr'[act'[b].t.pend] # "ABSENT"
               /\ act'[b].t.state = "WAITING"
               /\ disk'.pend # act'[b].t.pend /\ sent'[act'[b].t.pend] = 0
               /\ \A c \in Actors : c # b /\ act'[c].pc \notin Bare => act'[c].t.pend # act'[b].t.pend
               /\ \A r \in Resumers : act'[r].pc \notin Bare => act'[r].id # act'[b].t.pend
    <3>1. b # a /\ act[b].pc = "asking" /\ act'[b] = act[b] /\ Held(b)
      BY <2>1, <2>4, <2>6 DEF Held, Bare
    <3>2. /\ act[b].t.pend \in Approvals /\ appr[act[b].t.pend] # "ABSENT"
          /\ act[b].t.state = "WAITING" /\ sent[act[b].t.pend] = 0
          /\ \A c \in Actors : c # b /\ Held(c) => act[c].t.pend # act[b].t.pend
          /\ \A r \in Resumers : Held(r) => act[r].id # act[b].t.pend
      BY <1>0, <3>1 DEF Copies
    <3> QED BY <1>0, <1>2, <2>1, <2>4, <3>1, <3>2
  <2>7. Copies'
    <3>1. \A b \in Actors : act'[b].pc \notin Bare /\ act'[b].t.pend # 0 => appr'[act'[b].t.pend] # "ABSENT"
      BY <1>0, <2>4 DEF Copies
    <3>2. \A r \in Resumers : act'[r].pc = "executing" => act'[r].id # disk'.pend
      BY <1>0, <2>1, <2>2, <2>4 DEF Bare
    <3> QED BY <1>0, <2>1, <2>2, <2>5, <2>6, <3>1, <3>2 DEF Copies, Held, WithAction
  <2>8. Lost'
    <3>1. ~InFlight(disk')
      BY <2>3 DEF InFlight
    <3>2. a \in Resumers => act'[a].id \notin lost
      BY <1>0, <1>2, <2>1 DEF Lost
    <3> QED BY <1>0, <3>1, <3>2, LostKept
  <2> QED BY <1>4, <1>5, <1>6, <2>7, <2>8 DEF Course
<1>8. CASE (a \in Workers /\ WorkerEdge(a)) \/ (a \in Resumers /\ ResumerEdge(a))
  <2>1. /\ disk'.state # "WAITING" /\ act'[a].pc # "asking"
        /\ a \in Resumers /\ act'[a].pc \in WithAction =>
              act[a].pc \in WithAction /\ disk'.pend = act[a].t.pend
        /\ a \in Resumers /\ InFlight(disk') => act[a].pc \in WithAction /\ disk'.pend = act[a].t.pend
        /\ a \in Workers => ~InFlight(disk')
    BY <1>0, <1>8 DEF Edge, WorkerEdge, ResumerEdge, WithAction, InFlight
  <2>2. Keeps(a)
    BY <1>2, <1>3, <2>1 DEF Keeps, Bare
  <2>3. Copies'
    <3>1. act'[a].pc \in WithAction => act'[a].t = disk'
      BY <1>3 DEF WithAction
    <3> QED BY <1>0, <1>1, <1>2, <1>3, <2>1, <2>2, <3>1, CopiesKept
  <2>4. Lost'
    <3>1. a \in Resumers => act[a].id \notin lost
      BY <1>0, <1>2 DEF Lost
    <3>2. a \in Resumers /\ act'[a].pc \notin Bare => act'[a].id \notin lost
      BY <1>3, <3>1 DEF SameErrand, Bare
    <3>3. ~(InFlight(disk') /\ disk'.pend \in lost)
      <4>1. a \in Resumers /\ InFlight(disk') => disk'.pend = act[a].id
        BY <1>0, <2>1 DEF Copies, WithAction
      <4> QED BY <1>8, <2>1, <3>1, <4>1
    <3> QED BY <1>0, <3>2, <3>3, LostKept
  <2> QED BY <1>4, <1>5, <1>6, <2>3, <2>4 DEF Course
<1> QED BY <1>7, <1>8 DEF Saves

(* Somebody takes a copy of the task on disk. *)
LEMMA CopiesTaken ==
    ASSUME Ground, Copies, NEW a \in Actors, Only(a), UNCHANGED <<sent, appr>>,
           disk'.pend = disk.pend, disk'.state = disk.state,
           act'[a].t.pend = disk.pend, act'[a].pc \in {"working", "failing", "loaded"},
           a \in Resumers => act'[a].id = disk.pend
    PROVE  Copies'
<1>0. Resumers \subseteq Actors
  BY ActorSets
<1>1. \A b \in Actors : b # a => act'[b] = act[b]
  BY DEF Only
<1>2. \A r \in Resumers : act'[r].pc \in WithAction => act'[r].t.pend = act'[r].id
  BY <1>0, <1>1 DEF Copies, WithAction
<1>3. ASSUME NEW b \in Actors, act'[b].pc = "asking"
      PROVE  /\ act'[b].t.pend \in Approvals /\ appr'[act'[b].t.pend] # "ABSENT"
             /\ act'[b].t.state = "WAITING"
             /\ disk'.pend # act'[b].t.pend /\ sent'[act'[b].t.pend] = 0
             /\ \A c \in Actors : c # b /\ act'[c].pc \notin Bare => act'[c].t.pend # act'[b].t.pend
             /\ \A r \in Resumers : act'[r].pc \notin Bare => act'[r].id # act'[b].t.pend
  <2>1. b # a /\ act'[b] = act[b] /\ act[b].pc = "asking"
    BY <1>1, <1>3
  <2> QED BY <1>0, <1>1, <2>1 DEF Copies, Held
<1>4. /\ \A b \in Actors : act'[b].pc \notin Bare /\ act'[b].t.pend # 0 => appr'[act'[b].t.pend] # "ABSENT"
      /\ disk'.pend # 0 => appr'[disk'.pend] # "ABSENT"
  BY <1>1 DEF Copies, Held
<1>5. disk'.state = "WAITING" =>
        /\ disk'.pend \in Approvals /\ sent'[disk'.pend] = 0
        /\ \A r \in Resumers : act'[r].pc = "executing" => act'[r].id # disk'.pend
  BY <1>0, <1>1 DEF Copies
<1> QED BY <1>2, <1>3, <1>4, <1>5 DEF Copies, Held, WithAction

LEMMA WorkerMoveCourse ==
    ASSUME Ground, Course, NEW w \in Workers, WorkerMove(w)
    PROVE  Course'
<1>0. /\ FlowTypeOK /\ Answers /\ InTurn /\ Envelopes /\ Copies /\ Lost
      /\ UNCHANGED <<appr, late, todo, inbox, sent, effects, lost>> /\ Only(w)
      /\ w \in Actors /\ w \notin Resumers
      /\ disk'.state = disk.state /\ disk'.pend = disk.pend
  BY ActorSets DEF Ground, Course, WorkerMove, Claims, Releases, environment
<1>1. Onward /\ NoneAsked
  BY <1>0, SameOnward
<1>2. Answers' /\ InTurn' /\ Envelopes'
  BY <1>0, <1>1, AnswersKept, AskedKept, EnvelopesKept
<1>3. CASE Claims(w)
  <2>1. Copies'
    <3>1. act'[w].pc \in {"working", "failing"} /\ act'[w].t.pend = disk.pend
      BY <1>0, <1>3 DEF Claims
    <3> QED BY <1>0, <3>1, CopiesTaken
  <2>2. Lost'
    <3>1. InFlight(disk') => InFlight(disk) /\ act'[w].pc = "failing"
      BY <1>0, <1>3 DEF InFlight, Claims
    <3> QED BY <1>0, <3>1, LostKept
  <2> QED BY <1>2, <2>1, <2>2 DEF Course
<1>4. CASE Releases(w)
  <2>0. act'[w].pc \in Bare /\ act'[w].pc = "off"
    BY <1>4, NewTaskType DEF Releases, Bare
  <2>1. Copies'
    <3>1. Keeps(w)
      BY <2>0 DEF Keeps
    <3> QED BY <1>0, <1>1, <2>0, <3>1, CopiesKept
  <2>2. Lost'
    <3>1. InFlight(disk') => InFlight(disk)
      BY <1>0 DEF InFlight
    <3> QED BY <1>0, <2>0, <3>1, LostKept
  <2> QED BY <1>2, <2>1, <2>2 DEF Course
<1> QED BY <1>3, <1>4 DEF WorkerMove

(* A new approval: nobody has had its number yet. *)
LEMMA AsksCourse ==
    ASSUME Ground, Course, NEW a \in Actors, Asks(a)
    PROVE  Course'
<1>0. /\ FlowTypeOK /\ Answers /\ InTurn /\ Envelopes /\ Copies /\ Lost
      /\ UNCHANGED <<disk, late, todo, inbox, sent, effects, lost>> /\ Only(a)
      /\ Resumers \subseteq Actors /\ (a \in Resumers => a \notin Workers)
  BY ActorSets DEF Ground, Course, Asks, environment
<1>1. PICK k : k = Asked + 1
  OBVIOUS
<1>2. /\ k \in Approvals /\ k # 0 /\ appr' = [appr EXCEPT ![k] = "PENDING"]
      /\ act'[a].t.pend = k /\ act'[a].t.state = "WAITING" /\ act'[a].pc = "asking"
      /\ act[a].pc = (IF a \in Workers THEN "working" ELSE "planning") /\ SameErrand(a) /\ Held(a)
  BY <1>1 DEF Asks, Approvals, Held, Bare
<1>3. appr[k] = "ABSENT" /\ appr'[k] = "PENDING" /\ \A j \in Approvals : j # k => appr'[j] = appr[j]
  <2>1. ~(k <= Asked)
    BY <1>0, <1>1, FlowAssumption DEF InTurn
  <2> QED BY <1>0, <1>2, <2>1 DEF InTurn, FlowTypeOK
<1>4. Onward
  BY <1>0, <1>3 DEF Onward, Compatible, Answers
<1>5. Answers'
  BY <1>0, <1>2, <1>4, AnswersKept
<1>6. InTurn'
  BY <1>0, <1>1, <1>2, AskedGrows
<1>7. Envelopes'
  BY <1>0, <1>2, <1>4, EnvelopesKept DEF PastSending
<1>8. /\ disk.pend # k /\ sent[k] = 0
      /\ \A b \in Actors : Held(b) => act[b].t.pend # k
      /\ \A r \in Resumers : act[r].pc # "off" => act[r].id # k
  <2>1. disk.pend # k /\ \A b \in Actors : Held(b) => act[b].t.pend # k
    BY <1>0, <1>2, <1>3 DEF Copies
  <2>2. \A r \in Resumers : act[r].pc # "off" => act[r].id # k
    BY <1>0, <1>3 DEF Answers, Compatible
  <2>3. sent[k] = 0
    BY <1>0, <1>2, <1>3 DEF Envelopes, FlowTypeOK
  <2> QED BY <2>1, <2>2, <2>3
<1>9. \A b \in Actors : b # a => act'[b] = act[b]
  BY <1>0 DEF Only
<1>10. Copies'
  <2>1. \A r \in Resumers : act'[r].pc \in WithAction => act'[r].t.pend = act'[r].id
    BY <1>0, <1>2, <1>9 DEF Copies, WithAction
  <2>2. ASSUME NEW b \in Actors, act'[b].pc = "asking"
        PROVE  /\ act'[b].t.pend \in Approvals /\ appr'[act'[b].t.pend] # "ABSENT"
               /\ act'[b].t.state = "WAITING"
               /\ disk'.pend # act'[b].t.pend /\ sent'[act'[b].t.pend] = 0
               /\ \A c \in Actors : c # b /\ act'[c].pc \notin Bare => act'[c].t.pend # act'[b].t.pend
               /\ \A r \in Resumers : act'[r].pc \notin Bare => act'[r].id # act'[b].t.pend
    <3>1. CASE b = a
      <4>1. \A c \in Actors : c # b /\ act'[c].pc \notin Bare => act'[c].t.pend # k
        BY <1>8, <1>9, <3>1 DEF Held
      <4>2. \A r \in Resumers : act'[r].pc \notin Bare => act'[r].id # k
        <5>1. \A r \in Resumers : act'[r].pc \notin Bare => act[r].pc # "off" /\ act'[r].id = act[r].id
          BY <1>0, <1>2, <1>9 DEF Bare, SameErrand
        <5> QED BY <1>8, <5>1
      <4> QED BY <1>0, <1>2, <1>3, <1>8, <3>1, <4>1, <4>2
    <3>2. CASE b # a
      <4>1. act'[b] = act[b] /\ act[b].pc = "asking" /\ Held(b)
        BY <1>9, <2>2, <3>2 DEF Held, Bare
      <4>2. /\ act[b].t.pend \in Approvals /\ appr[act[b].t.pend] # "ABSENT"
            /\ act[b].t.state = "WAITING"
            /\ disk.pend # act[b].t.pend /\ sent[act[b].t.pend] = 0
            /\ \A c \in Actors : c # b /\ Held(c) => act[c].t.pend # act[b].t.pend
            /\ \A r \in Resumers : Held(r) => act[r].id # act[b].t.pend
            /\ act[b].t.pend # k
        BY <1>0, <1>3, <4>1 DEF Copies
      <4>3. \A c \in Actors : c # b /\ act'[c].pc \notin Bare => act'[c].t.pend # act[b].t.pend
        BY <1>2, <1>9, <4>2 DEF Held
      <4>4. \A r \in Resumers : act'[r].pc \notin Bare => act'[r].id # act[b].t.pend
        BY <1>0, <1>2, <1>9, <4>2 DEF Held, SameErrand
      <4> QED BY <1>0, <1>3, <4>1, <4>2, <4>3, <4>4
    <3> QED BY <3>1, <3>2
  <2>3. disk'.pend # 0 => appr'[disk'.pend] # "ABSENT"
    <3>1. disk.pend \in 0..MaxApprovals /\ disk'.pend = disk.pend
      BY <1>0 DEF FlowTypeOK, Task
    <3>2. disk.pend # 0 => disk.pend \in Approvals /\ appr[disk.pend] # "ABSENT"
      BY <1>0, <3>1, FlowAssumption DEF Copies, Approvals
    <3> QED BY <3>1, <3>2, <1>4 DEF Onward
  <2>4. \A b \in Actors : act'[b].pc \notin Bare /\ act'[b].t.pend # 0 => appr'[act'[b].t.pend] # "ABSENT"
    <3> SUFFICES ASSUME NEW b \in Actors, act'[b].pc \notin Bare, act'[b].t.pend # 0
                 PROVE  appr'[act'[b].t.pend] # "ABSENT"
      OBVIOUS
    <3>1. CASE b = a
      BY <1>2, <1>3, <3>1
    <3>2. CASE b # a
      <4>1. act'[b] = act[b] /\ Held(b) /\ act[b].t.pend \in 0..MaxApprovals
        BY <1>0, <1>9, <3>2, ActorTypes DEF Held
      <4>2. act[b].t.pend \in Approvals /\ appr[act[b].t.pend] # "ABSENT"
        BY <1>0, <4>1, FlowAssumption DEF Copies, Approvals
      <4> QED BY <4>1, <4>2, <1>4 DEF Onward
    <3> QED BY <3>1, <3>2
  <2>5. disk'.state = "WAITING" =>
          /\ disk'.pend \in Approvals /\ sent'[disk'.pend] = 0
          /\ \A r \in Resumers : act'[r].pc = "executing" => act'[r].id # disk'.pend
    BY <1>0, <1>2, <1>9 DEF Copies
  <2> QED BY <2>1, <2>2, <2>3, <2>4, <2>5 DEF Copies, Held, WithAction
<1>11. Lost'
  <2>1. a \in Resumers => act'[a].id \notin lost
    BY <1>0, <1>2 DEF Lost, SameErrand
  <2>2. ~(InFlight(disk) /\ disk.pend \in lost)
    BY <1>0, <1>2, ActorSets DEF Lost
  <2> QED BY <1>0, <2>1, <2>2, LostKept
<1> QED BY <1>5, <1>6, <1>7, <1>10, <1>11 DEF Course

LEMMA LoadsCourse ==
    ASSUME Ground, Course, NEW r \in Resumers, Loads(r)
    PROVE  Course'
<1>0. /\ FlowTypeOK /\ Answers /\ InTurn /\ Envelopes /\ Copies /\ Lost
      /\ UNCHANGED <<disk, appr, late, todo, inbox, sent, effects, lost>> /\ Only(r) /\ r \in Actors
      /\ act[r].pc = "resolved" /\ disk.pend = act[r].id /\ disk.state = "WAITING"
      /\ act'[r].pc = "loaded" /\ act'[r].t = disk /\ SameErrand(r)
  BY ActorSets DEF Ground, Course, Loads, environment
<1>1. Onward /\ NoneAsked
  BY <1>0, SameOnward
<1>2. Answers' /\ InTurn'
  BY <1>0, <1>1, AnswersKept, AskedKept
<1>3. Envelopes'
  BY <1>0, <1>1, EnvelopesKept DEF PastSending
<1>4. Copies'
  BY <1>0, CopiesTaken DEF SameErrand
<1>5. Lost'
  <2>1. disk.pend \notin lost
    BY <1>0 DEF Copies, Lost
  <2>2. act'[r].id \notin lost
    BY <1>0, <2>1 DEF SameErrand
  <2> QED BY <1>0, <2>1, <2>2, LostKept
<1> QED BY <1>2, <1>3, <1>4, <1>5 DEF Course

LEMMA SendsCourse ==
    ASSUME Ground, Course, NEW r \in Resumers, Sends(r)
    PROVE  Course'
<1>0. /\ FlowTypeOK /\ Answers /\ InTurn /\ Envelopes /\ Copies /\ Lost
      /\ UNCHANGED <<disk, appr, late, todo, effects, lost>> /\ Only(r) /\ r \in Actors
      /\ act[r].pc = "executing" /\ act'[r].pc = "sent"
      /\ act'[r].t = act[r].t /\ SameErrand(r) /\ Held(r) /\ act'[r].id = act[r].id
      /\ Resumers \subseteq Actors
  BY ActorSets DEF Ground, Course, Sends, Held, Bare, SameErrand
<1>1. PICK k : k = act[r].id
  OBVIOUS
<1>2. k \in Approvals /\ inbox' = inbox \cup {<<k, r>>} /\ sent' = [sent EXCEPT ![k] = @ + 1]
  BY <1>0, <1>1 DEF Sends, Ground, Places
<1>3. /\ sent'[k] > 0 /\ \A j \in Approvals : (j # k => sent'[j] = sent[j]) /\ (sent[j] > 0 => sent'[j] > 0)
  BY <1>0, <1>2 DEF FlowTypeOK
<1>4. Onward /\ NoneAsked
  BY <1>0, SameOnward
<1>5. Answers' /\ InTurn'
  BY <1>0, <1>4, AnswersKept, AskedKept
<1>6. \A b \in Actors : /\ b # r => act'[b] = act[b]
                        /\ act'[b].t = act[b].t /\ act'[b].id = act[b].id
                        /\ act'[b].pc \notin Bare => Held(b)
  BY <1>0 DEF Only, Held, SameErrand
<1>7. Envelopes'
  <2>1. appr[k] # "ABSENT"
    BY <1>0, <1>1, <1>2 DEF Answers, Compatible
  <2>2. \A j \in Approvals :
          /\ effects'[j] \in {0, 1}
          /\ effects'[j] = 1 => sent'[j] > 0 /\ (appr'[j] = "CONSUMED" \/ j \in late')
          /\ sent'[j] > 0 => appr'[j] # "ABSENT"
    BY <1>0, <1>3, <2>1 DEF Envelopes
  <2>3. \A p \in inbox' : sent'[p[1]] > 0
    <3>1. \A p \in inbox : p[1] \in Approvals /\ sent[p[1]] > 0
      BY <1>0 DEF FlowTypeOK, Envelopes
    <3> QED BY <1>2, <1>3, <3>1
  <2>4. \A q \in Resumers : act'[q].pc \in PastSending => sent'[act'[q].id] > 0
    <3> SUFFICES ASSUME NEW q \in Resumers, act'[q].pc \in PastSending
                 PROVE  sent'[act'[q].id] > 0
      OBVIOUS
    <3>1. CASE q = r
      BY <1>0, <1>1, <1>3, <3>1
    <3>2. CASE q # r
      <4>1. act'[q] = act[q] /\ act[q].id \in Approvals /\ sent[act[q].id] > 0
        BY <1>0, <1>6, <3>2 DEF Envelopes, PastSending, Ground, Places
      <4> QED BY <1>3, <4>1
    <3> QED BY <3>1, <3>2
  <2> QED BY <2>2, <2>3, <2>4 DEF Envelopes, PastSending
<1>8. Copies'
  <2>1. \A q \in Resumers : act'[q].pc \in WithAction => act'[q].t.pend = act'[q].id
    BY <1>0, <1>6 DEF Copies, WithAction
  <2>2. ASSUME NEW b \in Actors, act'[b].pc = "asking"
        PROVE  /\ act'[b].t.pend \in Approvals /\ appr'[act'[b].t.pend] # "ABSENT"
               /\ act'[b].t.state = "WAITING"
               /\ disk'.pend # act'[b].t.pend /\ sent'[act'[b].t.pend] = 0
               /\ \A c \in Actors : c # b /\ act'[c].pc \notin Bare => act'[c].t.pend # act'[b].t.pend
               /\ \A q \in Resumers : act'[q].pc \notin Bare => act'[q].id # act'[b].t.pend
    <3>1. act'[b] = act[b] /\ act[b].pc = "asking"
      BY <1>0, <1>6, <2>2
    <3>2. /\ act[b].t.pend \in Approvals /\ appr[act[b].t.pend] # "ABSENT"
          /\ act[b].t.state = "WAITING"
          /\ disk.pend # act[b].t.pend /\ sent[act[b].t.pend] = 0
          /\ \A c \in Actors : c # b /\ Held(c) => act[c].t.pend # act[b].t.pend
          /\ \A q \in Resumers : Held(q) => act[q].id # act[b].t.pend
      BY <1>0, <3>1 DEF Copies
    <3>3. sent'[act[b].t.pend] = 0
      BY <1>0, <1>1, <1>3, <3>2
    <3> QED BY <1>0, <1>6, <3>1, <3>2, <3>3
  <2>3. /\ \A b \in Actors : act'[b].pc \notin Bare /\ act'[b].t.pend # 0 => appr'[act'[b].t.pend] # "ABSENT"
        /\ disk'.pend # 0 => appr'[disk'.pend] # "ABSENT"
    BY <1>0, <1>6 DEF Copies
  <2>4. disk'.state = "WAITING" =>
          /\ disk'.pend \in Approvals /\ sent'[disk'.pend] = 0
          /\ \A q \in Resumers : act'[q].pc = "executing" => act'[q].id # disk'.pend
    <3>1. disk.state = "WAITING" => disk.pend # k
      BY <1>0, <1>1 DEF Copies
    <3> QED BY <1>0, <1>3, <1>6, <3>1 DEF Copies
  <2> QED BY <2>1, <2>2, <2>3, <2>4 DEF Copies, Held, WithAction
<1>9. Lost'
  <2>1. act[r].id \notin lost /\ ~(InFlight(disk) /\ disk.pend \in lost)
    BY <1>0 DEF Lost
  <2>2. \A j \in lost : sent[j] > 0 => sent'[j] > 0
    BY <1>0, <1>3 DEF FlowTypeOK
  <2> QED BY <1>0, <2>1, <2>2, LostKept
<1> QED BY <1>5, <1>7, <1>8, <1>9 DEF Course

LEMMA GivesUpCourse ==
    ASSUME Ground, Course, NEW r \in Resumers, GivesUp(r)
    PROVE  Course'
<1>0. /\ FlowTypeOK /\ Answers /\ InTurn /\ Envelopes /\ Copies /\ Lost
      /\ UNCHANGED <<disk, appr, late, todo, sent, effects, lost>> /\ Only(r) /\ r \in Actors
      /\ act[r].pc = "sent" /\ Held(r)
      /\ act'[r].pc = "off" \/ (act'[r].pc = "failing" /\ act'[r].t = act[r].t /\ SameErrand(r))
  BY ActorSets, NewTaskType DEF Ground, Course, GivesUp, Held, Bare
<1>1. Onward /\ NoneAsked
  BY <1>0, SameOnward
<1>2. Answers' /\ InTurn'
  BY <1>0, <1>1, AnswersKept, AskedKept
<1>3. Envelopes'
  <2>1. act[r].id \in Approvals /\ sent[act[r].id] > 0
    BY <1>0 DEF Ground, Places, Envelopes
  <2>2. \A k \in Approvals :
          /\ effects'[k] \in {0, 1}
          /\ effects'[k] = 1 => sent'[k] > 0 /\ (appr'[k] = "CONSUMED" \/ k \in late')
          /\ sent'[k] > 0 => appr'[k] # "ABSENT"
    BY <1>0 DEF Envelopes
  <2>3. \A p \in inbox' : sent'[p[1]] > 0
    BY <1>0, <2>1 DEF GivesUp, Envelopes
  <2>4. \A q \in Resumers : act'[q].pc \in PastSending => sent'[act'[q].id] > 0
    BY <1>0, ActorSets DEF Only, Envelopes, PastSending
  <2> QED BY <2>2, <2>3, <2>4 DEF Envelopes, PastSending
<1>4. Copies'
  <2>1. Keeps(r) /\ act'[r].pc \in {"off", "failing"}
    BY <1>0 DEF Keeps, Bare
  <2> QED BY <1>0, <1>1, <2>1, CopiesKept DEF WithAction
<1>5. Lost'
  <2>1. act[r].id \notin lost /\ ~(InFlight(disk) /\ disk.pend \in lost)
    BY <1>0 DEF Lost
  <2>2. act'[r].pc \notin Bare => act'[r].id \notin lost
    BY <1>0, <2>1 DEF SameErrand, Bare
  <2> QED BY <1>0, <2>1, <2>2, LostKept
<1> QED BY <1>2, <1>3, <1>4, <1>5 DEF Course

(* A resumer sets out with an answer; its approval is not looked at otherwise. *)
LEMMA SetsOut ==
    ASSUME Ground, Course, Onward, NoneAsked, NEW r \in Resumers, Only(r), act[r].pc = "off",
           act'[r].pc = "resolved", UNCHANGED <<disk, inbox, sent, effects, lost>>
    PROVE  InTurn' /\ Envelopes' /\ Copies' /\ Lost'
<1>0. FlowTypeOK /\ InTurn /\ Envelopes /\ Copies /\ Lost /\ r \in Actors
  BY ActorSets DEF Ground, Course
<1>1. InTurn'
  BY <1>0, AskedKept
<1>2. Envelopes'
  BY <1>0, EnvelopesKept DEF PastSending
<1>3. Copies'
  <2>1. Keeps(r)
    BY DEF Keeps, Bare
  <2> QED BY <1>0, <2>1, CopiesKept DEF WithAction
<1>4. Lost'
  <2>1. act'[r].pc \in Bare
    BY DEF Bare
  <2> QED BY <1>0, <2>1, LostKept
<1> QED BY <1>1, <1>2, <1>3, <1>4

LEMMA DecidesCourse ==
    ASSUME Ground, Course, NEW h \in Handlers, NEW k \in Approvals, NEW d \in {"APPROVED", "REJECTED"},
           Decides(h, k, d)
    PROVE  Course'
<1>0. /\ FlowTypeOK /\ Answers /\ h \in Resumers /\ Only(h)
      /\ UNCHANGED <<disk, late, todo, inbox, sent, effects, lost>>
      /\ act[h].pc = "off" /\ ~Booting /\ appr[k] \in {"PENDING", d} /\ appr' = [appr EXCEPT ![k] = d]
      /\ act'[h].pc = "resolved" /\ act'[h].id = k /\ act'[h].status = d
      /\ h # "boot" /\ Resumers \subseteq Actors /\ "boot" \in Actors
  BY ActorSets, FlowAssumption DEF Ground, Course, Decides, environment
<1>1. Onward /\ NoneAsked
  BY <1>0, DecidesOnward
<1>2. appr'[k] = d
  BY <1>0 DEF FlowTypeOK
<1>3. \A r \in Resumers : r # h => act'[r] = act[r]
  BY <1>0 DEF Only
<1>4. /\ \A r \in Resumers : act[r].pc # "off" => act[r].id \in Approvals /\ act[r].status \in Statuses
      /\ \A p \in todo : p[1] \in Approvals /\ p[2] \in Statuses
  BY <1>0 DEF Ground, Places, FlowTypeOK, Actor, Statuses
<1>5. \A r \in Resumers : act'[r].pc # "off" => Compatible(act'[r].status, appr'[act'[r].id])
  <2>1. Compatible(d, appr'[k])
    BY <1>2 DEF Compatible
  <2>2. \A r \in Resumers : r # h /\ act[r].pc # "off" => Compatible(act[r].status, appr'[act[r].id])
    BY <1>0, <1>1, <1>4 DEF Answers, Onward
  <2> QED BY <1>0, <1>3, <2>1, <2>2
<1>6. \A p \in todo' : Compatible(p[2], appr'[p[1]])
  BY <1>0, <1>1, <1>4 DEF Answers, Onward
<1>7. ~Booting'
  BY <1>0, <1>3, ActorSets DEF Booting
<1>8. \A r, q \in Resumers :
          act'[r].pc # "off" /\ act'[q].pc # "off" /\ act'[r].id = act'[q].id =>
              act'[r].status = act'[q].status
  <2>1. \A r \in Resumers : r # h /\ act[r].pc # "off" /\ act[r].id = k => act[r].status = d
    BY <1>0 DEF Answers, Compatible
  <2> QED BY <1>0, <1>3, <2>1 DEF Answers
<1>9. \A r \in Resumers : act'[r].pc \notin {"off", "resolved", "loaded"} => act'[r].status = "APPROVED"
  BY <1>0, <1>3 DEF Answers
<1>10. \A j \in Approvals : appr'[j] = "EXPIRED" => j \in late'
  BY <1>1 DEF Onward
<1>11. Answers'
  BY <1>5, <1>6, <1>7, <1>8, <1>9, <1>10 DEF Answers
<1> QED BY <1>0, <1>1, <1>11, SetsOut DEF Course

LEMMA BootsCourse ==
    ASSUME Ground, Course, NEW p \in todo, Boots(p)
    PROVE  Course'
<1>0. /\ FlowTypeOK /\ Answers /\ "boot" \in Resumers /\ Only("boot")
      /\ UNCHANGED <<disk, appr, late, inbox, sent, effects, lost>> /\ todo' = todo \ {p}
      /\ act["boot"].pc = "off" /\ act'["boot"].pc = "resolved"
      /\ act'["boot"].id = p[1] /\ act'["boot"].status = p[2]
      /\ Resumers \subseteq Actors /\ Handlers \subseteq Resumers
      /\ \A r \in Resumers : r = "boot" \/ r \in Handlers
  BY ActorSets DEF Ground, Course, Boots, Resumers
<1>1. Onward /\ NoneAsked
  BY <1>0, SameOnward
<1>2. Booting
  BY DEF Booting
<1>3. \A r \in Resumers : r # "boot" => act'[r].pc = "off"
  BY <1>0, <1>2 DEF Only, Answers
<1>4. \A h \in Handlers : h # "boot"
  BY FlowAssumption
<1>5. Answers'
  <2>1. \A r \in Resumers : act'[r].pc # "off" => Compatible(act'[r].status, appr'[act'[r].id])
    BY <1>0, <1>3 DEF Answers
  <2>2. \A q \in todo' : Compatible(q[2], appr'[q[1]])
    BY <1>0 DEF Answers
  <2>3. \A h \in Handlers : act'[h].pc = "off"
    BY <1>0, <1>3, <1>4
  <2>4. \A r, q \in Resumers : act'[r].pc # "off" /\ act'[q].pc # "off" => r = q
    BY <1>3
  <2>5. \A r \in Resumers : act'[r].pc \in {"off", "resolved", "loaded"}
    BY <1>0, <1>3
  <2>6. \A j \in Approvals : appr'[j] = "EXPIRED" => j \in late'
    BY <1>0 DEF Answers
  <2> QED BY <2>1, <2>2, <2>3, <2>4, <2>5, <2>6 DEF Answers
<1> QED BY <1>0, <1>1, <1>5, SetsOut DEF Course

LEMMA CopiesStill ==
    ASSUME Ground, Copies, Onward, UNCHANGED <<disk, act, sent>>
    PROVE  Copies'
<1>1. \A b \in Actors : act[b].t.pend # 0 => act[b].t.pend \in Approvals
  BY ActorTypes, FlowAssumption DEF Ground, Approvals
<1>2. disk.pend # 0 => disk.pend \in Approvals
  BY FlowAssumption DEF Ground, FlowTypeOK, Task, Approvals
<1>3. \A k \in Approvals : appr[k] # "ABSENT" => appr'[k] # "ABSENT"
  BY DEF Onward
<1> QED BY <1>1, <1>2, <1>3 DEF Copies, Held

LEMMA ClosesCourse ==
    ASSUME Ground, Course, NEW k \in Approvals, Closes(k)
    PROVE  Course'
<1>0. /\ FlowTypeOK /\ Answers /\ InTurn /\ Envelopes /\ Copies /\ Lost
      /\ UNCHANGED <<disk, act, late, todo, inbox, sent, effects, lost>>
  BY DEF Ground, Course, Closes, environment
<1>1. Onward /\ NoneAsked
  BY <1>0, ClosesOnward
<1>2. Answers' /\ InTurn' /\ Envelopes' /\ Copies'
  BY <1>0, <1>1, AnswersStill, AskedKept, EnvelopesStill, CopiesStill
<1>3. Lost'
  BY <1>0 DEF Lost, Held, InFlight
<1> QED BY <1>2, <1>3 DEF Course

LEMMA EffectsCourse ==
    ASSUME Ground, Course, NEW p \in inbox, Effects(p[1], p[2])
    PROVE  Course'
<1> DEFINE k == p[1]
           r == p[2]
<1>0. /\ FlowTypeOK /\ Answers /\ InTurn /\ Envelopes /\ Copies /\ Lost
      /\ UNCHANGED <<disk, late, todo, sent, lost>> /\ inbox' \subseteq inbox
      /\ k \in Approvals /\ sent[k] > 0
      /\ r # "gone" => r \in Resumers /\ r \in Actors
  BY ActorSets DEF Ground, Course, Effects, FlowTypeOK, Envelopes
<1>1. Onward /\ NoneAsked
  BY <1>0, EffectsOnward
<1>2. \/ r = "gone" /\ act' = act
      \/ /\ r # "gone" /\ Only(r) /\ act'[r].pc \in {"failing", "replied"}
         /\ act'[r].t = act[r].t /\ SameErrand(r) /\ act[r].pc = "sent" /\ Held(r)
  BY DEF Effects, Ground, Waits, Held, Bare
<1>3. Answers'
  BY <1>0, <1>1, <1>2, AnswersKept, AnswersStill
<1>4. InTurn'
  BY <1>0, <1>1, AskedKept
<1>5. Envelopes'
  <2>1. \A j \in Approvals :
          /\ effects'[j] \in {0, 1}
          /\ effects'[j] = 1 => sent'[j] > 0 /\ (appr'[j] = "CONSUMED" \/ j \in late')
          /\ sent'[j] > 0 => appr'[j] # "ABSENT"
    <3>1. CASE effects' = effects
      BY <1>0, <1>1, <3>1 DEF Envelopes, Onward
    <3>2. CASE /\ appr[k] = "APPROVED" /\ k \notin late /\ appr' = [appr EXCEPT ![k] = "CONSUMED"]
               /\ effects' = [effects EXCEPT ![k] = @ + 1]
      <4>1. effects[k] = 0
        BY <1>0, <3>2 DEF Envelopes
      <4>2. effects'[k] = 1 /\ appr'[k] = "CONSUMED" /\ sent'[k] > 0
        BY <1>0, <3>2, <4>1 DEF FlowTypeOK
      <4>3. \A j \in Approvals : j # k => effects'[j] = effects[j] /\ appr'[j] = appr[j]
        BY <1>0, <3>2 DEF FlowTypeOK
      <4> QED BY <1>0, <4>2, <4>3 DEF Envelopes
    <3> QED BY <3>1, <3>2 DEF Effects
  <2>2. \A q \in inbox' : sent'[q[1]] > 0
    BY <1>0 DEF Envelopes
  <2>3. \A q \in Resumers : act'[q].pc \in PastSending => sent'[act'[q].id] > 0
    <3>1. \A q \in Resumers : act'[q].pc \in PastSending => act[q].pc \in PastSending /\ act'[q].id = act[q].id
      BY <1>0, <1>2, ActorSets DEF Only, SameErrand, PastSending
    <3> QED BY <1>0, <3>1 DEF Envelopes, PastSending
  <2> QED BY <2>1, <2>2, <2>3 DEF Envelopes, PastSending
<1>6. CASE r = "gone"
  <2>1. Copies'
    BY <1>0, <1>1, <1>2, <1>6, CopiesStill
  <2>2. Lost'
    BY <1>0, <1>2, <1>6 DEF Lost, Held, InFlight
  <2> QED BY <1>3, <1>4, <1>5, <2>1, <2>2 DEF Course
<1>7. CASE r # "gone"
  <2>1. Copies'
    <3>1. Keeps(r)
      BY <1>2, <1>7 DEF Keeps
    <3> QED BY <1>0, <1>1, <1>2, <1>7, <3>1, CopiesKept DEF WithAction
  <2>2. Lost'
    <3>1. act[r].id \notin lost /\ ~(InFlight(disk) /\ disk.pend \in lost)
      BY <1>0, <1>2, <1>7 DEF Lost
    <3>2. act'[r].id \notin lost
      BY <1>2, <1>7, <3>1 DEF SameErrand
    <3> QED BY <1>0, <1>2, <1>7, <3>1, <3>2, LostKept
  <2> QED BY <1>3, <1>4, <1>5, <2>1, <2>2 DEF Course
<1> QED BY <1>6, <1>7

LEMMA OtherCourse ==
    ASSUME Ground, Course, OtherStep
    PROVE  Course'
<1>0. FlowTypeOK /\ Answers /\ InTurn /\ Envelopes /\ Copies /\ Lost
  BY DEF Ground, Course
<1>1. CASE LeaseExpires \/ (\E k \in Approvals : ApprovalExpires(k))
  <2>1. UNCHANGED <<disk, appr, act, todo, inbox, sent, effects, lost>> /\ late \subseteq late'
    BY <1>1 DEF LeaseExpires, ApprovalExpires
  <2>2. Onward /\ NoneAsked
    BY <1>0, <2>1, SameOnward
  <2>3. Answers' /\ InTurn' /\ Envelopes' /\ Copies'
    BY <1>0, <2>1, <2>2, AnswersStill, AskedKept, EnvelopesStill, CopiesStill
  <2>4. Lost'
    BY <1>0, <2>1 DEF Lost, Held, InFlight
  <2> QED BY <2>3, <2>4 DEF Course
<1>2. CASE Restart
  <2>1. Onward /\ NoneAsked
    BY <1>0, <1>2, RestartOnward
  <2>2. /\ UNCHANGED <<disk, sent, effects>> /\ lost' = {k \in Approvals : sent[k] > 0}
        /\ \A a \in Actors : act'[a].pc \in Bare
        /\ \A r \in Resumers : act'[r].pc = "off"
    <3>1. \A a \in Actors : act'[a].pc = IF a = "recovery" THEN "listing" ELSE "off"
      <4>1. [Off EXCEPT !.pc = "listing"].pc = "listing"
        BY NewTaskType DEF Actor
      <4>2. act' = [a \in Actors |-> IF a = "recovery" THEN [Off EXCEPT !.pc = "listing"] ELSE Off]
        BY <1>2 DEF Restart
      <4> QED BY <4>1, <4>2, NewTaskType
    <3> QED BY <1>2, <3>1, ActorSets DEF Restart, Bare
  <2>3. Answers'
    <3>1. \A p \in todo' : p[2] \in {"APPROVED", "REJECTED", "EXPIRED"} /\ appr'[p[1]] = p[2]
      BY <1>2 DEF Restart
    <3>2. \A p \in todo' : Compatible(p[2], appr'[p[1]])
      BY <3>1 DEF Compatible
    <3> QED BY <2>1, <2>2, <3>2, ActorSets DEF Answers, Onward
  <2>4. InTurn'
    BY <1>0, <2>1, AskedKept
  <2>5. Envelopes'
    <3>1. \A p \in inbox' : \E q \in inbox : q[1] = p[1]
      BY <1>2 DEF Restart
    <3> QED BY <1>0, <2>1, <2>2, <3>1 DEF Envelopes, Onward
  <2>6. Copies'
    <3>1. disk.pend # 0 => disk.pend \in Approvals
      BY <1>0, FlowAssumption DEF FlowTypeOK, Task, Approvals
    <3>2. \A a \in Actors : act'[a].pc # "asking"
      BY <2>2 DEF Bare
    <3> QED BY <1>0, <2>1, <2>2, <3>1, <3>2 DEF Copies, Held, Onward
  <2>7. Lost'
    BY <2>2, ActorSets DEF Lost, Held
  <2> QED BY <2>3, <2>4, <2>5, <2>6, <2>7 DEF Course
<1> QED BY <1>1, <1>2 DEF OtherStep

LEMMA CourseStep ==
    ASSUME Ground, Course, [Next]_vars
    PROVE  Course'
<1>1. CASE Next
  <2>0. FlowTypeOK /\ Places
    BY DEF Ground
  <2>1. ASSUME NEW a \in Actors, ActorStep(a) PROVE Course'
    BY <2>1, YieldsCourse, SavesCourse, AsksCourse DEF ActorStep
  <2>2. ASSUME NEW r \in Resumers, ResumerMove(r) PROVE Course'
    BY <2>2, LoadsCourse, SendsCourse, GivesUpCourse DEF ResumerMove
  <2>3. CASE AnswerMove
    BY <2>3, DecidesCourse, ClosesCourse, BootsCourse, EffectsCourse DEF AnswerMove
  <2> QED BY <1>1, <2>0, <2>1, <2>2, <2>3, Shapes, WorkerMoveCourse, OtherCourse
<1>2. CASE UNCHANGED vars
  <2>1. /\ UNCHANGED <<disk, appr, late, act, todo, inbox, sent, effects, lost>>
    BY <1>2 DEF vars
  <2>2. /\ Answers' /\ Envelopes' /\ Copies' /\ Lost'
    BY <2>1 DEF Course, Answers, Envelopes, Copies, Lost, Held, InFlight, Booting
  <2>3. InTurn'
    BY <2>1, SameOnward, AskedKept DEF Course
  <2> QED BY <2>2, <2>3 DEF Course
<1> QED BY <1>1, <1>2

LEMMA CourseInit ==
    ASSUME Init
    PROVE  Course
<1>0. /\ \A r \in Resumers : act[r].pc = "off"
      /\ \A a \in Actors : act[a].pc \in Bare /\ act[a].pc # "asking"
      /\ Workers \subseteq Actors /\ Handlers \subseteq Resumers
  <2>1. Ground
    BY GroundInit
  <2>2. \A a \in Actors : act[a] = [Off EXCEPT !.pc = CASE a = "creator" -> "start"
                                                         [] a = "recovery" /\ RecoveryDue -> "listing"
                                                         [] OTHER -> "off"]
    BY DEF Init
  <2>3. \A a \in Actors : act[a].pc = CASE a = "creator" -> "start"
                                        [] a = "recovery" /\ RecoveryDue -> "listing"
                                        [] OTHER -> "off"
    BY <2>2, NewTaskType DEF Actor
  <2>4. \A r \in Resumers : r \in Actors /\ r # "creator" /\ r # "recovery"
    BY ActorSets DEF Workers
  <2> QED BY <2>3, <2>4, ActorSets DEF Bare
<1>1. /\ \A k \in Approvals : appr[k] = "ABSENT" /\ sent[k] = 0 /\ effects[k] = 0
      /\ todo = {} /\ inbox = {} /\ lost = {} /\ disk.pend = 0 /\ disk.state = "NEW"
  BY DEF Init, NewTask
<1>2. Answers
  BY <1>0, <1>1 DEF Answers
<1>3. InTurn
  <2>1. {k \in Approvals : appr[k] # "ABSENT"} = {}
    BY <1>1
  <2>2. Asked = 0
    BY <2>1, FS_EmptySet DEF Asked
  <2>3. \A k \in Approvals : ~(k <= 0)
    BY FlowAssumption DEF Approvals
  <2> QED BY <1>1, <2>2, <2>3, FlowAssumption DEF InTurn
<1>4. Envelopes
  BY <1>0, <1>1 DEF Envelopes
<1>5. Copies
  BY <1>0, <1>1 DEF Copies, Held
<1>6. Lost
  BY <1>0, <1>1, ActorSets DEF Lost, InFlight
<1> QED BY <1>2, <1>3, <1>4, <1>5, <1>6 DEF Course

-----------------------------------------------------------------------------
(* No step replays what was lost. *)
LEMMA ReplayStep ==
    ASSUME Ground, Course, [Next]_vars
    PROVE  NoBlindReplayStep
<1>0. FlowTypeOK /\ Places /\ Leases /\ Lost /\ sent \in [Approvals -> Nat] /\ lost \subseteq Approvals
  BY DEF Ground, Course, FlowTypeOK
<1>1. ASSUME disk'.state = disk.state, \A k \in lost : sent'[k] = sent[k]
      PROVE  NoBlindReplayStep
  BY <1>1 DEF NoBlindReplayStep
<1>2. ASSUME NEW a \in Actors, ActorStep(a) PROVE NoBlindReplayStep
  <2>1. CASE Yields(a) \/ Asks(a)
    BY <1>1, <2>1 DEF Yields, Asks, environment
  <2>2. CASE Saves(a)
    <3>1. Held(a) /\ sent' = sent
      BY <1>0, <2>2, SavesLease DEF Saves, environment
    <3>2. ASSUME InFlight(disk), disk.pend \in lost PROVE disk'.state = "FAILED"
      <4>1. a \in Workers /\ act[a].pc \in {"failing", "release"}
        BY <1>0, <3>1, <3>2, ActorSets DEF Lost
      <4> QED BY <2>2, <4>1, ActorSets DEF Saves, Edge, WorkerEdge
    <3> QED BY <3>1, <3>2 DEF NoBlindReplayStep
  <2> QED BY <1>2, <2>1, <2>2 DEF ActorStep
<1>3. ASSUME NEW w \in Workers, WorkerMove(w) PROVE NoBlindReplayStep
  BY <1>1, <1>3 DEF WorkerMove, Claims, Releases, environment
<1>4. ASSUME NEW r \in Resumers, ResumerMove(r) PROVE NoBlindReplayStep
  <2>1. CASE Loads(r) \/ GivesUp(r)
    BY <1>1, <2>1 DEF Loads, GivesUp, environment
  <2>2. CASE Sends(r)
    <3>1. act[r].id \notin lost
      BY <1>0, <2>2 DEF Sends, Lost, Held, Bare
    <3>2. \A k \in lost : sent'[k] = sent[k]
      BY <1>0, <2>2, <3>1 DEF Sends
    <3> QED BY <1>1, <2>2, <3>2 DEF Sends
  <2> QED BY <1>4, <2>1, <2>2 DEF ResumerMove
<1>5. ASSUME AnswerMove PROVE NoBlindReplayStep
  BY <1>1, <1>5 DEF AnswerMove, Decides, Closes, Boots, Effects, environment
<1>6. ASSUME OtherStep PROVE NoBlindReplayStep
  BY <1>1, <1>6 DEF OtherStep, LeaseExpires, ApprovalExpires, Restart
<1>7. CASE UNCHANGED vars
  BY <1>1, <1>7 DEF vars
<1> QED BY <1>0, <1>2, <1>3, <1>4, <1>5, <1>6, <1>7, Shapes

(***************************************************************************)
(* NoBlindReplayHolds: what may have reached the executor before a restart *)
(* is not sent again, and a task in flight with it can only fail.          *)
(***************************************************************************)
THEOREM NoBlindReplayHolds == Spec => NoBlindReplay
<1>1. Init => Ground /\ Course
  BY GroundInit, CourseInit
<1>2. Ground /\ Course /\ [Next]_vars => (Ground /\ Course)'
  BY GroundStep, CourseStep
<1>3. Ground /\ Course /\ [Next]_vars => NoBlindReplayStep
  BY ReplayStep
<1> QED BY <1>1, <1>2, <1>3, PTL DEF Spec, NoBlindReplay

-----------------------------------------------------------------------------
(* The outcome. *)

LEMMA TouchedAsked ==
    ASSUME Ground, Course, NEW k \in Approvals, Touched(k)
    PROVE  appr[k] # "ABSENT" /\ k <= Asked
<1>1. appr[k] # "ABSENT"
  BY DEF Touched, Course, Envelopes, Answers, Compatible
<1> QED BY <1>1 DEF Course, InTurn

LEMMA UntouchedUndone ==
    ASSUME Course, NEW k \in Approvals
    PROVE  effects[k] \in {0, 1} /\ (effects[k] = 1 => Touched(k))
BY DEF Course, Envelopes, Touched

(***************************************************************************)
(* A step that adds no driver, nobody on the way to the executor and no    *)
(* touched approval, and undoes no effect.                                 *)
(***************************************************************************)
Recedes ==
    /\ \A k \in Approvals : /\ effects'[k] \in {0, 1} /\ (effects[k] = 1 => effects'[k] = 1)
                            /\ Touched(k)' => Touched(k)
    /\ \A a \in Actors : Driver(a)' =>
          /\ Driver(a)
          /\ act'[a].pc = "asking" => act[a].pc = "asking" /\ act'[a].t.pend = act[a].t.pend
    /\ \A r \in Resumers : Before(r)' =>
          /\ Before(r) /\ act[r].id \in Approvals
          /\ act'[r].id = act[r].id /\ act'[r].status = act[r].status
          /\ act[r].status # "APPROVED" => effects'[act[r].id] = effects[act[r].id]

LEMMA RecedingDrivers ==
    ASSUME Course, Outcomes, Recedes
    PROVE  Outcome2' /\ Outcome4' /\ Outcome5'
<1>0. Outcome2 /\ Outcome4 /\ Outcome5
  BY DEF Outcomes
<1>1. \A k \in Approvals : /\ effects[k] \in {0, 1} /\ effects'[k] \in {0, 1}
                           /\ effects[k] = 1 => effects'[k] = 1
                           /\ Touched(k)' => Touched(k)
  BY UntouchedUndone DEF Recedes
<1>2. ASSUME NEW a \in Actors, Driver(a)'
      PROVE  /\ Clean'
             /\ \A b \in Actors : Driver(b)' => b = a
             /\ \A r \in Resumers : Before(r)' => effects'[act'[r].id] = 1
             /\ act'[a].pc = "asking" => \A j \in Approvals : j >= act'[a].t.pend => ~Touched(j)'
  <2>1. Driver(a) /\ (act'[a].pc = "asking" => act[a].pc = "asking" /\ act'[a].t.pend = act[a].t.pend)
    BY <1>2 DEF Recedes
  <2>2. /\ Clean
        /\ \A b \in Actors : Driver(b) => b = a
        /\ \A r \in Resumers : Before(r) => effects[act[r].id] = 1
        /\ act[a].pc = "asking" => \A j \in Approvals : j >= act[a].t.pend => ~Touched(j)
    BY <1>0, <2>1 DEF Outcome2
  <2>3. Clean'
    BY <1>1, <2>2 DEF Clean
  <2>4. \A b \in Actors : Driver(b)' => b = a
    BY <2>2 DEF Recedes
  <2>5. \A r \in Resumers : Before(r)' => effects'[act'[r].id] = 1
    BY <1>1, <2>2 DEF Recedes
  <2> QED BY <1>1, <2>1, <2>2, <2>3, <2>4, <2>5
<1>3. ASSUME NEW r \in Resumers, Before(r)', effects'[act'[r].id] = 0
      PROVE  /\ \A j \in Approvals : j # act'[r].id /\ Touched(j)' => effects'[j] = 1
             /\ \A j \in Approvals : j > act'[r].id => ~Touched(j)'
             /\ \A a \in Actors : ~Driver(a)'
             /\ \A q \in Resumers : Before(q)' => act'[q].id = act'[r].id \/ effects'[act'[q].id] = 1
             /\ act'[r].status # "APPROVED" => \A j \in Approvals : j = act'[r].id => ~Touched(j)'
  <2>1. Before(r) /\ act[r].id \in Approvals /\ act'[r].id = act[r].id /\ act'[r].status = act[r].status
    BY <1>3 DEF Recedes
  <2>2. effects[act[r].id] = 0
    BY <1>1, <1>3, <2>1
  <2>3. /\ \A j \in Approvals : j # act[r].id /\ Touched(j) => effects[j] = 1
        /\ \A j \in Approvals : j > act[r].id => ~Touched(j)
        /\ \A a \in Actors : ~Driver(a)
        /\ \A q \in Resumers : Before(q) => act[q].id = act[r].id \/ effects[act[q].id] = 1
        /\ act[r].status # "APPROVED" => \A j \in Approvals : j = act[r].id => ~Touched(j)
    BY <1>0, <2>1, <2>2 DEF Outcome4
  <2>4. \A a \in Actors : ~Driver(a)'
    BY <2>3 DEF Recedes
  <2>5. \A q \in Resumers : Before(q)' => act'[q].id = act[r].id \/ effects'[act'[q].id] = 1
    BY <1>1, <2>3 DEF Recedes
  <2> QED BY <1>1, <2>1, <2>3, <2>4, <2>5
<1>4. \A r \in Resumers : Before(r)' /\ act'[r].status # "APPROVED" => effects'[act'[r].id] = 0
  BY <1>0 DEF Recedes, Outcome5
<1>5. Outcome2'
  BY <1>2 DEF Outcome2
<1>6. Outcome4'
  BY <1>3 DEF Outcome4
<1> QED BY <1>4, <1>5, <1>6 DEF Outcome5

(* When the task stays what it was, what the file says stays true. *)
LEMMA RecedingFile ==
    ASSUME Course, Outcomes, Recedes, disk'.state = disk.state, disk'.pend = disk.pend, Asked' = Asked
    PROVE  Outcomes'
<1>0. Outcome1 /\ Outcome3 /\ Outcome6
  BY DEF Outcomes
<1>1. \A k \in Approvals : /\ effects[k] \in {0, 1} /\ effects'[k] \in {0, 1}
                           /\ effects[k] = 1 => effects'[k] = 1
                           /\ Touched(k)' => Touched(k)
  BY UntouchedUndone DEF Recedes
<1>2. Outcome1'
  <2>1. GoesOn(disk)' <=> GoesOn(disk)
    BY DEF GoesOn
  <2> QED BY <1>0, <1>1, <2>1 DEF Outcome1, Clean
<1>3. Outcome3'
  <2>1. \A a \in Actors : ~Driver(a) => ~Driver(a)'
    BY DEF Recedes
  <2>2. \A r \in Resumers : Before(r)' => Before(r) /\ act'[r].id = act[r].id /\ act[r].id \in Approvals
    BY DEF Recedes
  <2> QED BY <1>0, <1>1, <2>1, <2>2 DEF Outcome3
<1>4. Outcome6'
  BY <1>0, <1>1 DEF Outcome6
<1> QED BY <1>2, <1>3, <1>4, RecedingDrivers DEF Outcomes

LEMMA OnlyRecedes ==
    ASSUME Ground, Course, NEW a \in Actors, Only(a), SameLease(disk', disk),
           \A k \in Approvals : /\ effects'[k] \in {0, 1} /\ (effects[k] = 1 => effects'[k] = 1)
                                /\ sent'[k] > 0 => Touched(k),
           \A r \in Resumers : Before(r) /\ act[r].status # "APPROVED" =>
                                  effects'[act[r].id] = effects[act[r].id],
           act'[a].pc = "executing" => act[a].pc = "executing" /\ SameErrand(a),
           act'[a].pc \in Driving \cup Ahead /\ SameLease(act'[a].t, disk) =>
              /\ Live(a) /\ SameErrand(a)
              /\ act'[a].pc \in Driving => act[a].pc \in Driving
              /\ act'[a].pc \in Ahead => act[a].pc \in Ahead
              /\ act'[a].pc = "asking" => act[a].pc = "asking" /\ act'[a].t.pend = act[a].t.pend
    PROVE  Recedes
<1>0. /\ Resumers \subseteq Actors
      /\ \A r \in Resumers : act[r].pc # "off" => act[r].id \in Approvals
  BY ActorSets DEF Ground, Places
<1>1. \A b \in Actors : b # a => act'[b] = act[b]
  BY DEF Only
<1>2. \A k \in Approvals : Touched(k)' => Touched(k)
  <2> SUFFICES ASSUME NEW k \in Approvals, Touched(k)' PROVE Touched(k)
    OBVIOUS
  <2>1. sent'[k] > 0 \/ \E r \in Resumers : act'[r].pc = "executing" /\ act'[r].id = k
    BY DEF Touched
  <2>2. ASSUME NEW r \in Resumers, act'[r].pc = "executing", act'[r].id = k PROVE Touched(k)
    BY <1>0, <1>1, <2>2 DEF Touched, SameErrand
  <2> QED BY <2>1, <2>2
<1>3. \A b \in Actors : b # a => (Live(b)' <=> Live(b))
  BY <1>1 DEF Live, Held, SameLease
<1>4. \A b \in Actors : Driver(b)' =>
          /\ Driver(b)
          /\ act'[b].pc = "asking" => act[b].pc = "asking" /\ act'[b].t.pend = act[b].t.pend
  <2> SUFFICES ASSUME NEW b \in Actors, Driver(b)'
               PROVE  /\ Driver(b)
                      /\ act'[b].pc = "asking" => act[b].pc = "asking" /\ act'[b].t.pend = act[b].t.pend
    OBVIOUS
  <2>1. CASE b # a
    BY <1>1, <1>3, <2>1 DEF Driver
  <2>2. CASE b = a
    BY <2>2 DEF Driver, Live, SameLease
  <2> QED BY <2>1, <2>2
<1>5. \A r \in Resumers : Before(r)' =>
          /\ Before(r) /\ act[r].id \in Approvals
          /\ act'[r].id = act[r].id /\ act'[r].status = act[r].status
  <2> SUFFICES ASSUME NEW r \in Resumers, Before(r)'
               PROVE  /\ Before(r) /\ act[r].id \in Approvals
                      /\ act'[r].id = act[r].id /\ act'[r].status = act[r].status
    OBVIOUS
  <2>1. CASE r # a
    <3>1. Before(r) /\ act'[r] = act[r] /\ act[r].pc # "off"
      BY <1>0, <1>1, <1>3, <2>1 DEF Before, Ahead
    <3> QED BY <1>0, <3>1
  <2>2. CASE r = a
    <3>1. Before(r) /\ SameErrand(r) /\ act[r].pc # "off"
      BY <2>2 DEF Before, Live, SameLease, Ahead
    <3> QED BY <1>0, <3>1 DEF SameErrand
  <2> QED BY <2>1, <2>2
<1> QED BY <1>2, <1>4, <1>5 DEF Recedes

(* Effects and envelopes unchanged: the premises of OnlyRecedes about them. *)
LEMMA SameEffects ==
    ASSUME Course, UNCHANGED <<sent, effects>>
    PROVE  \A k \in Approvals : /\ effects'[k] \in {0, 1} /\ (effects[k] = 1 => effects'[k] = 1)
                                /\ sent'[k] > 0 => Touched(k)
BY DEF Course, Envelopes, Touched

LEMMA StillRecedes ==
    ASSUME Ground, Course, UNCHANGED <<disk, act, sent, effects>>
    PROVE  Recedes
<1>1. "boot" \in Actors /\ Only("boot") /\ SameLease(disk', disk) /\ SameErrand("boot")
  BY ActorSets DEF Only, Ground, FlowTypeOK, SameLease, SameErrand
<1>2. act'["boot"].pc \in Driving \cup Ahead /\ SameLease(act'["boot"].t, disk) => Live("boot")
  BY DEF Live, Held, Bare, Driving, Ahead
<1> QED BY <1>1, <1>2, SameEffects, OnlyRecedes

(* Steps after which their actor neither drives nor is on its way. *)
LEMMA LeaverRecedes ==
    ASSUME Ground, Course, NEW a \in Actors, Only(a), SameLease(disk', disk), UNCHANGED <<sent, effects>>,
           act'[a].pc \notin Driving \cup Ahead
    PROVE  Recedes
<1>1. act'[a].pc # "executing"
  BY DEF Ahead
<1> QED BY <1>1, SameEffects, OnlyRecedes

LEMMA YieldsOutcome ==
    ASSUME Ground, Course, Outcomes, NEW a \in Actors, Yields(a)
    PROVE  Outcomes'
<1>1. /\ UNCHANGED <<disk, sent, effects>> /\ Only(a) /\ SameLease(disk', disk)
      /\ act'[a].pc \in {"off", "waiting", "start", "checked", "failing", "release"}
  BY NewTaskType DEF Yields, environment, SameLease
<1>2. Recedes
  <2>1. act'[a].pc \notin Driving \cup Ahead
    BY <1>1 DEF Driving, Ahead
  <2> QED BY <1>1, <2>1, LeaverRecedes
<1>3. Asked' = Asked
  BY YieldsOnward, AskedKept DEF Course
<1> QED BY <1>1, <1>2, <1>3, RecedingFile

LEMMA ReleasesOutcome ==
    ASSUME Ground, Course, Outcomes, NEW w \in Workers, Releases(w)
    PROVE  Outcomes'
<1>0. /\ w \in Actors /\ w \notin Resumers /\ Leases /\ Held(w)
      /\ UNCHANGED <<appr, sent, effects>> /\ disk'.state = disk.state /\ disk'.pend = disk.pend
      /\ disk'.fence = disk.fence /\ disk'.token = 0 /\ SameLease(act[w].t, disk)
      /\ Only(w) /\ act'[w].pc = "off" /\ Resumers \subseteq Actors
  BY ActorSets, NewTaskType DEF Releases, environment, Ground, Held, Bare
<1>1. disk.token # 0
  BY <1>0 DEF Leases, SameLease
<1>2. \A b \in Actors : ~Live(b)'
  <2>1. \A b \in Actors : Held(b) /\ act[b].t.fence = disk.fence => act[b].t.token # 0
    BY <1>0, <1>1 DEF Leases
  <2>2. \A b \in Actors : act'[b].pc \notin Bare => Held(b) /\ act'[b] = act[b]
    BY <1>0 DEF Only, Held, Bare
  <2> QED BY <1>0, <2>1, <2>2 DEF Live, Held, SameLease
<1>3. \A k \in Approvals : Touched(k)' => Touched(k)
  <2>1. \A r \in Resumers : act'[r] = act[r]
    BY <1>0 DEF Only
  <2> QED BY <1>0, <2>1 DEF Touched
<1>4. Recedes
  BY <1>0, <1>2, <1>3, UntouchedUndone DEF Recedes, Driver, Before
<1>5. Asked' = Asked
  BY <1>0 DEF Asked
<1> QED BY <1>0, <1>4, <1>5, RecedingFile

LEMMA ClaimsOutcome ==
    ASSUME Ground, Course, Outcomes, NEW w \in Workers, Claims(w), ~raced'
    PROVE  Outcomes'
<1>0. /\ w \in Actors /\ w \notin Resumers /\ Leases /\ FlowTypeOK
      /\ UNCHANGED <<appr, sent, effects>> /\ disk'.state = disk.state /\ disk'.pend = disk.pend
      /\ disk'.fence = disk.fence + 1 /\ disk.fence \in Nat
      /\ Only(w) /\ act'[w].pc = (IF InFlight(disk) THEN "failing" ELSE "working")
      /\ ~Parked(disk) /\ Resumers \subseteq Actors
  <2>1. disk.fence \in Nat
    BY FlowAssumption DEF Ground, FlowTypeOK, Task
  <2>2. ~Parked(disk)
    BY DEF Claims
  <2> QED BY <2>1, <2>2, ActorSets DEF Claims, environment, Ground
<1>1. disk.state \in {"NEW", "WORKING", "EXECUTING", "VERIFYING"}
  BY <1>0 DEF Parked, Terminal, FlowTypeOK, Task, States
<1>2. \A b \in Actors : b # w => ~Live(b)'
  <2> SUFFICES ASSUME NEW b \in Actors, b # w, act'[b].pc \notin Bare, act'[b].t.fence = disk'.fence
               PROVE  FALSE
    BY DEF Live, Held, SameLease
  <2>1. Held(b) /\ act'[b] = act[b]
    BY <1>0 DEF Only, Held
  <2>2. act[b].t.fence <= disk.fence /\ act[b].t.fence \in Nat
    BY <1>0, <2>1, ActorTypes, FlowAssumption DEF Leases, Task
  <2> QED BY <1>0, <2>1, <2>2
<1>3. \A k \in Approvals : Touched(k)' => Touched(k)
  <2>1. \A r \in Resumers : act'[r] = act[r]
    BY <1>0 DEF Only
  <2> QED BY <1>0, <2>1 DEF Touched
<1>4. Clean => Clean'
  BY <1>0, <1>3 DEF Clean
<1>5. \A r \in Resumers : ~Before(r)'
  BY <1>0, <1>2 DEF Before
<1>6. Outcome1'
  <2>1. GoesOn(disk)' <=> GoesOn(disk)
    BY <1>0 DEF GoesOn
  <2> QED BY <1>4, <2>1 DEF Outcomes, Outcome1
<1>7. ASSUME NEW a \in Actors, Driver(a)' PROVE a = w /\ act'[a].pc = "working" /\ Clean'
  <2>1. a = w
    BY <1>2, <1>7 DEF Driver
  <2>2. ~InFlight(disk) /\ act'[a].pc = "working"
    BY <1>0, <1>7, <2>1 DEF Driver, Driving
  <2>3. GoesOn(disk)
    BY <1>1, <2>2 DEF InFlight, GoesOn
  <2> QED BY <1>4, <2>1, <2>2, <2>3 DEF Outcomes, Outcome1
<1>8. Outcome2'
  BY <1>5, <1>7 DEF Outcome2
<1>9. Outcome3' /\ Outcome4' /\ Outcome5' /\ Outcome6'
  BY <1>0, <1>1, <1>5 DEF Outcome3, Outcome4, Outcome5, Outcome6
<1> QED BY <1>6, <1>8, <1>9 DEF Outcomes

LEMMA AsksOutcome ==
    ASSUME Ground, Course, Outcomes, NEW a \in Actors, Asks(a)
    PROVE  Outcomes'
<1>0. /\ UNCHANGED <<disk, sent, effects>> /\ Only(a) /\ FlowTypeOK /\ InTurn
      /\ act[a].pc \in {"working", "planning"} /\ act'[a].pc = "asking" /\ SameErrand(a)
      /\ SameLease(act'[a].t, act[a].t) /\ act'[a].t.pend = Asked + 1 /\ Held(a)
      /\ Resumers \subseteq Actors /\ Asked \in Nat /\ MaxApprovals \in Nat
      /\ Asked' = Asked + 1
  BY ActorSets, AskedGrows, FlowAssumption DEF Asks, environment, Ground, Course, Held, Bare, InTurn
<1>1. \A b \in Actors : b # a => act'[b] = act[b]
  BY <1>0 DEF Only
<1>2. \A k \in Approvals : /\ Touched(k)' <=> Touched(k)
                           /\ k > Asked => ~Touched(k)
  <2>1. \A r \in Resumers : act'[r].pc = "executing" <=> act[r].pc = "executing"
    BY <1>0, <1>1
  <2>2. \A r \in Resumers : act'[r].id = act[r].id
    BY <1>0, <1>1 DEF SameErrand
  <2>3. \A k \in Approvals : Touched(k)' <=> Touched(k)
    BY <1>0, <2>1, <2>2 DEF Touched
  <2>4. \A k \in Approvals : k > Asked => ~(k <= Asked)
    BY <1>0 DEF Approvals
  <2> QED BY <2>3, <2>4, TouchedAsked
<1>3. \A b \in Actors : /\ Live(b)' <=> Live(b)
                        /\ Driver(b)' <=> Driver(b)
  <2>1. \A b \in Actors : Live(b)' <=> Live(b)
    BY <1>0, <1>1 DEF Live, Held, Bare, SameLease
  <2>2. act[a].pc \in Driving /\ act'[a].pc \in Driving
    BY <1>0 DEF Driving
  <2> QED BY <1>1, <2>1, <2>2 DEF Driver
<1>4. \A r \in Resumers : /\ Before(r)' <=> Before(r)
                          /\ act'[r].id = act[r].id /\ act'[r].status = act[r].status
  <2>1. \A r \in Resumers : act'[r].pc \in Ahead <=> act[r].pc \in Ahead
    BY <1>0, <1>1 DEF Ahead
  <2> QED BY <1>0, <1>1, <1>3, <2>1 DEF Before, SameErrand
<1>5. Outcome1'
  <2>1. GoesOn(disk)' <=> GoesOn(disk)
    BY <1>0 DEF GoesOn
  <2> QED BY <1>0, <1>2, <2>1 DEF Outcomes, Outcome1, Clean
<1>6. ASSUME NEW b \in Actors, Driver(b)'
      PROVE  /\ Clean'
             /\ \A c \in Actors : Driver(c)' => c = b
             /\ \A r \in Resumers : Before(r)' => effects'[act'[r].id] = 1
             /\ act'[b].pc = "asking" => \A j \in Approvals : j >= act'[b].t.pend => ~Touched(j)'
  <2>1. /\ Clean
        /\ \A c \in Actors : Driver(c) => c = b
        /\ \A r \in Resumers : Before(r) => effects[act[r].id] = 1
        /\ act[b].pc = "asking" => \A j \in Approvals : j >= act[b].t.pend => ~Touched(j)
    BY <1>3, <1>6 DEF Outcomes, Outcome2
  <2>2. Clean'
    BY <1>0, <1>2, <2>1 DEF Clean
  <2>3. act'[b].pc = "asking" => \A j \in Approvals : j >= act'[b].t.pend => ~Touched(j)'
    <3>1. CASE b = a
      <4>1. \A j \in Approvals : j >= Asked + 1 => j > Asked
        BY <1>0 DEF Approvals
      <4> QED BY <1>0, <1>2, <3>1, <4>1
    <3>2. CASE b # a
      BY <1>1, <1>2, <2>1, <3>2
    <3> QED BY <3>1, <3>2
  <2> QED BY <1>0, <1>3, <1>4, <2>1, <2>2, <2>3
<1>7. Outcome2'
  BY <1>6 DEF Outcome2
<1>8. Outcome3'
  BY <1>0, <1>2, <1>3, <1>4 DEF Outcomes, Outcome3
<1>9. Outcome4' /\ Outcome5'
  BY <1>0, <1>2, <1>3, <1>4 DEF Outcomes, Outcome4, Outcome5
<1>10. Outcome6'
  <2>1. \A j \in Approvals : j = Asked + 1 => j > Asked
    BY <1>0 DEF Approvals
  <2> QED BY <1>0, <1>2, <2>1 DEF Outcome6
<1> QED BY <1>5, <1>7, <1>8, <1>9, <1>10 DEF Outcomes

(* A resumer begins: its approval is touched now, and it was the only one open. *)
LEMMA BeginsOutcome ==
    ASSUME Ground, Course, Outcomes, NEW r \in Resumers, Saves(r),
           Edge(r, "loaded", "executing", "EXECUTING", act[r].t.pend), act[r].status = "APPROVED"
    PROVE  Outcomes'
<1>0. /\ r \in Actors /\ UNCHANGED <<appr, sent, effects>> /\ Only(r)
      /\ act[r].pc = "loaded" /\ act'[r].pc = "executing" /\ disk'.state = "EXECUTING"
      /\ disk'.pend = act[r].t.pend /\ act'[r].t = disk' /\ SameErrand(r)
      /\ Resumers \subseteq Actors
  BY ActorSets DEF Saves, environment, Edge, Off
<1>1. /\ act[r].t.pend = act[r].id /\ act[r].id \in Approvals /\ act[r].id # 0
      /\ act'[r].id = act[r].id /\ act'[r].status = act[r].status
  BY <1>0 DEF Course, Copies, Ground, Places, Approvals, SameErrand
<1>2. /\ SameLease(disk', disk) /\ Held(r) /\ SameLease(act[r].t, disk)
  BY <1>0, SavesLease DEF Ground
<1>3. Before(r) /\ Live(r)
  BY <1>0, <1>2 DEF Before, Live, Ahead
<1>4. \A b \in Actors : b # r => act'[b] = act[b]
  BY <1>0 DEF Only
<1>5. \A b \in Actors : /\ Live(b)' <=> Live(b)
                        /\ Driver(b)' <=> Driver(b)
  <2>1. \A b \in Actors : Live(b)' <=> Live(b)
    <3>1. Live(r)'
      BY <1>0 DEF Live, Held, Bare, SameLease
    <3> QED BY <1>2, <1>3, <1>4, <3>1 DEF Live, Held, SameLease
  <2>2. act[r].pc \notin Driving /\ act'[r].pc \notin Driving
    BY <1>0 DEF Driving
  <2> QED BY <1>4, <2>1, <2>2 DEF Driver
<1>6. \A q \in Resumers : /\ Before(q)' <=> Before(q)
                          /\ act'[q].id = act[q].id /\ act'[q].status = act[q].status
  <2>1. \A q \in Resumers : act'[q].pc \in Ahead <=> act[q].pc \in Ahead
    BY <1>0, <1>4 DEF Ahead
  <2> QED BY <1>0, <1>1, <1>4, <1>5, <2>1 DEF Before
<1>7. \A k \in Approvals : Touched(k)' => Touched(k) \/ k = act[r].id
  BY <1>0, <1>1, <1>4 DEF Touched
<1>8. Outcome1' /\ Outcome3' /\ Outcome6'
  <2>1. ~GoesOn(disk)'
    BY <1>0, <1>1 DEF GoesOn
  <2> QED BY <1>0, <2>1 DEF Outcome1, Outcome3, Outcome6
<1>9. CASE effects[act[r].id] = 1
  <2>1. \A k \in Approvals : Touched(k)' => Touched(k)
    BY <1>1, <1>7, <1>9, UntouchedUndone
  <2>2. Outcome2'
    <3>1. Clean => Clean'
      BY <1>0, <2>1 DEF Clean
    <3>2. \A b \in Actors : act'[b].pc = "asking" => act'[b] = act[b]
      BY <1>0, <1>4
    <3> QED BY <1>0, <1>5, <1>6, <2>1, <3>1, <3>2 DEF Outcomes, Outcome2
  <2>3. Outcome4' /\ Outcome5'
    BY <1>0, <1>5, <1>6, <2>1 DEF Outcomes, Outcome4, Outcome5
  <2> QED BY <1>8, <2>2, <2>3 DEF Outcomes
<1>10. CASE effects[act[r].id] = 0
  <2>1. /\ \A j \in Approvals : j # act[r].id /\ Touched(j) => effects[j] = 1
        /\ \A j \in Approvals : j > act[r].id => ~Touched(j)
        /\ \A a \in Actors : ~Driver(a)
        /\ \A q \in Resumers : Before(q) => act[q].id = act[r].id \/ effects[act[q].id] = 1
    BY <1>3, <1>10 DEF Outcomes, Outcome4
  <2>2. Outcome2'
    BY <1>5, <2>1 DEF Outcome2
  <2>3. \A q \in Resumers : Before(q) /\ effects[act[q].id] = 0 =>
            act[q].id = act[r].id /\ act[q].status = "APPROVED"
    <3>1. \A q \in Resumers : Before(q) => act[q].pc # "off"
      BY DEF Before, Ahead
    <3> QED BY <1>0, <2>1, <3>1 DEF Course, Answers
  <2>4. \A j \in Approvals : j > act[r].id => j # act[r].id
    BY <1>1 DEF Approvals
  <2>5. Outcome4'
    BY <1>0, <1>5, <1>6, <1>7, <2>1, <2>3, <2>4 DEF Outcome4
  <2>6. Outcome5'
    BY <1>0, <1>6 DEF Outcomes, Outcome5
  <2> QED BY <1>8, <2>2, <2>5, <2>6 DEF Outcomes
<1> QED BY <1>1, <1>9, <1>10, UntouchedUndone

(* Every other save leaves drivers and approvals as they are or fewer. *)
LEMMA SavesRecedes ==
    ASSUME Ground, Course, NEW a \in Actors, Saves(a), act'[a].pc # "executing"
    PROVE  Recedes
<1>0. /\ SameLease(disk', disk) /\ Held(a) /\ SameLease(act[a].t, disk) /\ Only(a)
      /\ UNCHANGED <<sent, effects>> /\ (a \in Resumers => a \notin Workers)
  BY SavesLease, ActorSets DEF Ground, Saves, environment
<1>1. /\ act'[a].pc \notin {"asking", "loaded", "sent"}
      /\ act'[a].pc \in Driving => act[a].pc \in Driving
      /\ act'[a].pc \in Driving => SameErrand(a)
  BY <1>0 DEF Saves, Edge, WorkerEdge, ResumerEdge, Driving, Off
<1>2. Live(a)
  BY <1>0 DEF Live
<1> QED BY <1>0, <1>1, <1>2, SameEffects, OnlyRecedes DEF Ahead

(* What the file says after a save by somebody who drives, asks or cancels. *)
LEMMA SavesOutcome ==
    ASSUME Ground, Course, Outcomes, NEW a \in Actors, Saves(a)
    PROVE  Outcomes'
<1>0. /\ Held(a) /\ SameLease(act[a].t, disk) /\ Only(a) /\ SameLease(disk', disk)
      /\ UNCHANGED <<appr, sent, effects>> /\ (a \in Resumers => a \notin Workers)
      /\ Resumers \subseteq Actors
  BY SavesLease, ActorSets DEF Ground, Saves, environment
<1>1. Asked' = Asked
  BY <1>0 DEF Asked
<1>2. CASE act'[a].pc = "executing"
  <2>1. a \in Resumers /\ Edge(a, "loaded", "executing", "EXECUTING", act[a].t.pend) /\ act[a].status = "APPROVED"
    BY <1>0, <1>2 DEF Saves, Edge, WorkerEdge, ResumerEdge
  <2> QED BY <2>1, BeginsOutcome
<1>3. ASSUME act'[a].pc # "executing" PROVE Outcomes'
  <2>1. Recedes
    BY <1>3, SavesRecedes
  <2>2. Outcome2' /\ Outcome4' /\ Outcome5'
    BY <2>1, RecedingDrivers
  <2>3. \A k \in Approvals : Touched(k)' => Touched(k)
    BY <2>1 DEF Recedes
  <2>4. Clean => Clean'
    BY <1>0, <2>3 DEF Clean
  <2>5. act[a].pc \in Driving => Driver(a)
    BY <1>0 DEF Driver, Live
  <2>6. CASE act[a].pc = "asking"
    <3>1. /\ disk'.state = act[a].t.state /\ disk'.pend = act[a].t.pend /\ act'[a].pc = "asked"
      BY <2>6 DEF Saves, Edge, WorkerEdge, ResumerEdge
    <3>2. /\ act[a].t.state = "WAITING" /\ act[a].t.pend \in Approvals
      BY <2>6 DEF Course, Copies
    <3>3. Driver(a)
      BY <2>5, <2>6 DEF Driving
    <3>4. /\ Clean
          /\ \A b \in Actors : Driver(b) => b = a
          /\ \A r \in Resumers : Before(r) => effects[act[r].id] = 1
          /\ \A j \in Approvals : j >= act[a].t.pend => ~Touched(j)
      BY <2>6, <3>3 DEF Outcomes, Outcome2
    <3>5. \A b \in Actors : ~Driver(b)'
      <4>1. ~Driver(a)'
        BY <3>1 DEF Driver, Driving
      <4> QED BY <2>1, <3>4, <4>1 DEF Recedes
    <3>6. \A r \in Resumers : Before(r)' => effects'[act'[r].id] = 1
      BY <1>0, <2>1, <3>4 DEF Recedes
    <3>7. Outcome3'
      BY <2>3, <2>4, <3>1, <3>4, <3>5, <3>6 DEF Outcome3, Clean
    <3>8. Outcome1' /\ Outcome6'
      BY <3>1, <3>2 DEF Outcome1, Outcome6, GoesOn
    <3> QED BY <2>2, <3>7, <3>8 DEF Outcomes
  <2>7. CASE act[a].pc \in Driving /\ act[a].pc # "asking"
    <3>1. disk'.state \in {"WORKING", "COMPLETED", "VERIFYING"}
      BY <2>7 DEF Saves, Edge, WorkerEdge, ResumerEdge, Driving
    <3>2. Clean
      BY <2>5, <2>7 DEF Outcomes, Outcome2
    <3>3. Outcome1'
      BY <2>4, <3>2 DEF Outcome1
    <3>4. Outcome3' /\ Outcome6'
      BY <3>1 DEF Outcome3, Outcome6
    <3> QED BY <2>2, <3>3, <3>4 DEF Outcomes
  <2>8. CASE act[a].pc = "failing"
    <3>1. disk'.state = "FAILED"
      BY <2>8 DEF Saves, Edge, WorkerEdge, ResumerEdge
    <3>2. Outcome1' /\ Outcome3' /\ Outcome6'
      BY <3>1 DEF Outcome1, Outcome3, Outcome6, GoesOn
    <3> QED BY <2>2, <3>2 DEF Outcomes
  <2>9. CASE act[a].pc = "loaded"
    <3>1. a \in Resumers /\ disk'.state = "CANCELLED" /\ act[a].status # "APPROVED"
      BY <1>0, <1>3, <2>9 DEF Saves, Edge, WorkerEdge, ResumerEdge
    <3>2. Before(a) /\ act[a].id \in Approvals
      BY <1>0, <2>9, <3>1 DEF Before, Live, Ahead, Ground, Places
    <3>3. effects[act[a].id] = 0
      BY <3>1, <3>2 DEF Outcomes, Outcome5
    <3>4. /\ \A j \in Approvals : j > act[a].id => ~Touched(j)
          /\ \A j \in Approvals : j = act[a].id => ~Touched(j)
      BY <3>1, <3>2, <3>3 DEF Outcomes, Outcome4
    <3>5. act[a].id <= Asked
      <4>1. appr[act[a].id] # "ABSENT"
        BY <2>9, <3>1 DEF Course, Answers, Compatible
      <4> QED BY <3>2, <4>1 DEF Course, InTurn
    <3>6. \A j \in Approvals : j = Asked => j > act[a].id \/ j = act[a].id
      BY <3>2, <3>5 DEF Approvals
    <3>7. Outcome6'
      BY <1>1, <2>3, <3>4, <3>6 DEF Outcome6
    <3>8. Outcome1' /\ Outcome3'
      BY <3>1 DEF Outcome1, Outcome3, GoesOn
    <3> QED BY <2>2, <3>7, <3>8 DEF Outcomes
  <2>10. act[a].pc \in Driving \/ act[a].pc \in {"failing", "loaded"}
    BY DEF Saves, Edge, WorkerEdge, ResumerEdge, Driving
  <2> QED BY <2>6, <2>7, <2>8, <2>9, <2>10
<1> QED BY <1>2, <1>3

(* A resumer loads the task: it is the task's only approval that is open. *)
LEMMA LoadsOutcome ==
    ASSUME Ground, Course, Outcomes, NEW r \in Resumers, Loads(r)
    PROVE  Outcomes'
<1>0. /\ r \in Actors /\ UNCHANGED <<disk, appr, sent, effects>> /\ Only(r)
      /\ act[r].pc = "resolved" /\ disk.pend = act[r].id /\ disk.state = "WAITING"
      /\ act'[r].pc = "loaded" /\ act'[r].id = act[r].id /\ act'[r].status = act[r].status
      /\ Resumers \subseteq Actors /\ act[r].id \in Approvals
  BY ActorSets DEF Loads, environment, SameErrand, Ground, Places
<1>1. \A b \in Actors : b # r => act'[b] = act[b]
  BY <1>0 DEF Only
<1>2. /\ \A j \in Approvals : j < disk.pend /\ Touched(j) => effects[j] = 1
      /\ \A j \in Approvals : j >= disk.pend => ~Touched(j)
      /\ \A a \in Actors : ~Driver(a)
      /\ \A q \in Resumers : Before(q) => act[q].id = disk.pend \/ effects[act[q].id] = 1
  BY <1>0 DEF Outcomes, Outcome3
<1>3. \A k \in Approvals : Touched(k)' => Touched(k)
  BY <1>0, <1>1 DEF Touched
<1>4. \A b \in Actors : b # r => (Live(b)' <=> Live(b))
  BY <1>0, <1>1 DEF Live, Held, SameLease
<1>5. \A a \in Actors : ~Driver(a)'
  <2>1. ~Driver(r)'
    BY <1>0 DEF Driver, Driving
  <2> QED BY <1>1, <1>2, <1>4, <2>1 DEF Driver
<1>6. \A q \in Resumers : /\ q # r /\ Before(q)' => Before(q)
                          /\ act'[q].id = act[q].id /\ act'[q].status = act[q].status
  BY <1>0, <1>1, <1>4 DEF Before
<1>7. \A q \in Resumers : Before(q)' => act'[q].id = disk.pend \/ effects[act'[q].id] = 1
  BY <1>0, <1>2, <1>6
<1>8. \A j \in Approvals : /\ j > disk.pend => j >= disk.pend
                           /\ j # disk.pend /\ Touched(j) => effects[j] = 1
                           /\ j = disk.pend => ~Touched(j)
  BY <1>0, <1>2 DEF Approvals
<1>9. Outcome1' /\ Outcome2' /\ Outcome6'
  BY <1>0, <1>5 DEF Outcome1, Outcome2, Outcome6, GoesOn
<1>10. Outcome3'
  BY <1>0, <1>2, <1>3, <1>5, <1>7 DEF Outcome3
<1>11. Outcome4'
  <2>1. \A q \in Resumers : Before(q)' /\ effects'[act'[q].id] = 0 => act'[q].id = disk.pend
    BY <1>0, <1>7
  <2> QED BY <1>0, <1>2, <1>3, <1>5, <1>7, <1>8, <2>1 DEF Outcome4
<1>12. Outcome5'
  <2>1. effects[act[r].id] = 0
    BY <1>0, <1>8, UntouchedUndone
  <2> QED BY <1>0, <1>6, <2>1 DEF Outcomes, Outcome5
<1> QED BY <1>9, <1>10, <1>11, <1>12 DEF Outcomes

LEMMA SendsOutcome ==
    ASSUME Ground, Course, Outcomes, NEW r \in Resumers, Sends(r) \/ GivesUp(r)
    PROVE  Outcomes'
<1>0. r \in Actors /\ UNCHANGED <<disk, appr, effects>> /\ Only(r) /\ SameLease(disk', disk)
  BY ActorSets DEF Sends, GivesUp, SameLease
<1>1. Asked' = Asked
  BY <1>0 DEF Asked
<1>2. CASE Sends(r)
  <2>1. /\ act[r].pc = "executing" /\ act'[r].pc = "sent" /\ act'[r].t = act[r].t /\ SameErrand(r)
        /\ act[r].id \in Approvals /\ sent \in [Approvals -> Nat] /\ effects' = effects
        /\ sent' = [sent EXCEPT ![act[r].id] = @ + 1]
    BY <1>2 DEF Sends, Ground, Places, FlowTypeOK
  <2>2. \A k \in Approvals : sent'[k] > 0 => Touched(k)
    <3>1. \A k \in Approvals : k # act[r].id => sent'[k] = sent[k]
      BY <2>1
    <3> QED BY <2>1, <3>1 DEF Touched
  <2>3. \A k \in Approvals : effects'[k] \in {0, 1} /\ (effects[k] = 1 => effects'[k] = 1)
    BY <2>1, UntouchedUndone
  <2>4. act'[r].pc \in Ahead /\ act[r].pc \in Ahead /\ act'[r].pc \notin Driving /\ Held(r)
    BY <2>1 DEF Ahead, Driving, Held, Bare
  <2>5. SameLease(act'[r].t, disk) => Live(r)
    BY <2>1, <2>4 DEF Live
  <2>6. Recedes
    BY <1>0, <2>1, <2>2, <2>3, <2>4, <2>5, OnlyRecedes
  <2> QED BY <1>0, <1>1, <2>6, RecedingFile
<1>3. CASE GivesUp(r)
  <2>1. act'[r].pc \notin Driving \cup Ahead /\ UNCHANGED <<sent, effects>>
    BY <1>3, NewTaskType DEF GivesUp, Driving, Ahead
  <2>2. Recedes
    BY <1>0, <2>1, LeaverRecedes
  <2> QED BY <1>0, <1>1, <2>2, RecedingFile
<1> QED BY <1>2, <1>3

(* A decision, or the next pair of the start-up list. *)
LEMMA SetsOutOutcome ==
    ASSUME Ground, Course, Outcomes, NEW r \in Resumers, Only(r), act'[r].pc = "resolved",
           UNCHANGED <<disk, sent, effects>>, Asked' = Asked
    PROVE  Outcomes'
<1>1. r \in Actors /\ SameLease(disk', disk)
  BY ActorSets DEF SameLease
<1>2. act'[r].pc \notin Driving \cup Ahead
  BY DEF Driving, Ahead
<1>3. Recedes
  BY <1>1, <1>2, LeaverRecedes
<1> QED BY <1>3, RecedingFile

(* The executor answers: with an effect, whoever waits for it may go on. *)
LEMMA EffectsOutcome ==
    ASSUME Ground, Course, Outcomes, NEW p \in inbox, Effects(p[1], p[2])
    PROVE  Outcomes'
<1> DEFINE k == p[1]
           r == p[2]
<1>0. /\ FlowTypeOK /\ UNCHANGED <<disk, late, sent>> /\ k \in Approvals /\ sent[k] > 0
      /\ SameLease(disk', disk)
      /\ r # "gone" => r \in Resumers /\ r \in Actors
  BY ActorSets DEF Ground, Course, Effects, FlowTypeOK, Envelopes, SameLease
<1>1. Asked' = Asked
  BY <1>0, EffectsOnward, AskedKept DEF Course
<1>2. \/ r = "gone" /\ act' = act
      \/ /\ r # "gone" /\ Only(r) /\ act'[r].pc \in {"failing", "replied"}
         /\ act'[r].t = act[r].t /\ SameErrand(r) /\ act[r].pc = "sent" /\ act[r].id = k /\ Held(r)
  BY DEF Effects, Ground, Waits, Held, Bare
<1>3. /\ \A j \in Approvals : /\ effects'[j] \in {0, 1} /\ (effects[j] = 1 => effects'[j] = 1)
                              /\ sent'[j] > 0 => Touched(j)
      /\ effects' = effects \/ (appr[k] = "APPROVED" /\ effects[k] = 0 /\ effects'[k] = 1
                                  /\ \A j \in Approvals : j # k => effects'[j] = effects[j])
  <2>1. CASE effects' = effects
    BY <1>0, <2>1, SameEffects
  <2>2. CASE /\ appr[k] = "APPROVED" /\ k \notin late
             /\ effects' = [effects EXCEPT ![k] = @ + 1]
    <3>1. effects[k] = 0
      BY <1>0, <2>2 DEF Course, Envelopes
    <3>2. effects'[k] = 1 /\ \A j \in Approvals : j # k => effects'[j] = effects[j]
      BY <1>0, <2>2, <3>1 DEF FlowTypeOK
    <3> QED BY <1>0, <2>2, <3>1, <3>2, UntouchedUndone DEF Touched
  <2> QED BY <2>1, <2>2 DEF Effects
<1>4. \A q \in Resumers : Before(q) /\ act[q].status # "APPROVED" =>
          effects'[act[q].id] = effects[act[q].id]
  <2> SUFFICES ASSUME NEW q \in Resumers, Before(q), act[q].status # "APPROVED"
               PROVE  effects'[act[q].id] = effects[act[q].id]
    OBVIOUS
  <2>1. act[q].id \in Approvals /\ Compatible(act[q].status, appr[act[q].id])
    BY DEF Before, Ahead, Ground, Places, Course, Answers
  <2>2. appr[act[q].id] # "APPROVED"
    BY <2>1 DEF Compatible
  <2> QED BY <1>3, <2>1, <2>2
<1>5. CASE r = "gone"
  <2>1. "boot" \in Actors /\ Only("boot") /\ SameErrand("boot") /\ act' = act
    BY <1>0, <1>2, <1>5, ActorSets DEF Only, FlowTypeOK, SameErrand
  <2>2. act'["boot"].pc \in Driving \cup Ahead /\ SameLease(act'["boot"].t, disk) => Live("boot")
    BY <2>1 DEF Live, Held, Bare, Driving, Ahead
  <2>3. Recedes
    BY <1>0, <1>3, <1>4, <2>1, <2>2, OnlyRecedes
  <2> QED BY <1>0, <1>1, <2>3, RecedingFile
<1>6. CASE r # "gone" /\ (act'[r].pc = "failing" \/ ~Live(r))
  <2>1. act'[r].pc \notin Ahead /\ act'[r].pc # "executing"
        /\ ~(act'[r].pc \in Driving /\ SameLease(act'[r].t, disk))
    BY <1>2, <1>6 DEF Driving, Ahead, Live
  <2>2. Recedes
    BY <1>0, <1>2, <1>3, <1>4, <1>6, <2>1, OnlyRecedes
  <2> QED BY <1>0, <1>1, <2>2, RecedingFile
<1>7. CASE r # "gone" /\ act'[r].pc = "replied" /\ Live(r)
  <2>0. /\ r \in Resumers /\ r \in Actors /\ Only(r) /\ act'[r].t = act[r].t /\ SameErrand(r)
        /\ act[r].pc = "sent" /\ act[r].id = k /\ act'[r].id = k /\ Resumers \subseteq Actors
    BY <1>0, <1>2, <1>7, ActorSets DEF SameErrand
  <2>1. Before(r)
    BY <1>7, <2>0 DEF Before, Ahead
  <2>2. effects[k] = 0 /\ effects'[k] = 1 /\ \A j \in Approvals : j # k => effects'[j] = effects[j]
    <3>1. effects' # effects
      <4>1. act'[r].pc # "failing"
        BY <1>7
      <4>2. appr[k] = "APPROVED" /\ k \notin late /\ effects' = [effects EXCEPT ![k] = @ + 1]
        BY <1>7, <4>1 DEF Effects
      <4>3. effects \in [Approvals -> Nat]
        BY <1>0 DEF FlowTypeOK
      <4>4. effects'[k] = effects[k] + 1
        BY <1>0, <4>2, <4>3
      <4> QED BY <1>0, <4>3, <4>4
    <3> QED BY <1>3, <3>1
  <2>3. /\ \A j \in Approvals : j # k /\ Touched(j) => effects[j] = 1
        /\ \A a \in Actors : ~Driver(a)
        /\ \A q \in Resumers : Before(q) => act[q].id = k \/ effects[act[q].id] = 1
    BY <2>0, <2>1, <2>2 DEF Outcomes, Outcome4
  <2>4. \A b \in Actors : b # r => act'[b] = act[b] /\ (Live(b)' <=> Live(b))
    BY <1>0, <2>0 DEF Only, Live, Held, SameLease
  <2>5. \A j \in Approvals : Touched(j)' => Touched(j)
    <3>1. \A q \in Resumers : act'[q].pc = "executing" => q # r /\ act'[q] = act[q]
      BY <1>7, <2>0, <2>4
    <3> QED BY <1>0, <3>1 DEF Touched
  <2>6. Clean'
    BY <2>2, <2>3, <2>5 DEF Clean
  <2>7. \A b \in Actors : Driver(b)' => b = r
    BY <2>3, <2>4 DEF Driver
  <2>8. \A q \in Resumers : Before(q)' => effects'[act'[q].id] = 1 /\ q # r /\ act'[q] = act[q] /\ Before(q)
    <3>1. ~Before(r)'
      BY <1>7 DEF Before, Ahead
    <3>2. \A q \in Resumers : Before(q)' => q # r /\ act'[q] = act[q] /\ Before(q)
      BY <2>0, <2>4, <3>1 DEF Before
    <3>3. \A q \in Resumers : Before(q) => act[q].id \in Approvals
      BY DEF Before, Ahead, Ground, Places
    <3> QED BY <1>3, <2>2, <2>3, <3>2, <3>3
  <2>9. disk.state # "WAITING"
    <3>1. Touched(k)
      BY <1>0 DEF Touched
    <3>2. k >= k
      BY <1>0 DEF Approvals
    <3> QED BY <1>0, <2>0, <2>1, <2>2, <3>1, <3>2 DEF Outcomes, Outcome3
  <2>10. Outcome1' /\ Outcome3'
    BY <1>0, <2>6, <2>9 DEF Outcome1, Outcome3
  <2>11. Outcome2'
    BY <1>7, <2>6, <2>7, <2>8 DEF Outcome2
  <2>12. Outcome4'
    BY <2>8 DEF Outcome4
  <2>13. Outcome5'
    BY <1>4, <2>8 DEF Outcomes, Outcome5
  <2>14. Outcome6'
    BY <1>0, <1>1, <2>5 DEF Outcomes, Outcome6
  <2> QED BY <2>10, <2>11, <2>12, <2>13, <2>14 DEF Outcomes
<1> QED BY <1>2, <1>5, <1>6, <1>7

(* Answers of the operator and the start-up list, and steps of nobody. *)
LEMMA AnswerOutcome ==
    ASSUME Ground, Course, Outcomes, AnswerMove
    PROVE  Outcomes'
<1>0. FlowTypeOK /\ Answers /\ InTurn /\ Handlers \subseteq Resumers /\ "boot" \in Resumers
  BY ActorSets DEF Ground, Course
<1>1. ASSUME NEW h \in Handlers, NEW k \in Approvals, NEW d \in {"APPROVED", "REJECTED"}, Decides(h, k, d)
      PROVE  Outcomes'
  <2>1. /\ UNCHANGED <<disk, late, sent, effects>> /\ Only(h) /\ act'[h].pc = "resolved"
        /\ appr[k] \in {"PENDING", d} /\ appr' = [appr EXCEPT ![k] = d]
    BY <1>1 DEF Decides, environment
  <2>2. Onward /\ NoneAsked
    BY <1>0, <2>1, DecidesOnward
  <2>3. Asked' = Asked
    BY <1>0, <2>2, AskedKept
  <2> QED BY <1>0, <2>1, <2>3, SetsOutOutcome
<1>2. ASSUME NEW k \in Approvals, Closes(k) PROVE Outcomes'
  <2>1. UNCHANGED <<disk, act, sent, effects>>
    BY <1>2 DEF Closes, environment
  <2>2. Asked' = Asked
    BY <1>0, <1>2, ClosesOnward, AskedKept
  <2>3. Recedes
    BY <2>1, StillRecedes
  <2> QED BY <2>1, <2>2, <2>3, RecedingFile
<1>3. ASSUME NEW p \in todo, Boots(p) PROVE Outcomes'
  <2>1. UNCHANGED <<disk, appr, sent, effects>> /\ Only("boot") /\ act'["boot"].pc = "resolved"
    BY <1>3 DEF Boots
  <2>2. Asked' = Asked
    BY <2>1 DEF Asked
  <2> QED BY <1>0, <2>1, <2>2, SetsOutOutcome
<1> QED BY <1>1, <1>2, <1>3, EffectsOutcome DEF AnswerMove

LEMMA OtherOutcome ==
    ASSUME Ground, Course, Outcomes, OtherStep
    PROVE  Outcomes'
<1>0. FlowTypeOK /\ Answers /\ InTurn /\ Resumers \subseteq Actors
  BY ActorSets DEF Ground, Course
<1>1. CASE LeaseExpires \/ (\E k \in Approvals : ApprovalExpires(k))
  <2>1. UNCHANGED <<disk, appr, act, sent, effects>>
    BY <1>1 DEF LeaseExpires, ApprovalExpires
  <2>2. Recedes
    BY <2>1, StillRecedes
  <2>3. Asked' = Asked
    BY <2>1 DEF Asked
  <2> QED BY <2>1, <2>2, <2>3, RecedingFile
<1>2. CASE Restart
  <2>1. UNCHANGED <<disk, sent, effects>>
    BY <1>2 DEF Restart
  <2>2. \A a \in Actors : act'[a].pc \in Bare /\ act'[a].pc # "executing"
    <3>1. [Off EXCEPT !.pc = "listing"].pc = "listing"
      BY NewTaskType DEF Actor
    <3>2. act' = [a \in Actors |-> IF a = "recovery" THEN [Off EXCEPT !.pc = "listing"] ELSE Off]
      BY <1>2 DEF Restart
    <3> QED BY <3>1, <3>2, NewTaskType DEF Bare
  <2>3. \A a \in Actors : ~Live(a)'
    BY <2>2 DEF Live, Held
  <2>4. \A k \in Approvals : Touched(k)' => Touched(k)
    BY <1>0, <2>1, <2>2 DEF Touched
  <2>5. Recedes
    BY <1>0, <2>1, <2>3, <2>4, UntouchedUndone DEF Recedes, Driver, Before
  <2>6. Asked' = Asked
    BY <1>0, <1>2, RestartOnward, AskedKept
  <2> QED BY <2>1, <2>5, <2>6, RecedingFile
<1> QED BY <1>1, <1>2 DEF OtherStep

(* Once a run has raced nothing is said any more; until then every step keeps Outcomes. *)
LEMMA OutcomeStep ==
    ASSUME Ground, Course, OutcomeInv, [Next]_vars
    PROVE  OutcomeInv'
<1> SUFFICES ASSUME ~raced' PROVE Outcomes'
  BY DEF OutcomeInv
<1>0. FlowTypeOK /\ Places
  BY DEF Ground
<1>1. ASSUME NEW a \in Actors, ActorStep(a) PROVE Outcomes'
  <2>1. Outcomes
    BY <1>1 DEF OutcomeInv, ActorStep, Yields, Saves, Asks
  <2> QED BY <1>1, <2>1, YieldsOutcome, SavesOutcome, AsksOutcome DEF ActorStep
<1>2. ASSUME NEW w \in Workers, WorkerMove(w) PROVE Outcomes'
  <2>1. Outcomes
    BY <1>2 DEF OutcomeInv, WorkerMove, Claims, Releases
  <2> QED BY <1>2, <2>1, ClaimsOutcome, ReleasesOutcome DEF WorkerMove
<1>3. ASSUME NEW r \in Resumers, ResumerMove(r) PROVE Outcomes'
  <2>1. Outcomes
    BY <1>3 DEF OutcomeInv, ResumerMove, Loads, Sends, GivesUp
  <2> QED BY <1>3, <2>1, LoadsOutcome, SendsOutcome DEF ResumerMove
<1>4. CASE AnswerMove
  <2>1. Outcomes
    BY <1>4 DEF OutcomeInv, AnswerMove, Decides, Closes, Boots, Effects
  <2> QED BY <1>4, <2>1, AnswerOutcome
<1>5. CASE OtherStep
  <2>1. Outcomes
    BY <1>5 DEF OutcomeInv, OtherStep, LeaseExpires, ApprovalExpires, Restart
  <2> QED BY <1>5, <2>1, OtherOutcome
<1>6. CASE UNCHANGED vars
  <2>1. UNCHANGED <<disk, appr, act, sent, effects, raced>>
    BY <1>6 DEF vars
  <2>2. Outcomes /\ Recedes
    BY <2>1, StillRecedes DEF OutcomeInv
  <2>3. Asked' = Asked
    BY <2>1 DEF Asked
  <2> QED BY <2>1, <2>2, <2>3, RecedingFile
<1> QED BY <1>0, <1>1, <1>2, <1>3, <1>4, <1>5, <1>6, Shapes

LEMMA OutcomeInit ==
    ASSUME Init
    PROVE  OutcomeInv
<1>0. /\ \A k \in Approvals : sent[k] = 0
      /\ disk.state = "NEW" /\ Resumers \subseteq Actors
  BY ActorSets DEF Init, NewTask
<1>1. \A a \in Actors : act[a].pc \in Bare
  <2>1. \A a \in Actors : act[a] = [Off EXCEPT !.pc = CASE a = "creator" -> "start"
                                                         [] a = "recovery" /\ RecoveryDue -> "listing"
                                                         [] OTHER -> "off"]
    BY DEF Init
  <2>2. \A a \in Actors : act[a].pc = CASE a = "creator" -> "start"
                                        [] a = "recovery" /\ RecoveryDue -> "listing"
                                        [] OTHER -> "off"
    BY <2>1, NewTaskType DEF Actor
  <2> QED BY <2>2 DEF Bare
<1>2. \A a \in Actors : ~Driver(a)
  BY <1>1 DEF Driver, Live, Held
<1>3. \A r \in Resumers : ~Before(r)
  BY <1>0, <1>1 DEF Before, Live, Held
<1>4. \A k \in Approvals : ~Touched(k)
  BY <1>0, <1>1 DEF Touched, Bare
<1>5. Outcome1 /\ Outcome2 /\ Outcome4 /\ Outcome5
  BY <1>2, <1>3, <1>4 DEF Outcome1, Outcome2, Outcome4, Outcome5, Clean
<1>6. Outcome3 /\ Outcome6
  BY <1>0 DEF Outcome3, Outcome6
<1> QED BY <1>5, <1>6 DEF OutcomeInv, Outcomes

LEMMA OutcomeTold ==
    ASSUME FlowTypeOK, Course, OutcomeInv
    PROVE  OutcomeMatches
<1> SUFFICES ASSUME Outcomes PROVE CompletedMeansExecuted /\ CancelledMeansUntouched
  BY DEF OutcomeMatches, OutcomeInv
<1>1. CompletedMeansExecuted
  BY DEF CompletedMeansExecuted, Outcomes, Outcome1, GoesOn, Clean, Touched
<1>2. ASSUME disk.state = "CANCELLED"
      PROVE  /\ \A k \in Approvals : k = Asked => effects[k] = 0
             /\ \A p \in inbox : p[1] # Asked
  <2>1. \A k \in Approvals : k = Asked => ~Touched(k)
    BY <1>2 DEF Outcomes, Outcome6
  <2>2. \A p \in inbox : p[1] \in Approvals /\ Touched(p[1])
    BY DEF FlowTypeOK, Course, Envelopes, Touched
  <2> QED BY <2>1, <2>2, UntouchedUndone
<1> QED BY <1>1, <1>2 DEF CancelledMeansUntouched

(***************************************************************************)
(* OutcomeMatchesAlways: a task that reads COMPLETED left no envelope      *)
(* without its effect, and a CANCELLED one neither did what it last asked  *)
(* for nor has it under way, whatever answers, faults and restarts happen, *)
(* unless a Run has claimed a task that was parked after Run had looked.   *)
(***************************************************************************)
THEOREM OutcomeMatchesAlways == Spec => []OutcomeMatches
<1>1. Init => Ground /\ Course /\ OutcomeInv
  BY GroundInit, CourseInit, OutcomeInit
<1>2. Ground /\ Course /\ OutcomeInv /\ [Next]_vars => (Ground /\ Course /\ OutcomeInv)'
  BY GroundStep, CourseStep, OutcomeStep
<1>3. Ground /\ Course /\ OutcomeInv => OutcomeMatches
  BY OutcomeTold DEF Ground
<1> QED BY <1>1, <1>2, <1>3, PTL DEF Spec
=============================================================================
