--------------------------- MODULE ExecutorProofs ---------------------------
(***************************************************************************)
(* Proofs about ApprovalStore and Executor, for any number of goroutines,  *)
(* deliveries, approvals and bindings: StoreInv is inductive, from which   *)
(* single consumption, the discipline of the transitions and the           *)
(* refinement of ApprovalLedger follow; together with it ExecInv is        *)
(* inductive, and no envelope has two effects.                             *)
(***************************************************************************)
EXTENDS Executor, TLAPS

(* ApprovalStore. *)

(* What the idle call looks like. *)
LEMMA NoCallFacts ==
    /\ NoCall \in Call
    /\ NoCall.stage = "idle" /\ NoCall.op = "none" /\ NoCall.todo = {}
    /\ NoRecord \in Record /\ NoRecord.status = "ABSENT"
BY StoreAssumption
   DEF NoCall, NoRecord, Call, Record, AnyID, AnyBinding, Ops, Stages, Statuses

(* A step that only replaces the call of one goroutine leaves the others alone. *)
LEMMA OneCallChanges ==
    ASSUME StoreTypeOK, NEW r \in Requests, NEW c \in Call,
           call' = [call EXCEPT ![r] = c],
           UNCHANGED <<clock, file, yes, spent, grants>>
    PROVE  /\ StoreTypeOK'
           /\ call'[r] = c
           /\ \A q \in Requests : q # r => call'[q] = call[q]
BY DEF StoreTypeOK

(* FileHistory speaks of no call at all. *)
LEMMA HistoryFrame ==
    ASSUME FileHistory, UNCHANGED <<file, yes, spent, grants>>
    PROVE  FileHistory'
BY DEF FileHistory

(* Returning from a call, whatever its outcome, preserves the invariant. *)
LEMMA ReturnInv ==
    ASSUME StoreInv, NEW r \in Requests, NEW ok \in BOOLEAN, Return(r, ok),
           UNCHANGED <<clock, file, yes, spent, grants>>
    PROVE  StoreInv'
<1> DEFINE c == [NoCall EXCEPT !.ok = ok]
<1>1. c \in Call /\ c.stage = "idle" /\ c.op = "none" /\ c.todo = {}
  BY NoCallFacts DEF Call
<1>2. call' = [call EXCEPT ![r] = c]
  BY DEF Return
<1> HIDE DEF c
<1>3. /\ StoreTypeOK'
      /\ call'[r] = c
      /\ \A q \in Requests : q # r => call'[q] = call[q]
  BY <1>1, <1>2, OneCallChanges DEF StoreInv
<1> USE <1>1, <1>3 DEF StoreInv
<1>4. OneHolder'
  BY DEF OneHolder, Holding
<1>5. StageShape'
  BY DEF StageShape
<1>6. ServerView'
  BY DEF ServerView, Requests
<1>7. ExecView'
  BY DEF ExecView, Requests
<1>8. LoadedView'
  BY DEF LoadedView
<1>9. CreateView'
  BY DEF CreateView, Creating
<1>10. ListView'
  BY DEF ListView
<1>11. FileHistory'
  BY HistoryFrame
<1> QED BY <1>4, <1>5, <1>6, <1>7, <1>8, <1>9, <1>10, <1>11

(* Create draws an id nobody uses. *)
LEMMA CreateInv ==
    ASSUME StoreInv, NEW r \in ServerReqs, NEW i \in ApprovalIDs,
           NEW b \in Bindings, NEW ttl \in TTLs, Create(r, i, b, ttl)
    PROVE  StoreInv'
<1> DEFINE rec == [status |-> "PENDING", binding |-> b, expires |-> clock + ttl]
           c == [NoCall EXCEPT !.op = "create", !.stage = "built",
                               !.id = i, !.rec = rec]
<1>1. rec \in Record
  BY StoreAssumption DEF StoreInv, StoreTypeOK, Record, Statuses
<1>2. /\ c \in Call /\ c.stage = "built" /\ c.op = "create" /\ c.id = i
      /\ c.rec.status = "PENDING" /\ c.todo = {}
  BY <1>1, NoCallFacts DEF Call, Ops, ServerOps, Stages
<1>3. /\ call' = [call EXCEPT ![r] = c]
      /\ call[r].stage = "idle"
      /\ FreshID(i)
      /\ UNCHANGED <<clock, file, yes, spent, grants>>
  BY DEF Create
<1> HIDE DEF c, rec
<1>4. /\ StoreTypeOK'
      /\ call'[r] = c
      /\ \A q \in Requests : q # r => call'[q] = call[q]
      /\ r \in Requests
  BY <1>2, <1>3, OneCallChanges DEF StoreInv, Requests
<1> USE <1>2, <1>3, <1>4 DEF StoreInv
<1>5. OneHolder'
  BY DEF OneHolder, Holding
<1>6. StageShape'
  BY DEF StageShape
<1>7. ServerView'
  BY DEF ServerView, Requests
<1>8. ExecView'
  BY StoreAssumption DEF ExecView, Requests
<1>9. LoadedView'
  BY DEF LoadedView
<1>10. CreateView'
  BY DEF CreateView, Creating, FreshID
<1>11. ListView'
  BY DEF ListView
<1>12. FileHistory'
  BY HistoryFrame
<1> QED BY <1>5, <1>6, <1>7, <1>8, <1>9, <1>10, <1>11, <1>12

(* Create enters the critical section of its process. *)
LEMMA CreateLockInv ==
    ASSUME StoreInv, NEW r \in Requests, CreateLock(r)
    PROVE  StoreInv'
<1> DEFINE c == [call[r] EXCEPT !.stage = "saving", !.ok = TRUE]
<1>1. /\ c \in Call /\ c.stage = "saving" /\ c.op = call[r].op
      /\ c.id = call[r].id /\ c.rec = call[r].rec /\ c.todo = call[r].todo
  BY DEF StoreInv, StoreTypeOK, Call, Stages
<1>2. /\ call' = [call EXCEPT ![r] = c]
      /\ call[r].stage = "built"
      /\ MutexFree(r)
      /\ UNCHANGED <<clock, file, yes, spent, grants>>
  BY DEF StoreInv, StoreTypeOK, CreateLock
<1>3. call[r].op = "create" /\ call[r].rec.status = "PENDING" /\ r \in ServerReqs
  BY <1>2 DEF StoreInv, StageShape
<1> HIDE DEF c
<1>4. /\ StoreTypeOK'
      /\ call'[r] = c
      /\ \A q \in Requests : q # r => call'[q] = call[q]
  BY <1>1, <1>2, OneCallChanges DEF StoreInv
<1> USE <1>1, <1>2, <1>3, <1>4 DEF StoreInv
<1>5. OneHolder'
  BY DEF OneHolder, Holding, MutexFree, SameProcess
<1>6. StageShape'
  BY DEF StageShape
<1>7. ServerView'
  BY DEF ServerView, Requests
<1>8. ExecView'
  BY StoreAssumption DEF ExecView, Requests
<1>9. LoadedView'
  BY DEF LoadedView
<1>10. CreateView'
  BY DEF CreateView, Creating
<1>11. ListView'
  BY DEF ListView
<1>12. FileHistory'
  BY HistoryFrame
<1> QED BY <1>5, <1>6, <1>7, <1>8, <1>9, <1>10, <1>11, <1>12

(***************************************************************************)
(* A record read just now under the mutex, by a call other than Create.    *)
(* Load and ListEntry both come to this.                                   *)
(***************************************************************************)
LEMMA ReadInv ==
    ASSUME StoreInv, NEW r \in Requests, NEW c \in Call,
           call' = [call EXCEPT ![r] = c],
           UNCHANGED <<clock, file, yes, spent, grants>>,
           c.stage = "loaded",
           c.rec = file[c.id], file[c.id].status # "ABSENT",
           c.op \in (IF r \in ServerReqs THEN ServerOps \ {"create"} ELSE ExecOps),
           c.op = "list" => \A i \in c.todo : file[i].status # "ABSENT",
           \A q \in Requests \ {r} : SameProcess(r, q) => call[q].stage \notin Holding
    PROVE  StoreInv'
<1>1. /\ StoreTypeOK'
      /\ call'[r] = c
      /\ \A q \in Requests : q # r => call'[q] = call[q]
  BY OneCallChanges DEF StoreInv
<1>2. c.id \in ApprovalIDs
  BY DEF Call
<1> USE <1>1, <1>2 DEF StoreInv
<1>3. OneHolder'
  BY DEF OneHolder, Holding, SameProcess
<1>4. StageShape'
  BY DEF StageShape
<1>5. ServerView'
  BY DEF ServerView, Requests
<1>6. ExecView'
  BY DEF ExecView, FileHistory, Requests
<1>7. LoadedView'
  BY DEF LoadedView
<1>8. CreateView'
  BY DEF CreateView, Creating
<1>9. ListView'
  BY DEF ListView
<1>10. FileHistory'
  BY HistoryFrame
<1> QED BY <1>3, <1>4, <1>5, <1>6, <1>7, <1>8, <1>9, <1>10

LEMMA LoadInv ==
    ASSUME StoreInv, NEW r \in Requests, NEW op \in Ops, NEW i \in ApprovalIDs,
           NEW b \in Bindings, Load(r, op, i, b)
    PROVE  StoreInv'
<1>1. CASE file[i].status = "ABSENT"
  BY <1>1, ReturnInv DEF Load
<1>2. CASE file[i].status # "ABSENT"
  <2> DEFINE c == [NoCall EXCEPT !.op = op, !.stage = "loaded", !.id = i,
                                 !.want = b, !.rec = file[i]]
  <2>1. /\ c \in Call /\ c.stage = "loaded" /\ c.op = op /\ c.id = i
        /\ c.rec = file[i] /\ c.todo = {}
    BY NoCallFacts DEF StoreInv, StoreTypeOK, Call, Stages
  <2>2. /\ call' = [call EXCEPT ![r] = c]
        /\ UNCHANGED <<clock, file, yes, spent, grants>>
        /\ MutexFree(r)
        /\ op \in (IF r \in ServerReqs THEN {"get", "approve", "reject"} ELSE ExecOps)
    BY <1>2 DEF Load
  <2> HIDE DEF c
  <2>3. op \in (IF r \in ServerReqs THEN ServerOps \ {"create"} ELSE ExecOps)
    BY <2>2 DEF ServerOps
  <2> QED BY <1>2, <2>1, <2>2, <2>3, ReadInv DEF MutexFree
<1> QED BY <1>1, <1>2

LEMMA ListEntryInv ==
    ASSUME StoreInv, NEW r \in Requests, ListEntry(r)
    PROVE  StoreInv'
<1>1. PICK i \in call[r].todo :
         call' = [call EXCEPT ![r].stage = "loaded", ![r].id = i,
                    ![r].rec = file[i], ![r].todo = @ \ {i}]
  BY DEF ListEntry
<1> DEFINE c == [call[r] EXCEPT !.stage = "loaded", !.id = i,
                                !.rec = file[i], !.todo = @ \ {i}]
<1>2. /\ call[r].stage = "listing"
      /\ UNCHANGED <<clock, file, yes, spent, grants>>
      /\ call[r] \in Call
  BY DEF ListEntry, StoreInv, StoreTypeOK
<1>3. r \in ServerReqs /\ call[r].op = "list"
  BY <1>2 DEF StoreInv, StageShape
<1>4. i \in ApprovalIDs /\ file[i].status # "ABSENT"
  BY <1>2, <1>3 DEF StoreInv, ListView, Call
<1>5. /\ c \in Call /\ c.stage = "loaded" /\ c.op = "list" /\ c.id = i
      /\ c.rec = file[i] /\ c.todo = call[r].todo \ {i}
  BY <1>2, <1>3, <1>4 DEF StoreInv, StoreTypeOK, Call, Stages
<1>6. call' = [call EXCEPT ![r] = c]
  BY <1>1 DEF StoreInv, StoreTypeOK
<1> HIDE DEF c
<1>7. \A q \in Requests \ {r} : SameProcess(r, q) => call[q].stage \notin Holding
  BY <1>2 DEF StoreInv, OneHolder, Holding
<1>8. \A j \in c.todo : file[j].status # "ABSENT"
  BY <1>3, <1>5 DEF StoreInv, ListView
<1>9. c.op \in (IF r \in ServerReqs THEN ServerOps \ {"create"} ELSE ExecOps)
  BY <1>3, <1>5 DEF ServerOps
<1> QED BY <1>2, <1>4, <1>5, <1>6, <1>7, <1>8, <1>9, ReadInv

(* List between two entries: the goroutine keeps the mutex and its list. *)
LEMMA ListingInv ==
    ASSUME StoreInv, NEW r \in ServerReqs, NEW c \in Call,
           call' = [call EXCEPT ![r] = c],
           UNCHANGED <<clock, file, yes, spent, grants>>,
           c.stage = "listing", c.op = "list",
           \A i \in c.todo : file[i].status # "ABSENT",
           \A q \in Requests \ {r} : SameProcess(r, q) => call[q].stage \notin Holding
    PROVE  StoreInv'
<1>1. /\ StoreTypeOK'
      /\ call'[r] = c
      /\ \A q \in Requests : q # r => call'[q] = call[q]
      /\ r \in Requests
  BY OneCallChanges DEF StoreInv, Requests
<1> USE <1>1 DEF StoreInv
<1>2. OneHolder'
  BY DEF OneHolder, Holding, SameProcess
<1>3. StageShape'
  BY DEF StageShape
<1>4. ServerView'
  BY DEF ServerView, Requests
<1>5. ExecView'
  BY StoreAssumption DEF ExecView, Requests
<1>6. LoadedView'
  BY DEF LoadedView
<1>7. CreateView'
  BY DEF CreateView, Creating
<1>8. ListView'
  BY DEF ListView
<1>9. FileHistory'
  BY HistoryFrame
<1> QED BY <1>2, <1>3, <1>4, <1>5, <1>6, <1>7, <1>8, <1>9

LEMMA ListStartInv ==
    ASSUME StoreInv, NEW r \in ServerReqs, ListStart(r)
    PROVE  StoreInv'
<1> DEFINE c == [NoCall EXCEPT !.op = "list", !.stage = "listing",
                    !.todo = {i \in ApprovalIDs : file[i].status # "ABSENT"}]
<1>1. /\ c \in Call /\ c.stage = "listing" /\ c.op = "list"
      /\ \A i \in c.todo : file[i].status # "ABSENT"
  BY NoCallFacts DEF Call, Stages, Ops, ServerOps
<1>2. /\ call' = [call EXCEPT ![r] = c]
      /\ UNCHANGED <<clock, file, yes, spent, grants>>
      /\ MutexFree(r)
  BY DEF ListStart
<1> HIDE DEF c
<1> QED BY <1>1, <1>2, ListingInv DEF MutexFree

(***************************************************************************)
(* The decision to write.  The hypothesis lists the three ways to come     *)
(* here: an expiry, an answer to an open question, a consumption.          *)
(***************************************************************************)
LEMMA ToSaveInv ==
    ASSUME StoreInv, NEW r \in Requests, NEW s \in Statuses, NEW ok \in BOOLEAN,
           ToSave(r, s, ok), UNCHANGED <<clock, file, yes, spent, grants>>,
           call[r].stage = "loaded",
           \/ call[r].op \in {"get", "list", "approve", "reject"} /\ s = "EXPIRED"
           \/ /\ call[r].op \in {"approve", "reject"}
              /\ s \in {"APPROVED", "REJECTED"}
              /\ call[r].rec.status = "PENDING"
           \/ /\ call[r].op = "consume"
              /\ s = "CONSUMED"
              /\ call[r].rec.status = "APPROVED"
              /\ call[r].rec.binding = call[r].want
    PROVE  StoreInv'
<1> DEFINE c == [call[r] EXCEPT !.stage = "saving", !.rec.status = s, !.ok = ok]
<1>1. call[r] \in Call
  BY DEF StoreInv, StoreTypeOK
<1>2. /\ c \in Call /\ c.stage = "saving" /\ c.op = call[r].op /\ c.id = call[r].id
      /\ c.want = call[r].want /\ c.todo = call[r].todo
      /\ c.rec.status = s /\ c.rec.binding = call[r].rec.binding
      /\ c.rec.expires = call[r].rec.expires
  BY <1>1 DEF Call, Record, Stages
<1>3. call' = [call EXCEPT ![r] = c]
  BY DEF StoreInv, StoreTypeOK, ToSave
<1> HIDE DEF c
<1>4. /\ StoreTypeOK'
      /\ call'[r] = c
      /\ \A q \in Requests : q # r => call'[q] = call[q]
  BY <1>2, <1>3, OneCallChanges DEF StoreInv
<1>5. IF r \in ServerReqs THEN call[r].op \in ServerOps \ {"create"}
                          ELSE call[r].op \in ExecOps
  BY DEF StoreInv, StageShape
<1> USE <1>2, <1>4, <1>5 DEF StoreInv
<1>6. OneHolder'
  BY DEF OneHolder, Holding
<1>7. StageShape'
  BY DEF StageShape, ServerOps, ExecOps
<1>8. ServerView'
  BY DEF ServerView, Requests, ServerOps, ExecOps
<1>9. ExecView'
  BY StoreAssumption DEF ExecView, Requests, ServerOps, ExecOps
<1>10. LoadedView'
  BY DEF LoadedView
<1>11. CreateView'
  BY DEF CreateView, Creating, ServerOps, ExecOps
<1>12. ListView'
  BY DEF ListView
<1>13. FileHistory'
  BY HistoryFrame
<1> QED BY <1>6, <1>7, <1>8, <1>9, <1>10, <1>11, <1>12, <1>13

LEMMA ExpireInv ==
    ASSUME StoreInv, NEW r \in Requests, Expire(r)
    PROVE  StoreInv'
<1>1. /\ call[r].stage = "loaded"
      /\ call[r].op \in {"get", "list"}
      /\ UNCHANGED <<clock, file, yes, spent, grants>>
  BY DEF Expire
<1>2. CASE Return(r, TRUE)
  BY <1>1, <1>2, ReturnInv
<1>3. CASE ToSave(r, "EXPIRED", TRUE)
  BY <1>1, <1>3, ToSaveInv DEF Statuses
<1>4. CASE /\ call[r].op = "list"
           /\ call' = [call EXCEPT ![r].stage = "listing"]
  <2> DEFINE c == [call[r] EXCEPT !.stage = "listing"]
  <2>1. r \in ServerReqs
    BY <1>1, <1>4 DEF StoreInv, StageShape, ExecOps
  <2>2. c \in Call /\ c.stage = "listing" /\ c.op = "list" /\ c.todo = call[r].todo
    BY <1>4 DEF StoreInv, StoreTypeOK, Call, Stages
  <2>3. call' = [call EXCEPT ![r] = c]
    BY <1>4 DEF StoreInv, StoreTypeOK
  <2> HIDE DEF c
  <2>4. \A i \in c.todo : file[i].status # "ABSENT"
    BY <1>4, <2>2 DEF StoreInv, ListView
  <2>5. \A q \in Requests \ {r} : SameProcess(r, q) => call[q].stage \notin Holding
    BY <1>1 DEF StoreInv, OneHolder, Holding
  <2> QED BY <1>1, <2>1, <2>2, <2>3, <2>4, <2>5, ListingInv
<1> QED BY <1>1, <1>2, <1>3, <1>4 DEF Expire

LEMMA ResolveInv ==
    ASSUME StoreInv, NEW r \in Requests, Resolve(r)
    PROVE  StoreInv'
<1>1. /\ call[r].stage = "loaded"
      /\ call[r].op \in {"approve", "reject"}
      /\ UNCHANGED <<clock, file, yes, spent, grants>>
      /\ Desired(call[r].op) \in {"APPROVED", "REJECTED"}
  BY DEF Resolve, Desired
<1>2. CASE clock >= call[r].rec.expires
  BY <1>1, <1>2, ToSaveInv DEF Resolve, Statuses
<1>3. CASE /\ ~(clock >= call[r].rec.expires)
           /\ call[r].rec.status = "PENDING"
  <2>1. ToSave(r, Desired(call[r].op), TRUE)
    BY <1>3 DEF Resolve
  <2>2. Desired(call[r].op) \in Statuses
    BY <1>1 DEF Statuses
  <2> QED BY <1>1, <1>3, <2>1, <2>2, ToSaveInv
<1>4. CASE /\ ~(clock >= call[r].rec.expires)
           /\ call[r].rec.status # "PENDING"
  <2>1. Return(r, call[r].rec.status = Desired(call[r].op))
    BY <1>4 DEF Resolve
  <2> QED BY <1>1, <2>1, ReturnInv
<1> QED BY <1>2, <1>3, <1>4

LEMMA ConsumeInv ==
    ASSUME StoreInv, NEW r \in Requests, Consume(r)
    PROVE  StoreInv'
<1>1. CASE Usable(call[r])
  BY <1>1, ToSaveInv DEF Consume, Usable, Statuses
<1>2. CASE ~Usable(call[r])
  BY <1>2, ReturnInv DEF Consume
<1> QED BY <1>1, <1>2

(* The steps that only return. *)
LEMMA ReturningInv ==
    ASSUME StoreInv, NEW r \in Requests,
           ListReturn(r) \/ Validate(r) \/ SaveFails(r)
    PROVE  StoreInv'
<1>1. CASE ListReturn(r)
  BY <1>1, ReturnInv DEF ListReturn
<1>2. CASE Validate(r)
  <2>1. Usable(call[r]) \in BOOLEAN
    BY DEF Usable
  <2> QED BY <1>2, <2>1, ReturnInv DEF Validate
<1>3. CASE SaveFails(r)
  BY <1>3, ReturnInv DEF SaveFails
<1> QED BY <1>1, <1>2, <1>3

(* What a call that is about to write knows of the record it replaces. *)
LEMMA WriteFacts ==
    ASSUME StoreInv, NEW r \in Requests, call[r].stage = "saving"
    PROVE  LET k == call[r].id
               n == call[r].rec
           IN  /\ k \in ApprovalIDs /\ n \in Record /\ call[r].want \in Bindings
               /\ IF r \in ServerReqs
                  THEN \/ /\ call[r].op = "create"
                          /\ n.status = "PENDING"
                          /\ file[k].status = "ABSENT"
                       \/ /\ call[r].op \in {"get", "list", "approve", "reject"}
                          /\ n.status = "EXPIRED"
                          /\ file[k].status # "ABSENT"
                       \/ /\ call[r].op \in {"approve", "reject"}
                          /\ n.status \in {"APPROVED", "REJECTED"}
                          /\ file[k].status = "PENDING"
                  ELSE /\ call[r].op = "consume"
                       /\ n.status = "CONSUMED"
                       /\ call[r].want = n.binding
                       /\ k \in yes \ spent
                       /\ file[k].status \in {"APPROVED", "EXPIRED"}
               /\ file[k].status # "ABSENT" => /\ file[k].binding = n.binding
                                               /\ file[k].expires = n.expires
<1> DEFINE k == call[r].id
           n == call[r].rec
<1>1. k \in ApprovalIDs /\ n \in Record /\ call[r].want \in Bindings
  BY DEF StoreInv, StoreTypeOK, Call
<1>2. IF r \in ServerReqs
      THEN \/ call[r].op = "create" /\ n.status = "PENDING" /\ file[k].status = "ABSENT"
           \/ /\ call[r].op \in {"get", "list", "approve", "reject"}
              /\ n.status = "EXPIRED"
              /\ file[k].status # "ABSENT"
           \/ /\ call[r].op \in {"approve", "reject"}
              /\ n.status \in {"APPROVED", "REJECTED"}
              /\ file[k].status = "PENDING"
      ELSE /\ call[r].op = "consume" /\ n.status = "CONSUMED"
           /\ call[r].want = n.binding
           /\ k \in yes \ spent /\ file[k].status \in {"APPROVED", "EXPIRED"}
  BY DEF StoreInv, StageShape, ServerView, ExecView, LoadedView, CreateView,
         Creating, Requests
<1>3. file[k].status # "ABSENT" => /\ file[k].binding = n.binding
                                   /\ file[k].expires = n.expires
  BY <1>2 DEF StoreInv, LoadedView, CreateView, Creating
<1> QED BY <1>1, <1>2, <1>3

(***************************************************************************)
(* The write.  c is what becomes of the call: it returns, or it is List    *)
(* and goes on.  A grant is added only by a consumption.                   *)
(***************************************************************************)
LEMMA WriteInv ==
    ASSUME StoreInv, NEW r \in Requests, NEW c \in Call,
           call[r].stage = "saving", Rename(r), UNCHANGED clock,
           call' = [call EXCEPT ![r] = c],
           \/ c.stage = "idle" /\ c.op = "none" /\ c.todo = {}
           \/ /\ call[r].op = "list" /\ c.op = "list" /\ c.stage = "listing"
              /\ c.todo = call[r].todo,
           \/ UNCHANGED grants
           \/ /\ call[r].op = "consume"
              /\ grants' = [grants EXCEPT ![call[r].id] = Append(@, call[r].want)]
    PROVE  StoreInv'
<1> DEFINE k == call[r].id
           n == call[r].rec
<1>1. call[r] \in Call /\ k \in ApprovalIDs /\ n \in Record /\ call[r].want \in Bindings
  BY DEF StoreInv, StoreTypeOK, Call
<1>2. /\ file' = [file EXCEPT ![k] = n]
      /\ yes' = IF n.status = "APPROVED" THEN yes \cup {k} ELSE yes
      /\ spent' = IF n.status = "CONSUMED" THEN spent \cup {k} ELSE spent
  BY DEF Rename
<1>3. StoreTypeOK'
  <2>1. grants' \in [ApprovalIDs -> Seq(Bindings)]
    <3>1. grants \in [ApprovalIDs -> Seq(Bindings)]
      BY DEF StoreInv, StoreTypeOK
    <3>2. Append(grants[k], call[r].want) \in Seq(Bindings)
      BY <1>1, <3>1
    <3> QED BY <1>1, <3>1, <3>2
  <2>2. /\ file' \in [ApprovalIDs -> Record]
        /\ yes' \subseteq ApprovalIDs
        /\ spent' \subseteq ApprovalIDs
        /\ clock' \in 0..MaxTime
    BY <1>1, <1>2 DEF StoreInv, StoreTypeOK
  <2>3. call' \in [Requests -> Call]
    BY DEF StoreInv, StoreTypeOK
  <2> QED BY <2>1, <2>2, <2>3 DEF StoreTypeOK
<1>4. /\ call'[r] = c
      /\ \A q \in Requests : q # r => call'[q] = call[q]
      /\ file'[k] = n
      /\ \A i \in ApprovalIDs : i # k => file'[i] = file[i]
  BY <1>1, <1>2 DEF StoreInv, StoreTypeOK
<1>5. n.status # "ABSENT"
  BY DEF StoreInv, StageShape
<1>6. \A q \in Requests \ {r} : SameProcess(r, q) => call[q].stage \notin Holding
  BY DEF StoreInv, OneHolder, Holding
<1>7. IF r \in ServerReqs
      THEN \/ call[r].op = "create" /\ n.status = "PENDING" /\ file[k].status = "ABSENT"
           \/ /\ call[r].op \in {"get", "list", "approve", "reject"}
              /\ n.status = "EXPIRED"
              /\ file[k].status # "ABSENT"
           \/ /\ call[r].op \in {"approve", "reject"}
              /\ n.status \in {"APPROVED", "REJECTED"}
              /\ file[k].status = "PENDING"
      ELSE /\ call[r].op = "consume" /\ n.status = "CONSUMED"
           /\ call[r].want = n.binding
           /\ k \in yes \ spent /\ file[k].status \in {"APPROVED", "EXPIRED"}
  BY WriteFacts
<1>8. file[k].status # "ABSENT" => /\ file[k].binding = n.binding
                                   /\ file[k].expires = n.expires
  BY WriteFacts
<1>9. \A q \in Requests : call[q].id \in ApprovalIDs
  BY DEF StoreInv, StoreTypeOK, Call
<1> HIDE DEF k, n
<1>10. OneHolder'
  BY <1>4, <1>6 DEF StoreInv, OneHolder, Holding, SameProcess
<1>11. StageShape'
  BY <1>4, <1>7 DEF StoreInv, StageShape
<1>12. ServerView'
  <2> SUFFICES ASSUME NEW q \in ServerReqs, q # r
               PROVE  /\ call[q].stage = "loaded" /\ call[q].rec.status = "PENDING"
                            => file'[call[q].id].status = "PENDING"
                      /\ call[q].stage = "saving"
                         /\ call[q].rec.status \in {"APPROVED", "REJECTED"}
                            => file'[call[q].id].status = "PENDING"
    BY <1>4 DEF ServerView, Requests
  <2>1. CASE r \in ServerReqs
    BY <2>1, <1>6 DEF SameProcess, Holding, Requests
  <2>2. CASE r \notin ServerReqs
    BY <2>2, <1>4, <1>7, <1>9 DEF StoreInv, ServerView, Requests
  <2> QED BY <2>1, <2>2
<1>13. ExecView'
  <2> SUFFICES ASSUME NEW q \in ExecReqs, q # r,
                      \/ call[q].stage = "loaded" /\ call[q].rec.status = "APPROVED"
                      \/ call[q].stage = "saving"
               PROVE  /\ call[q].id \in yes' \ spent'
                      /\ file'[call[q].id].status \in {"APPROVED", "EXPIRED"}
    BY <1>4, <1>7, StoreAssumption DEF ExecView, Requests
  <2>1. /\ call[q].id \in yes \ spent
        /\ file[call[q].id].status \in {"APPROVED", "EXPIRED"}
    BY DEF StoreInv, ExecView
  <2>2. r \in ServerReqs
    BY <1>6, StoreAssumption DEF SameProcess, Holding, Requests
  <2>3. n.status # "CONSUMED" /\ (call[q].id = k => n.status = "EXPIRED")
    BY <1>7, <2>1, <2>2
  <2> QED BY <1>2, <1>4, <1>9, <2>1, <2>3 DEF Requests
<1>14. LoadedView'
  BY <1>4, <1>5, <1>8, <1>9 DEF StoreInv, LoadedView
<1>15. CreateView'
  <2>1. ASSUME NEW q \in Requests, q # r, Creating(q)
        PROVE  file'[call[q].id].status = "ABSENT"
    <3>1. call[q].id # k
      BY <2>1, <1>7 DEF StoreInv, CreateView, Creating, k
    <3> QED BY <2>1, <3>1, <1>4, <1>9 DEF StoreInv, CreateView
  <2> QED BY <1>4, <2>1 DEF StoreInv, CreateView, Creating
<1>16. ListView'
  BY <1>4, <1>5, <1>9 DEF StoreInv, StoreTypeOK, ListView, Call
<1>17. FileHistory'
  <2> SUFFICES ASSUME NEW i \in ApprovalIDs
               PROVE  /\ file'[i].status \in {"ABSENT", "PENDING", "REJECTED"} => i \notin yes'
                      /\ file'[i].status = "APPROVED" => i \in yes' \ spent'
                      /\ file'[i].status = "CONSUMED" => i \in spent'
                      /\ i \in spent' => i \in yes'
                      /\ i \notin spent' => grants'[i] = <<>>
                      /\ grants'[i] \in {<<>>, <<file'[i].binding>>}
    BY DEF FileHistory
  <2>1. CASE i # k
    <3>1. grants'[i] = grants[i]
      BY <2>1, <1>1 DEF StoreInv, StoreTypeOK, k
    <3> QED BY <2>1, <3>1, <1>2, <1>4 DEF StoreInv, FileHistory
  <2>2. CASE i = k /\ n.status # "CONSUMED"
    <3>1. grants'[i] = grants[i]
      BY <2>2, <1>7
    <3> QED BY <2>2, <3>1, <1>2, <1>4, <1>7, <1>8 DEF StoreInv, FileHistory
  <2>3. CASE i = k /\ n.status = "CONSUMED"
    <3>1. grants[i] = <<>> /\ i \in yes
      BY <2>3, <1>7 DEF StoreInv, FileHistory
    <3>2. grants'[i] \in {<<>>, <<n.binding>>}
      <4>1. call[r].want = n.binding
        BY <2>3, <1>7
      <4>2. grants \in [ApprovalIDs -> Seq(Bindings)]
        BY DEF StoreInv, StoreTypeOK
      <4>3. Append(<<>>, call[r].want) = <<call[r].want>>
        BY <1>1
      <4> QED BY <2>3, <3>1, <4>1, <4>2, <4>3 DEF k
    <3> QED BY <2>3, <3>1, <3>2, <1>2, <1>4
  <2> QED BY <2>1, <2>2, <2>3
<1> QED BY <1>3, <1>10, <1>11, <1>12, <1>13, <1>14, <1>15, <1>16, <1>17 DEF StoreInv

LEMMA SaveInv ==
    ASSUME StoreInv, NEW r \in Requests, Save(r)
    PROVE  StoreInv'
<1>1. /\ call[r].stage = "saving"
      /\ Rename(r)
      /\ UNCHANGED clock
      /\ \/ UNCHANGED grants
         \/ /\ call[r].op = "consume"
            /\ grants' = [grants EXCEPT ![call[r].id] = Append(@, call[r].want)]
  BY DEF Save
<1>2. CASE call[r].op = "list"
  <2> DEFINE c == [call[r] EXCEPT !.stage = "listing"]
  <2>1. c \in Call /\ c.stage = "listing" /\ c.op = "list" /\ c.todo = call[r].todo
    BY <1>2 DEF StoreInv, StoreTypeOK, Call, Stages
  <2>2. call' = [call EXCEPT ![r] = c]
    BY <1>2 DEF Save, StoreInv, StoreTypeOK
  <2> HIDE DEF c
  <2> QED BY <1>1, <1>2, <2>1, <2>2, WriteInv
<1>3. CASE call[r].op # "list"
  <2> DEFINE c == [NoCall EXCEPT !.ok = call[r].ok]
  <2>1. c \in Call /\ c.stage = "idle" /\ c.op = "none" /\ c.todo = {}
    BY NoCallFacts DEF StoreInv, StoreTypeOK, Call
  <2>2. call' = [call EXCEPT ![r] = c]
    BY <1>3 DEF Save, Return
  <2> HIDE DEF c
  <2> QED BY <1>1, <2>1, <2>2, WriteInv
<1> QED BY <1>2, <1>3

LEMMA SyncFailsInv ==
    ASSUME StoreInv, NEW r \in Requests, SyncFails(r)
    PROVE  StoreInv'
<1> DEFINE c == [NoCall EXCEPT !.ok = FALSE]
<1>1. c \in Call /\ c.stage = "idle" /\ c.op = "none" /\ c.todo = {}
  BY NoCallFacts DEF Call
<1>2. /\ call[r].stage = "saving"
      /\ Rename(r)
      /\ UNCHANGED <<clock, grants>>
      /\ call' = [call EXCEPT ![r] = c]
  BY DEF SyncFails, Return
<1> HIDE DEF c
<1> QED BY <1>1, <1>2, WriteInv

(* Calls may end at any moment, all those of a process included. *)
LEMMA CallsEndInv ==
    ASSUME StoreInv, NEW process \in SUBSET Requests,
           call' = [r \in Requests |-> IF r \in process THEN NoCall ELSE call[r]],
           UNCHANGED <<clock, file, yes, spent, grants>>
    PROVE  StoreInv'
<1>1. StoreTypeOK'
  BY NoCallFacts DEF StoreInv, StoreTypeOK
<1>2. \A r \in Requests :
        \/ call'[r] = call[r]
        \/ call'[r].stage = "idle" /\ call'[r].op = "none" /\ call'[r].todo = {}
  BY NoCallFacts
<1> USE <1>2 DEF StoreInv
<1>3. OneHolder'
  BY DEF OneHolder, Holding
<1>4. StageShape'
  BY DEF StageShape
<1>5. ServerView'
  BY DEF ServerView, Requests
<1>6. ExecView'
  BY DEF ExecView, Requests
<1>7. LoadedView'
  BY DEF LoadedView
<1>8. CreateView'
  BY DEF CreateView, Creating
<1>9. ListView'
  BY DEF ListView
<1>10. FileHistory'
  BY HistoryFrame
<1> QED BY <1>1, <1>3, <1>4, <1>5, <1>6, <1>7, <1>8, <1>9, <1>10

LEMMA CrashInv ==
    ASSUME StoreInv, NEW process \in SUBSET Requests, Crash(process)
    PROVE  StoreInv'
BY CallsEndInv DEF Crash

LEMMA TickInv ==
    ASSUME StoreInv, Tick
    PROVE  StoreInv'
BY StoreAssumption
   DEF Tick, StoreInv, StoreTypeOK, OneHolder, StageShape, ServerView, ExecView,
       LoadedView, CreateView, Creating, ListView, FileHistory

LEMMA InitInv == StoreInit => StoreInv
<1> SUFFICES ASSUME StoreInit PROVE StoreInv
  OBVIOUS
<1>1. StoreTypeOK
  BY NoCallFacts, StoreAssumption DEF StoreInit, StoreTypeOK
<1>2. \A r \in Requests :
        call[r].stage = "idle" /\ call[r].op = "none" /\ call[r].todo = {}
  BY NoCallFacts DEF StoreInit
<1>3. FileHistory
  BY NoCallFacts DEF StoreInit, FileHistory
<1> QED BY <1>1, <1>2, <1>3
        DEF StoreInv, OneHolder, Holding, StageShape, ServerView, ExecView,
            LoadedView, CreateView, Creating, ListView, Requests

(* The invariant is inductive: one step per action of the store. *)
LEMMA NextInv == StoreInv /\ [StoreNext]_storeVars => StoreInv'
<1> SUFFICES ASSUME StoreInv, [StoreNext]_storeVars PROVE StoreInv'
  OBVIOUS
<1>1. ASSUME NEW r \in ServerReqs, ServerCalls(r) PROVE StoreInv'
  <2>1. r \in Requests /\ AnyBinding \in Bindings
    BY StoreAssumption DEF Requests, AnyBinding
  <2>2. CASE \E i \in ApprovalIDs, b \in Bindings, ttl \in TTLs : Create(r, i, b, ttl)
    BY <2>2, CreateInv
  <2>3. CASE \E op \in {"get", "approve", "reject"}, i \in ApprovalIDs :
               Load(r, op, i, AnyBinding)
    BY <2>1, <2>3, LoadInv DEF Ops, ServerOps
  <2>4. CASE ListStart(r)
    BY <2>4, ListStartInv
  <2> QED BY <1>1, <2>2, <2>3, <2>4 DEF ServerCalls
<1>2. ASSUME NEW r \in ExecReqs, ExecCalls(r) PROVE StoreInv'
  BY <1>2, LoadInv DEF ExecCalls, Ops, Requests
<1>3. ASSUME NEW r \in Requests, CallStep(r) PROVE StoreInv'
  BY <1>3, CreateLockInv, ListEntryInv, ReturningInv, ExpireInv, ResolveInv,
     ConsumeInv, SaveInv, SyncFailsInv DEF CallStep
<1>4. CASE Crash(ServerReqs) \/ Crash(ExecReqs)
  BY <1>4, CrashInv DEF Requests
<1>5. CASE Tick
  BY <1>5, TickInv
<1>6. CASE UNCHANGED storeVars
  BY <1>6 DEF storeVars, StoreInv, StoreTypeOK, OneHolder, StageShape, ServerView,
       ExecView, LoadedView, CreateView, Creating, ListView, FileHistory
<1> QED BY <1>1, <1>2, <1>3, <1>4, <1>5, <1>6 DEF StoreNext

(***************************************************************************)
(* The store keeps its invariant, and with it its types, through every     *)
(* interleaving of the calls of the two processes and their crashes.       *)
(***************************************************************************)
THEOREM StoreInvariant == StoreSpec => []StoreInv
BY InitInv, NextInv, PTL DEF StoreSpec

(***************************************************************************)
(* An approval is consumed successfully at most once, for the binding the  *)
(* operator saw, and only after an operator approved it: the guarantee the *)
(* executor builds on (Executor.Execute calls Consume before its handler). *)
(***************************************************************************)
THEOREM SingleConsumptionHolds == StoreSpec => []SingleConsumption
<1>1. StoreInv => SingleConsumption
  <2> SUFFICES ASSUME StoreInv, NEW i \in ApprovalIDs
               PROVE  /\ Len(grants[i]) <= 1
                      /\ grants[i] # <<>> => i \in yes /\ grants[i] = <<file[i].binding>>
    BY DEF SingleConsumption
  <2>1. grants[i] = <<>> \/ grants[i] = <<file[i].binding>>
    BY DEF StoreInv, FileHistory
  <2>2. Len(grants[i]) <= 1
    <3>1. file[i].binding \in Bindings
      BY DEF StoreInv, StoreTypeOK, Record
    <3>2. Len(<<>>) = 0 /\ Len(<<file[i].binding>>) = 1
      BY <3>1
    <3>3. CASE grants[i] = <<>>
      BY <3>2, <3>3
    <3>4. CASE grants[i] = <<file[i].binding>>
      <4>1. Len(grants[i]) = 1
        BY <3>2, <3>4, Zenon
      <4> QED BY <4>1
    <3> QED BY <2>1, <3>3, <3>4
  <2> QED BY <2>1, <2>2 DEF StoreInv, FileHistory
<1> QED BY <1>1, StoreInvariant, PTL

(* Every step but a rename leaves the directory and its history alone. *)
LEMMA OnlyRenameWrites ==
    ASSUME [StoreNext]_storeVars
    PROVE  \/ UNCHANGED <<file, yes, spent, grants>>
           \/ \E r \in Requests :
                 /\ call[r].stage = "saving"
                 /\ Rename(r)
                 /\ \/ UNCHANGED grants
                    \/ /\ call[r].op = "consume"
                       /\ grants' = [grants EXCEPT ![call[r].id] = Append(@, call[r].want)]
BY DEF StoreNext, storeVars, ServerCalls, ExecCalls, CallStep, Create, CreateLock, Load,
       ListStart, ListEntry, ListReturn, Expire, Resolve, Validate, Consume, Save,
       SaveFails, SyncFails, Crash, Tick

(***************************************************************************)
(* No save of either process revives an approval, although a save may      *)
(* replace a record that changed since it was loaded.                      *)
(***************************************************************************)
THEOREM NoResurrectionHolds == StoreSpec => NoResurrection
<1>1. StoreInv /\ [StoreNext]_storeVars => [NoResurrectionStep]_storeVars
  <2> SUFFICES ASSUME StoreInv, [StoreNext]_storeVars PROVE NoResurrectionStep
    OBVIOUS
  <2>1. CASE UNCHANGED <<file, yes, spent, grants>>
    BY <2>1 DEF NoResurrectionStep
  <2>2. ASSUME NEW r \in Requests, call[r].stage = "saving", Rename(r)
        PROVE  NoResurrectionStep
    <3> DEFINE k == call[r].id
               n == call[r].rec
    <3>1. \A i \in ApprovalIDs : file'[i] = IF i = k THEN n ELSE file[i]
      BY <2>2 DEF Rename, StoreInv, StoreTypeOK
    <3>2. /\ n.status \in MayFollow(file[k].status) \/ n = file[k]
          /\ file[k].status # "ABSENT" => /\ file[k].binding = n.binding
                                          /\ file[k].expires = n.expires
          /\ n.status = "CONSUMED" => k \in yes /\ k \notin spent
      <4>1. n \in Record /\ file[k] \in Record
        BY <2>2, WriteFacts DEF StoreInv, StoreTypeOK
      <4>2. n.status = file[k].status /\ file[k].status # "ABSENT" => n = file[k]
        BY <2>2, <4>1, WriteFacts DEF Record
      <4>3. file[k].status \in Statuses \cup {"ABSENT"}
        BY <4>1 DEF Record
      <4> QED BY <2>2, <4>2, <4>3, WriteFacts DEF MayFollow, Statuses
    <3> HIDE DEF k, n
    <3> QED BY <3>1, <3>2 DEF NoResurrectionStep
  <2> QED BY <2>1, <2>2, OnlyRenameWrites
<1> QED BY <1>1, StoreInvariant, PTL DEF StoreSpec, NoResurrection

(***************************************************************************)
(* The store implements the ledger: seen through its history every save is *)
(* one move of the ledger, or none.                                        *)
(***************************************************************************)
THEOREM StoreImplementsLedger == StoreSpec => ImplementsLedger
<1>1. StoreInit => Ledger!LedgerInit
  BY NoCallFacts DEF StoreInit, Ledger!LedgerInit, LedgerView
<1>2. StoreInv /\ [StoreNext]_storeVars => [Ledger!LedgerNext]_LedgerView
  <2> SUFFICES ASSUME StoreInv, [StoreNext]_storeVars
               PROVE  [Ledger!LedgerNext]_LedgerView
    OBVIOUS
  <2>1. CASE UNCHANGED <<file, yes, spent, grants>>
    BY <2>1 DEF LedgerView
  <2>2. ASSUME NEW r \in Requests, call[r].stage = "saving", Rename(r),
               \/ UNCHANGED grants
               \/ /\ call[r].op = "consume"
                  /\ grants' = [grants EXCEPT ![call[r].id] = Append(@, call[r].want)]
        PROVE  [Ledger!LedgerNext]_LedgerView
    <3> DEFINE k == call[r].id
               n == call[r].rec
    <3>1. k \in ApprovalIDs
      BY <2>2, WriteFacts
    <3>2. \A i \in ApprovalIDs : i # k => LedgerView'[i] = LedgerView[i]
      BY <2>2, <3>1 DEF Rename, StoreInv, StoreTypeOK, LedgerView
    <3>3. LedgerView' = [LedgerView EXCEPT ![k] = LedgerView'[k]]
      <4>1. /\ LedgerView = [i \in ApprovalIDs |-> LedgerView[i]]
            /\ LedgerView' = [i \in ApprovalIDs |-> LedgerView'[i]]
        BY DEF LedgerView
      <4> HIDE DEF k, n
      <4> QED BY <3>1, <3>2, <4>1
    <3>4. CASE r \in ServerReqs /\ UNCHANGED grants
      <4>1. \/ LedgerView[k] = "absent" /\ LedgerView'[k] = "open"
            \/ LedgerView[k] = "open" /\ LedgerView'[k] = "approved"
            \/ LedgerView[k] = "open" /\ LedgerView'[k] = "refused"
            \/ LedgerView'[k] = LedgerView[k]
        BY <2>2, <3>1, <3>4, WriteFacts
           DEF Rename, StoreInv, StoreTypeOK, FileHistory, LedgerView
      <4> HIDE DEF k, n
      <4>2. LedgerView'[k] = LedgerView[k] => LedgerView' = LedgerView
        BY <3>3 DEF LedgerView
      <4> QED BY <4>1, <4>2, <3>1, <3>3
              DEF Ledger!LedgerNext, Ledger!Ask, Ledger!Approve, Ledger!Refuse, Ledger!Move
    <3>5. CASE r \notin ServerReqs
      <4>1. LedgerView[k] = "approved"
        BY <2>2, <3>1, <3>5, WriteFacts DEF StoreInv, FileHistory, LedgerView
      <4>2. LedgerView'[k] \in {"granted", "forfeited"}
        BY <2>2, <3>1, <3>5, WriteFacts DEF Rename, StoreInv, StoreTypeOK, LedgerView
      <4> HIDE DEF k, n
      <4> QED BY <4>1, <4>2, <3>1, <3>3
              DEF Ledger!LedgerNext, Ledger!Grant, Ledger!Forfeit, Ledger!Move
    <3> QED BY <2>2, <3>4, <3>5, WriteFacts
  <2> QED BY <2>1, <2>2, OnlyRenameWrites
<1> QED BY <1>1, <1>2, StoreInvariant, PTL
        DEF StoreSpec, ImplementsLedger, Ledger!LedgerSpec

(* Executor. *)

(* The goroutines of the two processes are different ones. *)
LEMMA Processes ==
    /\ ExecReqs \subseteq Requests /\ ServerReqs \subseteq Requests
    /\ \A d \in ExecReqs : d \notin ServerReqs
BY StoreAssumption DEF Requests

(* What Load does for a goroutine of privexec. *)
LEMMA LoadEffect ==
    ASSUME StoreTypeOK, NEW d \in ExecReqs, NEW op \in ExecOps,
           NEW i \in ApprovalIDs, NEW b \in Bindings, Load(d, op, i, b)
    PROVE  /\ UNCHANGED <<clock, file, yes, spent, grants>>
           /\ \A q \in Requests : q # d => call'[q] = call[q]
           /\ \/ call'[d].stage = "idle" /\ ~call'[d].ok
              \/ /\ call'[d].stage = "loaded" /\ call'[d].op = op
                 /\ call'[d].id = i /\ call'[d].want = b
<1>1. d \in Requests
  BY Processes
<1>2. CASE call' = [call EXCEPT ![d] = [NoCall EXCEPT !.ok = FALSE]]
  BY <1>1, <1>2, NoCallFacts DEF Load, StoreTypeOK, Call
<1>3. CASE call' = [call EXCEPT ![d] =
                      [NoCall EXCEPT !.op = op, !.stage = "loaded", !.id = i,
                         !.want = b, !.rec = file[i]]]
  BY <1>1, <1>3, NoCallFacts DEF Load, StoreTypeOK, Call
<1> QED BY <1>2, <1>3 DEF Load, Return

(***************************************************************************)
(* What a step of a call in progress means for the deliveries: another     *)
(* goroutine sees nothing of it; a Consume ends without success and leaves *)
(* the grants alone, or it ends with the first grant of its approval.      *)
(***************************************************************************)
StoreStepEffect(r) ==
    /\ clock' = clock
    /\ \A q \in Requests : q # r => call'[q] = call[q]
    /\ call[r].stage # "idle"
    /\ r \in ExecReqs /\ call'[r].stage # "idle" =>
          /\ call'[r].op = call[r].op /\ call'[r].id = call[r].id
          /\ call'[r].want = call[r].want
    /\ \/ /\ grants' = grants
          /\ r \in ExecReqs /\ call[r].op = "consume" /\ call'[r].stage = "idle"
                => ~call'[r].ok
       \/ /\ r \in ExecReqs /\ call[r].op = "consume"
          /\ call'[r].stage = "idle"
          /\ grants[call[r].id] = <<>>
          /\ grants' = [grants EXCEPT ![call[r].id] = <<call[r].want>>]

LEMMA CallStepEffect ==
    ASSUME StoreInv, NEW r \in Requests, CallStep(r)
    PROVE  StoreStepEffect(r)
<1> USE DEF StoreStepEffect
<1>0. /\ call \in [Requests -> Call] /\ call[r] \in Call
      /\ grants \in [ApprovalIDs -> Seq(Bindings)]
  BY DEF StoreInv, StoreTypeOK
<1>1. r \in ExecReqs => r \notin ServerReqs
  BY Processes
<1>2. ASSUME NEW ok \in BOOLEAN, Return(r, ok)
      PROVE  /\ \A q \in Requests : q # r => call'[q] = call[q]
             /\ call'[r].stage = "idle" /\ call'[r].ok = ok
  BY <1>0, <1>2, NoCallFacts DEF Return, Call
<1>3. ASSUME NEW s \in Statuses, NEW ok \in BOOLEAN, ToSave(r, s, ok)
      PROVE  /\ \A q \in Requests : q # r => call'[q] = call[q]
             /\ call'[r].stage = "saving" /\ call'[r].op = call[r].op
             /\ call'[r].id = call[r].id /\ call'[r].want = call[r].want
  BY <1>0, <1>3 DEF ToSave, Call
<1>4. CASE CreateLock(r)
  BY <1>0, <1>1, <1>4 DEF CreateLock, StoreInv, StageShape, Call
<1>5. CASE ListEntry(r)
  BY <1>0, <1>1, <1>5 DEF ListEntry, StoreInv, StageShape, Call
<1>6. CASE ListReturn(r)
  BY <1>1, <1>2, <1>6 DEF ListReturn, StoreInv, StageShape
<1>7. CASE Expire(r)
  <2>1. r \notin ExecReqs
    BY <1>1, <1>7 DEF Expire, StoreInv, StageShape, ExecOps
  <2>2. CASE call' = [call EXCEPT ![r].stage = "listing"]
    BY <1>0, <1>7, <2>1, <2>2 DEF Expire, Call
  <2> QED BY <1>2, <1>3, <1>7, <2>1, <2>2 DEF Expire, Statuses
<1>8. CASE Resolve(r)
  <2>1. r \notin ExecReqs
    BY <1>1, <1>8 DEF Resolve, StoreInv, StageShape, ExecOps
  <2>2. \/ \E ok \in BOOLEAN : Return(r, ok)
        \/ \E s \in Statuses, ok \in BOOLEAN : ToSave(r, s, ok)
    BY <1>8 DEF Resolve, Desired, Statuses
  <2>3. \A q \in Requests : q # r => call'[q] = call[q]
    BY <1>2, <1>3, <2>2
  <2> QED BY <1>8, <2>1, <2>3 DEF Resolve
<1>9. CASE Validate(r)
  BY <1>2, <1>9 DEF Validate, Usable
<1>10. CASE Consume(r)
  BY <1>2, <1>3, <1>10 DEF Consume, Statuses
<1>11. CASE SaveFails(r)
  BY <1>2, <1>11 DEF SaveFails
<1>12. CASE SyncFails(r)
  BY <1>2, <1>12 DEF SyncFails
<1>13. CASE Save(r)
  <2>1. call[r].ok \in BOOLEAN /\ call[r].id \in ApprovalIDs /\ call[r].want \in Bindings
    BY <1>0 DEF Call
  <2>2. CASE call[r].op = "consume"
    <3>1. r \in ExecReqs
      BY <1>13, <2>2 DEF Save, StoreInv, StageShape, Requests
    <3>2. call[r].id \in yes \ spent
      BY <1>13, <3>1 DEF Save, StoreInv, ExecView
    <3>3. grants[call[r].id] = <<>>
      BY <2>1, <3>2 DEF StoreInv, FileHistory
    <3>4. Append(grants[call[r].id], call[r].want) = <<call[r].want>>
      BY <2>1, <3>3
    <3>5. grants' = [grants EXCEPT ![call[r].id] = <<call[r].want>>]
      BY <1>0, <1>13, <2>2, <3>4 DEF Save
    <3> QED BY <1>2, <1>13, <2>1, <2>2, <3>1, <3>3, <3>5 DEF Save
  <2>3. CASE call[r].op = "list"
    <3>1. r \notin ExecReqs
      BY <1>1, <1>13, <2>3 DEF Save, StoreInv, StageShape
    <3> QED BY <1>0, <1>13, <2>3, <3>1 DEF Save, Call
  <2>4. CASE call[r].op \notin {"consume", "list"}
    BY <1>2, <1>13, <2>1, <2>4 DEF Save
  <2> QED BY <2>2, <2>3, <2>4
<1> QED BY <1>4, <1>5, <1>6, <1>7, <1>8, <1>9, <1>10, <1>11, <1>12, <1>13 DEF CallStep

-----------------------------------------------------------------------------
(* The inductive invariant: that of the store, and ExecInv but for what follows from it. *)
DeliveryInv == ExecTypeOK /\ DeliveryShape /\ GrantHeld /\ NonceHeld /\ ReplayRefused
Inv == StoreInv /\ DeliveryInv

(* What holds of the effects follows from who held the grants. *)
LEMMA EffectsAuthorised ==
    ASSUME FileHistory, GrantHeld, StoreTypeOK, ExecTypeOK
    PROVE  EffectIsAuthorised
<1> SUFFICES ASSUME NEW i \in ApprovalIDs, effects[i] # <<>>
             PROVE  /\ i \in yes \cap spent
                    /\ grants[i] = <<env[i].binding>>
                    /\ reserved[i] > 0
                    /\ file[i].status \in {"CONSUMED", "EXPIRED"}
  BY DEF EffectIsAuthorised
<1>1. grants[i] = <<env[i].binding>> /\ reserved[i] > 0
  BY DEF GrantHeld
<1>2. grants[i] # <<>>
  BY <1>1
<1>3. i \in yes \cap spent
  BY <1>2 DEF FileHistory
<1>4. file[i].status \in Statuses \cup {"ABSENT"}
  BY DEF StoreTypeOK, Record
<1> QED BY <1>1, <1>3, <1>4 DEF FileHistory, Statuses

(* A step of the store that changes no delivery. *)
LEMMA StoreStepInv ==
    ASSUME Inv, NEW r \in Requests, CallStep(r), UNCHANGED execVars
    PROVE  DeliveryInv'
<1>1. StoreStepEffect(r)
  BY CallStepEffect DEF Inv
<1> USE Processes, <1>1 DEF StoreStepEffect
<1>2. ExecTypeOK'
  BY DEF Inv, DeliveryInv, ExecTypeOK, execVars
<1>3. DeliveryShape'
  BY DEF Inv, DeliveryInv, DeliveryShape, execVars
<1>4. GrantHeld'
  <2>1. CASE /\ grants' = grants
             /\ r \in ExecReqs /\ call[r].op = "consume" /\ call'[r].stage = "idle"
                   => ~call'[r].ok
    <3>1. \A d \in ExecReqs : Entitled(d)' => Entitled(d)
      BY <2>1 DEF Inv, DeliveryInv, DeliveryShape, Entitled, execVars
    <3> QED BY <2>1, <3>1 DEF Inv, DeliveryInv, GrantHeld, execVars
  <2>2. CASE /\ r \in ExecReqs /\ call[r].op = "consume"
             /\ call'[r].stage = "idle"
             /\ grants[call[r].id] = <<>>
             /\ grants' = [grants EXCEPT ![call[r].id] = <<call[r].want>>]
    <3> DEFINE i == delivery[r].env
    <3>1. /\ i \in ApprovalIDs /\ call[r].id = i
          /\ call[r].want = env[i].binding
          /\ delivery[r].phase = "consuming"
          /\ grants \in [ApprovalIDs -> Seq(Bindings)]
      BY <2>2 DEF Inv, DeliveryInv, DeliveryShape, ExecTypeOK, Delivery, StoreInv, StoreTypeOK
    <3>2. /\ grants'[i] = <<env[i].binding>>
          /\ \A j \in ApprovalIDs : j # i => grants'[j] = grants[j]
      BY <2>2, <3>1
    <3>3. grants[i] = <<>> /\ <<env[i].binding>> # <<>>
      BY <2>2, <3>1
    <3>4. effects[i] = <<>> /\ \A d \in ExecReqs : Entitled(d) => delivery[d].env # i
      BY <3>1, <3>3 DEF Inv, DeliveryInv, GrantHeld
    <3>5. \A d \in ExecReqs : Entitled(d)' => d = r \/ Entitled(d)
      BY DEF Entitled, execVars
    <3>6. \A d \in ExecReqs : delivery[d].env \in ApprovalIDs
      BY DEF Inv, DeliveryInv, ExecTypeOK, Delivery
    <3>7. UNCHANGED <<delivery, env, effects, reserved>>
      BY DEF execVars
    <3> HIDE DEF i
    <3>8. ASSUME NEW d \in ExecReqs, Entitled(d)'
          PROVE  /\ grants'[delivery[d].env] = <<env[delivery[d].env].binding>>
                 /\ effects[delivery[d].env] = <<>>
                 /\ delivery[d].env = i => d = r
                 /\ d # r => Entitled(d)
      <4>1. CASE d = r
        BY <3>2, <3>4, <4>1 DEF i
      <4>2. CASE d # r
        <5>1. Entitled(d)
          BY <3>5, <3>8, <4>2
        <5>2. /\ delivery[d].env # i
              /\ grants[delivery[d].env] = <<env[delivery[d].env].binding>>
              /\ effects[delivery[d].env] = <<>>
          BY <3>4, <5>1 DEF Inv, DeliveryInv, GrantHeld
        <5> QED BY <3>2, <3>6, <5>1, <5>2
      <4> QED BY <4>1, <4>2
    <3>9. ASSUME NEW d \in ExecReqs, NEW e \in ExecReqs, Entitled(d)', Entitled(e)',
                 delivery[d].env = delivery[e].env
          PROVE  d = e
      <4>1. CASE d = r \/ e = r
        BY <3>8, <3>9, <4>1 DEF i
      <4>2. CASE d # r /\ e # r
        BY <3>8, <3>9, <4>2 DEF Inv, DeliveryInv, GrantHeld
      <4> QED BY <4>1, <4>2
    <3>10. ASSUME NEW j \in ApprovalIDs, effects[j] # <<>>
           PROVE  /\ Len(effects[j]) = 1
                  /\ env[j].made /\ reserved[j] > 0
                  /\ grants'[j] = <<env[j].binding>>
      BY <3>2, <3>4, <3>10 DEF Inv, DeliveryInv, GrantHeld
    <3> QED BY <3>7, <3>8, <3>9, <3>10 DEF GrantHeld
  <2> QED BY <2>1, <2>2
<1>5. NonceHeld'
  BY DEF Inv, DeliveryInv, NonceHeld, execVars
<1>6. ReplayRefused'
  BY DEF Inv, DeliveryInv, ReplayRefused, execVars
<1> QED BY <1>2, <1>3, <1>4, <1>5, <1>6 DEF DeliveryInv

(* The server calls the store, some calls end or time passes: no delivery notices. *)
LEMMA ElsewhereInv ==
    ASSUME Inv, UNCHANGED <<execVars, grants>>, clock' \in Nat, clock' >= clock,
           \A d \in ExecReqs : call'[d] = call[d]
    PROVE  DeliveryInv'
<1>0. clock \in Nat /\ \A i \in ApprovalIDs : env[i].expires \in Nat
  BY DEF Inv, StoreInv, StoreTypeOK, DeliveryInv, ExecTypeOK, Envelope
<1>1. ExecTypeOK' /\ DeliveryShape'
  BY DEF Inv, DeliveryInv, ExecTypeOK, DeliveryShape, execVars
<1>2. GrantHeld'
  BY DEF Inv, DeliveryInv, GrantHeld, Entitled, execVars
<1>3. NonceHeld' /\ ReplayRefused'
  BY <1>0 DEF Inv, DeliveryInv, NonceHeld, ReplayRefused, execVars
<1> QED BY <1>1, <1>2, <1>3 DEF DeliveryInv

(***************************************************************************)
(* A delivery goes on.  It must have what its new phase relies on, and it  *)
(* may not become entitled by this.                                        *)
(***************************************************************************)
LEMMA DeliveryMoves ==
    ASSUME Inv, NEW d \in ExecReqs, NEW n \in Delivery,
           delivery' = [delivery EXCEPT ![d] = n],
           UNCHANGED <<grants, env, effects>>,
           reserved' \in [ApprovalIDs -> Nat],
           \A i \in ApprovalIDs : reserved'[i] >= reserved[i],
           \A q \in ExecReqs : q # d => call'[q] = call[q],
           n.phase # "idle" => env[n.env].made,
           n.phase \in {"reserved", "consuming", "handling"} => reserved'[n.env] > 0,
           call'[d].stage # "idle" =>
              \/ n.phase = "validating" /\ call'[d].op = "validate"
              \/ /\ n.phase = "consuming" /\ call'[d].op = "consume"
                 /\ call'[d].id = n.env /\ call'[d].want = env[n.env].binding,
           n.phase = "handling" \/ (n.phase = "consuming" /\ call'[d].stage = "idle" /\ call'[d].ok)
              => Entitled(d) /\ n.env = delivery[d].env
    PROVE  delivery' \in [ExecReqs -> Delivery] /\ DeliveryShape' /\ GrantHeld'
<1>1. delivery \in [ExecReqs -> Delivery] /\ reserved \in [ApprovalIDs -> Nat]
  BY DEF Inv, DeliveryInv, ExecTypeOK
<1>2. /\ delivery' \in [ExecReqs -> Delivery]
      /\ delivery'[d] = n /\ \A q \in ExecReqs : q # d => delivery'[q] = delivery[q]
  BY <1>1
<1>3. \A q \in ExecReqs : delivery[q].env \in ApprovalIDs
  BY <1>1 DEF Delivery
<1>4. DeliveryShape'
  <2> SUFFICES ASSUME NEW q \in ExecReqs
               PROVE  /\ delivery'[q].phase # "idle" => env[delivery'[q].env].made
                      /\ delivery'[q].phase \in {"reserved", "consuming", "handling"}
                            => reserved'[delivery'[q].env] > 0
                      /\ call'[q].stage # "idle" =>
                            \/ delivery'[q].phase = "validating" /\ call'[q].op = "validate"
                            \/ /\ delivery'[q].phase = "consuming" /\ call'[q].op = "consume"
                               /\ call'[q].id = delivery'[q].env
                               /\ call'[q].want = env[delivery'[q].env].binding
    BY DEF DeliveryShape
  <2>1. CASE q = d
    BY <1>2, <2>1
  <2>2. CASE q # d
    BY <1>1, <1>2, <1>3, <2>2 DEF Inv, DeliveryInv, DeliveryShape
  <2> QED BY <2>1, <2>2
<1>5. \A q \in ExecReqs : Entitled(q)' => Entitled(q) /\ delivery'[q].env = delivery[q].env
  BY <1>2 DEF Entitled
<1>6. \A i \in ApprovalIDs : reserved[i] > 0 => reserved'[i] > 0
  BY <1>1
<1>7. GrantHeld'
  <2>1. ASSUME NEW q \in ExecReqs, Entitled(q)'
        PROVE  /\ grants[delivery'[q].env] = <<env[delivery'[q].env].binding>>
               /\ effects[delivery'[q].env] = <<>>
    <3>1. Entitled(q) /\ delivery'[q].env = delivery[q].env
      BY <1>5, <2>1
    <3>2. /\ grants[delivery[q].env] = <<env[delivery[q].env].binding>>
          /\ effects[delivery[q].env] = <<>>
      BY <3>1 DEF Inv, DeliveryInv, GrantHeld
    <3> QED BY <3>1, <3>2
  <2>2. ASSUME NEW q \in ExecReqs, NEW e \in ExecReqs, Entitled(q)', Entitled(e)',
               delivery'[q].env = delivery'[e].env
        PROVE  q = e
    BY <1>5, <2>2 DEF Inv, DeliveryInv, GrantHeld
  <2>3. ASSUME NEW i \in ApprovalIDs, effects[i] # <<>>
        PROVE  /\ Len(effects[i]) = 1
               /\ env[i].made /\ reserved'[i] > 0
               /\ grants[i] = <<env[i].binding>>
    BY <1>6, <2>3 DEF Inv, DeliveryInv, GrantHeld
  <2>4. UNCHANGED grants /\ UNCHANGED env /\ UNCHANGED effects
    OBVIOUS
  <2> QED BY <2>1, <2>2, <2>3, <2>4 DEF GrantHeld
<1> QED BY <1>2, <1>4, <1>7

(* A delivery goes on while time and nonces stay as they are. *)
LEMMA QuietMove ==
    ASSUME Inv, delivery' \in [ExecReqs -> Delivery] /\ DeliveryShape' /\ GrantHeld',
           UNCHANGED <<clock, env, target, nonceMem, nonceDisk, reserved, effects>>
    PROVE  DeliveryInv'
BY DEF Inv, DeliveryInv, ExecTypeOK, NonceHeld, ReplayRefused

(* What the phases of a delivery look like. *)
LEMMA Moved ==
    ASSUME Inv, NEW d \in ExecReqs
    PROVE  /\ delivery[d] \in Delivery /\ delivery[d].env \in ApprovalIDs
           /\ NoDelivery \in Delivery /\ NoDelivery.phase = "idle"
           /\ \A p \in Phases :
                 /\ [delivery[d] EXCEPT !.phase = p] \in Delivery
                 /\ [delivery[d] EXCEPT !.phase = p].phase = p
                 /\ [delivery[d] EXCEPT !.phase = p].env = delivery[d].env
           /\ \A p \in Phases : Enter(d, p) =>
                 delivery' = [delivery EXCEPT ![d] = [delivery[d] EXCEPT !.phase = p]]
           /\ reserved \in [ApprovalIDs -> Nat]
           /\ \A i \in ApprovalIDs : reserved[i] >= reserved[i]
<1>1. delivery[d] \in Delivery /\ delivery[d].env \in ApprovalIDs
  BY DEF Inv, DeliveryInv, ExecTypeOK, Delivery
<1>2. NoDelivery \in Delivery /\ NoDelivery.phase = "idle"
  BY StoreAssumption DEF NoDelivery, Delivery, Phases, AnyID
<1>3. \A p \in Phases :
        /\ [delivery[d] EXCEPT !.phase = p] \in Delivery
        /\ [delivery[d] EXCEPT !.phase = p].phase = p
        /\ [delivery[d] EXCEPT !.phase = p].env = delivery[d].env
  BY <1>1 DEF Delivery
<1>4. \A p \in Phases : Enter(d, p) =>
        delivery' = [delivery EXCEPT ![d] = [delivery[d] EXCEPT !.phase = p]]
  BY DEF Enter
<1>5. reserved \in [ApprovalIDs -> Nat] /\ \A i \in ApprovalIDs : reserved[i] >= reserved[i]
  BY DEF Inv, DeliveryInv, ExecTypeOK
<1> QED BY <1>1, <1>2, <1>3, <1>4, <1>5

(* Execute answers: whatever the delivery held is gone. *)
LEMMA RespondMoves ==
    ASSUME Inv, NEW d \in ExecReqs, Respond(d), call[d].stage = "idle",
           UNCHANGED <<call, grants, env, effects, reserved>>
    PROVE  delivery' \in [ExecReqs -> Delivery] /\ DeliveryShape' /\ GrantHeld'
<1> DEFINE n == NoDelivery
<1>1. n \in Delivery /\ n.phase = "idle"
  BY Moved
<1>2. delivery' = [delivery EXCEPT ![d] = n]
  BY DEF Respond
<1>3. reserved' \in [ApprovalIDs -> Nat] /\ \A i \in ApprovalIDs : reserved'[i] >= reserved[i]
  BY Moved
<1> HIDE DEF n
<1> QED BY <1>1, <1>2, <1>3, DeliveryMoves

(* Execute goes on to its next check, without a call of the store. *)
LEMMA EnterMoves ==
    ASSUME Inv, NEW d \in ExecReqs, NEW p \in Phases, Enter(d, p), call[d].stage = "idle",
           delivery[d].phase # "idle",
           p \in {"approved", "unchanged"} \/ (p = "handling" /\ Entitled(d)),
           UNCHANGED <<call, grants, env, effects, reserved>>
    PROVE  delivery' \in [ExecReqs -> Delivery] /\ DeliveryShape' /\ GrantHeld'
<1> DEFINE n == [delivery[d] EXCEPT !.phase = p]
<1>1. /\ n \in Delivery /\ n.phase = p /\ n.env = delivery[d].env
      /\ delivery' = [delivery EXCEPT ![d] = n]
  BY Moved
<1>2. reserved' \in [ApprovalIDs -> Nat] /\ \A i \in ApprovalIDs : reserved'[i] >= reserved[i]
  BY Moved
<1> HIDE DEF n
<1>3. n.phase # "idle" => env[n.env].made
  BY <1>1 DEF Inv, DeliveryInv, DeliveryShape
<1>4. n.phase \in {"reserved", "consuming", "handling"} => reserved'[n.env] > 0
  BY <1>1 DEF Inv, DeliveryInv, DeliveryShape, Entitled
<1>5. n.phase = "handling" \/ (n.phase = "consuming" /\ call'[d].stage = "idle" /\ call'[d].ok)
        => Entitled(d) /\ n.env = delivery[d].env
  BY <1>1
<1> QED BY <1>1, <1>2, <1>3, <1>4, <1>5, DeliveryMoves

(* Execute calls the approval store. *)
LEMMA CallMoves ==
    ASSUME Inv, NEW d \in ExecReqs, NEW op \in ExecOps, NEW p \in Phases,
           \/ op = "validate" /\ p = "validating" /\ delivery[d].phase = "accepted"
           \/ op = "consume" /\ p = "consuming" /\ delivery[d].phase = "reserved",
           Load(d, op, delivery[d].env, env[delivery[d].env].binding), Enter(d, p),
           UNCHANGED <<env, effects, reserved>>
    PROVE  delivery' \in [ExecReqs -> Delivery] /\ DeliveryShape' /\ GrantHeld'
<1> DEFINE n == [delivery[d] EXCEPT !.phase = p]
<1>1. /\ n \in Delivery /\ n.phase = p /\ n.env = delivery[d].env
      /\ delivery' = [delivery EXCEPT ![d] = n]
      /\ delivery[d].env \in ApprovalIDs
  BY Moved
<1>2. reserved' \in [ApprovalIDs -> Nat] /\ \A i \in ApprovalIDs : reserved'[i] >= reserved[i]
  BY Moved
<1> HIDE DEF n
<1>3. env[delivery[d].env].binding \in Bindings
  BY <1>1 DEF Inv, DeliveryInv, ExecTypeOK, Envelope
<1>4. /\ UNCHANGED <<clock, file, yes, spent, grants>>
      /\ \A q \in Requests : q # d => call'[q] = call[q]
      /\ \/ call'[d].stage = "idle" /\ ~call'[d].ok
         \/ /\ call'[d].stage = "loaded" /\ call'[d].op = op
            /\ call'[d].id = delivery[d].env
            /\ call'[d].want = env[delivery[d].env].binding
  BY <1>1, <1>3, LoadEffect DEF Inv, StoreInv
<1>5. \A q \in ExecReqs : q # d => call'[q] = call[q]
  BY <1>4, Processes
<1>6. n.phase # "idle" => env[n.env].made
  BY <1>1 DEF Inv, DeliveryInv, DeliveryShape
<1>7. n.phase \in {"reserved", "consuming", "handling"} => reserved'[n.env] > 0
  BY <1>1 DEF Inv, DeliveryInv, DeliveryShape
<1>8. UNCHANGED <<grants, env, effects>>
  BY <1>4
<1>9. call'[d].stage # "idle" =>
        \/ n.phase = "validating" /\ call'[d].op = "validate"
        \/ /\ n.phase = "consuming" /\ call'[d].op = "consume"
           /\ call'[d].id = n.env /\ call'[d].want = env[n.env].binding
  BY <1>1, <1>4
<1>10. ~(n.phase = "handling" \/ (n.phase = "consuming" /\ call'[d].stage = "idle" /\ call'[d].ok))
  BY <1>1, <1>4
<1> QED BY <1>1, <1>2, <1>5, <1>6, <1>7, <1>8, <1>9, <1>10, DeliveryMoves

-----------------------------------------------------------------------------
(* The nonces m are those of envelopes and include all that must be refused. *)
Keeps(m) ==
    /\ DOMAIN m \subseteq ApprovalIDs
    /\ \A j \in DOMAIN m : env[j].made /\ m[j] = env[j].expires
    /\ \A j \in ApprovalIDs :
          reserved[j] > 0 /\ ~(clock > env[j].expires) => j \in DOMAIN m

(* Purging and adding keep the nonces of valid envelopes. *)
LEMMA NoncesKept ==
    ASSUME Inv, NEW i \in ApprovalIDs, env[i].made
    PROVE  /\ Keeps(nonceMem) /\ Keeps(nonceDisk)
           /\ Keeps(Purged(nonceMem)) /\ Keeps(Adding(nonceMem, i))
           /\ i \in DOMAIN Adding(nonceMem, i)
<1>1. clock \in Nat /\ \A j \in ApprovalIDs : env[j].expires \in Nat
  BY DEF Inv, StoreInv, StoreTypeOK, DeliveryInv, ExecTypeOK, Envelope
<1>2. Keeps(nonceMem) /\ Keeps(nonceDisk)
  BY DEF Inv, DeliveryInv, ExecTypeOK, NonceHeld, Keeps
<1>3. Live(nonceMem) = {j \in DOMAIN nonceMem : clock <= env[j].expires}
  BY <1>2 DEF Live, Keeps
<1>4. Keeps(Purged(nonceMem))
  BY <1>1, <1>2, <1>3 DEF Keeps, Purged
<1>5. Keeps(Adding(nonceMem, i)) /\ i \in DOMAIN Adding(nonceMem, i)
  BY <1>1, <1>2, <1>3 DEF Keeps, Adding
<1> QED BY <1>2, <1>4, <1>5

(* A step that keeps them and counts no reservation leaves the nonce store in order. *)
LEMMA NonceMove ==
    ASSUME Inv, UNCHANGED <<clock, env, target, effects, reserved>>,
           Keeps(nonceMem'), Keeps(nonceDisk'),
           delivery' \in [ExecReqs -> Delivery] /\ DeliveryShape' /\ GrantHeld'
    PROVE  DeliveryInv'
<1>1. ExecTypeOK'
  BY DEF Inv, DeliveryInv, ExecTypeOK, Keeps
<1>2. NonceHeld'
  BY DEF Inv, DeliveryInv, NonceHeld, Keeps
<1>3. ReplayRefused'
  BY DEF Inv, DeliveryInv, ReplayRefused
<1> QED BY <1>1, <1>2, <1>3 DEF DeliveryInv

LEMMA ReserveInv ==
    ASSUME Inv, NEW d \in ExecReqs, Reserve(d)
    PROVE  DeliveryInv'
<1> DEFINE i == delivery[d].env
<1>1. /\ i \in ApprovalIDs /\ env[i].made /\ delivery[d].phase = "unchanged"
      /\ call[d].stage = "idle"
      /\ UNCHANGED <<clock, call, grants, env, target, effects>>
  BY Moved DEF Reserve, Inv, DeliveryInv, DeliveryShape, storeVars
<1>2. /\ Keeps(nonceMem) /\ Keeps(nonceDisk)
      /\ Keeps(Purged(nonceMem)) /\ Keeps(Adding(nonceMem, i))
      /\ i \in DOMAIN Adding(nonceMem, i)
  BY <1>1, NoncesKept
<1>3. CASE i \in Live(nonceMem)
  <2>1. /\ Respond(d) /\ nonceMem' = Purged(nonceMem)
        /\ UNCHANGED <<nonceDisk, reserved>>
    BY <1>3 DEF Reserve
  <2>2. delivery' \in [ExecReqs -> Delivery] /\ DeliveryShape' /\ GrantHeld'
    BY <1>1, <2>1, RespondMoves
  <2>3. Keeps(nonceMem') /\ Keeps(nonceDisk')
    BY <1>2, <2>1
  <2> QED BY <1>1, <2>1, <2>2, <2>3, NonceMove
<1>4. CASE i \notin Live(nonceMem)
  <2> DEFINE n == [delivery[d] EXCEPT !.phase = "reserved"]
  <2>1. /\ Enter(d, "reserved")
        /\ nonceMem' = Adding(nonceMem, i) /\ nonceDisk' = Adding(nonceMem, i)
        /\ reserved' = [reserved EXCEPT ![i] = @ + 1]
    BY <1>4 DEF Reserve
  <2>2. /\ n \in Delivery /\ n.phase = "reserved" /\ n.env = i
        /\ delivery' = [delivery EXCEPT ![d] = n]
        /\ reserved \in [ApprovalIDs -> Nat]
    BY <2>1, Moved DEF Phases
  <2> HIDE DEF n, i
  <2>3. /\ reserved' \in [ApprovalIDs -> Nat]
        /\ reserved'[i] = reserved[i] + 1
        /\ \A j \in ApprovalIDs : j # i => reserved'[j] = reserved[j]
    BY <1>1, <2>1, <2>2
  <2>4. \A j \in ApprovalIDs : reserved'[j] >= reserved[j]
    BY <2>2, <2>3
  <2>5. reserved'[n.env] > 0
    BY <1>1, <2>2, <2>3
  <2>6. delivery' \in [ExecReqs -> Delivery] /\ DeliveryShape' /\ GrantHeld'
    BY <1>1, <2>2, <2>3, <2>4, <2>5, DeliveryMoves
  <2>7. ExecTypeOK'
    BY <1>1, <1>2, <2>1, <2>3, <2>6 DEF Inv, DeliveryInv, ExecTypeOK, Keeps
  <2>8. NonceHeld'
    BY <1>1, <1>2, <2>1, <2>3 DEF Inv, DeliveryInv, NonceHeld, Keeps
  <2>9. reserved[i] > 0 => clock > env[i].expires
    BY <1>1, <1>2, <1>4 DEF Live, Keeps, Inv, DeliveryInv, StoreInv, StoreTypeOK,
       ExecTypeOK, Envelope
  <2>10. ReplayRefused'
    BY <1>1, <2>2, <2>3, <2>9 DEF Inv, DeliveryInv, ReplayRefused
  <2> QED BY <2>6, <2>7, <2>8, <2>10 DEF DeliveryInv
<1> QED BY <1>3, <1>4

LEMMA ReserveFailsInv ==
    ASSUME Inv, NEW d \in ExecReqs, ReserveFails(d)
    PROVE  DeliveryInv'
<1> DEFINE i == delivery[d].env
<1>1. /\ i \in ApprovalIDs /\ env[i].made /\ call[d].stage = "idle"
      /\ Respond(d)
      /\ nonceMem' = Purged(nonceMem)
      /\ nonceDisk' = nonceDisk \/ nonceDisk' = Adding(nonceMem, i)
      /\ UNCHANGED <<clock, call, grants, env, target, effects, reserved>>
  BY Moved DEF ReserveFails, Inv, DeliveryInv, DeliveryShape, storeVars
<1>2. Keeps(nonceMem') /\ Keeps(nonceDisk')
  BY <1>1, NoncesKept
<1>3. delivery' \in [ExecReqs -> Delivery] /\ DeliveryShape' /\ GrantHeld'
  BY <1>1, RespondMoves
<1> QED BY <1>1, <1>2, <1>3, NonceMove

LEMMA AcceptInv ==
    ASSUME Inv, NEW d \in ExecReqs, NEW i \in ApprovalIDs, Accept(d, i)
    PROVE  DeliveryInv'
<1> DEFINE n == [phase |-> "accepted", env |-> i]
<1>1. /\ n \in Delivery /\ n.phase = "accepted" /\ n.env = i
      /\ delivery' = [delivery EXCEPT ![d] = n]
      /\ env[i].made /\ delivery[d].phase = "idle"
      /\ UNCHANGED <<clock, call, grants, env, target, nonceMem, nonceDisk, reserved, effects>>
  BY DEF Accept, Delivery, Phases, storeVars
<1> HIDE DEF n
<1>2. call[d].stage = "idle"
  BY <1>1 DEF Inv, DeliveryInv, DeliveryShape
<1>3. reserved' \in [ApprovalIDs -> Nat] /\ \A j \in ApprovalIDs : reserved'[j] >= reserved[j]
  BY <1>1, Moved
<1>4. delivery' \in [ExecReqs -> Delivery] /\ DeliveryShape' /\ GrantHeld'
  BY <1>1, <1>2, <1>3, DeliveryMoves
<1> QED BY <1>1, <1>4, QuietMove

(* The handler acts: the one delivery entitled to it spends its entitlement. *)
LEMMA HandleInv ==
    ASSUME Inv, NEW d \in ExecReqs, Handle(d)
    PROVE  DeliveryInv'
<1> DEFINE i == delivery[d].env
<1>1. /\ i \in ApprovalIDs /\ env[i].made /\ reserved[i] > 0
      /\ delivery[d].phase = "handling" /\ call[d].stage = "idle"
      /\ target < MaxTarget /\ target \in 0..MaxTarget
      /\ effects' = [effects EXCEPT ![i] = Append(@, target)]
      /\ target' = target + 1
      /\ Respond(d)
      /\ UNCHANGED <<clock, call, grants, env, nonceMem, nonceDisk, reserved>>
      /\ effects \in [ApprovalIDs -> Seq(Nat)]
  BY Moved DEF Handle, Inv, DeliveryInv, DeliveryShape, ExecTypeOK, storeVars
<1>2. /\ Entitled(d) /\ effects[i] = <<>> /\ grants[i] = <<env[i].binding>>
      /\ \A e \in ExecReqs : Entitled(e) /\ delivery[e].env = i => e = d
  BY <1>1 DEF Entitled, Inv, DeliveryInv, GrantHeld
<1>3. Append(effects[i], target) = <<target>> /\ target \in Nat
  BY <1>1, <1>2, ExecutorAssumption
<1>4. <<target>> \in Seq(Nat) /\ Len(<<target>>) = 1
  BY <1>3
<1> HIDE DEF i
<1>5. /\ effects' \in [ApprovalIDs -> Seq(Nat)]
      /\ effects'[i] = <<target>> /\ \A j \in ApprovalIDs : j # i => effects'[j] = effects[j]
  BY <1>1, <1>3, <1>4
<1>6. /\ delivery' \in [ExecReqs -> Delivery]
      /\ delivery'[d] = NoDelivery /\ NoDelivery.phase = "idle"
      /\ \A e \in ExecReqs : e # d => delivery'[e] = delivery[e]
  BY <1>1, Moved DEF Respond, Inv, DeliveryInv, ExecTypeOK
<1>7. \A e \in ExecReqs : delivery[e].env \in ApprovalIDs
  BY Moved
<1>8. DeliveryShape'
  BY <1>1, <1>6 DEF Inv, DeliveryInv, DeliveryShape
<1>9. GrantHeld'
  <2>1. ASSUME NEW e \in ExecReqs, Entitled(e)'
        PROVE  /\ Entitled(e) /\ delivery'[e].env = delivery[e].env
               /\ delivery[e].env # i
    <3>1. e # d
      BY <1>6, <2>1 DEF Entitled
    <3>2. Entitled(e)
      BY <1>1, <1>6, <2>1, <3>1 DEF Entitled
    <3> QED BY <1>2, <1>6, <3>1, <3>2
  <2>2. ASSUME NEW e \in ExecReqs, Entitled(e)'
        PROVE  /\ grants[delivery'[e].env] = <<env[delivery'[e].env].binding>>
               /\ effects'[delivery'[e].env] = <<>>
    <3>1. /\ grants[delivery[e].env] = <<env[delivery[e].env].binding>>
          /\ effects[delivery[e].env] = <<>>
      BY <2>1, <2>2 DEF Inv, DeliveryInv, GrantHeld
    <3> QED BY <1>5, <1>7, <2>1, <2>2, <3>1
  <2>3. ASSUME NEW e \in ExecReqs, NEW f \in ExecReqs, Entitled(e)', Entitled(f)',
               delivery'[e].env = delivery'[f].env
        PROVE  e = f
    BY <2>1, <2>3 DEF Inv, DeliveryInv, GrantHeld
  <2>4. ASSUME NEW j \in ApprovalIDs, effects'[j] # <<>>
        PROVE  /\ Len(effects'[j]) = 1
               /\ env[j].made /\ reserved[j] > 0
               /\ grants[j] = <<env[j].binding>>
    <3>1. CASE j = i
      BY <1>1, <1>2, <1>4, <1>5, <3>1
    <3>2. CASE j # i
      BY <1>5, <2>4, <3>2 DEF Inv, DeliveryInv, GrantHeld
    <3> QED BY <3>1, <3>2
  <2> QED BY <1>1, <2>2, <2>3, <2>4 DEF GrantHeld
<1>10. target' \in 0..MaxTarget
  BY <1>1, ExecutorAssumption
<1>11. ExecTypeOK'
  BY <1>1, <1>5, <1>6, <1>10 DEF Inv, DeliveryInv, ExecTypeOK
<1>12. NonceHeld' /\ ReplayRefused'
  BY <1>1 DEF Inv, DeliveryInv, NonceHeld, ReplayRefused
<1> QED BY <1>8, <1>9, <1>11, <1>12 DEF DeliveryInv

(* Sealing a new envelope touches none that is in use. *)
LEMMA SealInv ==
    ASSUME Inv, NEW i \in ApprovalIDs, NEW b \in Bindings, Seal(i, b)
    PROVE  DeliveryInv'
<1> DEFINE e == [made |-> TRUE, binding |-> b, expires |-> clock + EnvelopeTTL, snapshot |-> target]
<1>1. /\ ~env[i].made
      /\ env' = [env EXCEPT ![i] = e]
      /\ UNCHANGED <<clock, call, grants, target, delivery, nonceMem, nonceDisk, reserved, effects>>
      /\ env \in [ApprovalIDs -> Envelope]
  BY DEF Seal, Inv, DeliveryInv, ExecTypeOK, storeVars
<1>2. e \in Envelope
  BY ExecutorAssumption DEF Inv, StoreInv, StoreTypeOK, DeliveryInv, ExecTypeOK, Envelope
<1> HIDE DEF e
<1>3. /\ env' \in [ApprovalIDs -> Envelope]
      /\ \A j \in ApprovalIDs : env[j].made => env'[j] = env[j]
  BY <1>1, <1>2
<1>4. ExecTypeOK'
  BY <1>1, <1>3 DEF Inv, DeliveryInv, ExecTypeOK
<1>5. \A d \in ExecReqs : /\ delivery[d].env \in ApprovalIDs
                          /\ delivery[d].phase # "idle" => env[delivery[d].env].made
  BY Moved DEF Inv, DeliveryInv, DeliveryShape
<1>6. DeliveryShape'
  BY <1>1, <1>3, <1>5 DEF Inv, DeliveryInv, DeliveryShape
<1>7. GrantHeld'
  <2>1. \A d \in ExecReqs : Entitled(d)' = Entitled(d)
    BY <1>1 DEF Entitled
  <2>2. ASSUME NEW d \in ExecReqs, Entitled(d)
        PROVE  /\ grants[delivery[d].env] = <<env'[delivery[d].env].binding>>
               /\ effects[delivery[d].env] = <<>>
    <3>1. env'[delivery[d].env] = env[delivery[d].env]
      BY <1>3, <1>5, <2>2 DEF Entitled
    <3> QED BY <2>2, <3>1 DEF Inv, DeliveryInv, GrantHeld
  <2>3. ASSUME NEW j \in ApprovalIDs, effects[j] # <<>>
        PROVE  /\ Len(effects[j]) = 1
               /\ env'[j].made /\ reserved[j] > 0
               /\ grants[j] = <<env'[j].binding>>
    BY <1>3, <2>3 DEF Inv, DeliveryInv, GrantHeld
  <2> QED BY <1>1, <2>1, <2>2, <2>3 DEF Inv, DeliveryInv, GrantHeld
<1>8. NonceHeld' /\ ReplayRefused'
  <2>1. \A j \in ApprovalIDs : reserved[j] > 0 => env[j].made
    BY DEF Inv, DeliveryInv, NonceHeld
  <2>2. \A j \in ApprovalIDs : reserved[j] > 1 => reserved[j] > 0
    BY DEF Inv, DeliveryInv, ExecTypeOK
  <2> QED BY <1>1, <1>3, <2>1, <2>2 DEF Inv, DeliveryInv, NonceHeld, ReplayRefused
<1> QED BY <1>4, <1>6, <1>7, <1>8 DEF DeliveryInv

(* After a restart of privexec no delivery is left, and the file has the nonces. *)
LEMMA ExecutorCrashInv ==
    ASSUME Inv, ExecutorCrash
    PROVE  Inv'
<1>1. /\ call' = [r \in Requests |-> IF r \in ExecReqs THEN NoCall ELSE call[r]]
      /\ UNCHANGED <<clock, file, yes, spent, grants>>
      /\ delivery' = [d \in ExecReqs |-> NoDelivery] /\ nonceMem' = nonceDisk
      /\ UNCHANGED <<env, target, nonceDisk, reserved, effects>>
  BY DEF ExecutorCrash
<1>2. StoreInv'
  BY <1>1, Processes, CallsEndInv DEF Inv
<1>3. /\ delivery' \in [ExecReqs -> Delivery]
      /\ \A d \in ExecReqs : delivery'[d].phase = "idle" /\ call'[d].stage = "idle"
  BY <1>1, Moved, Processes, NoCallFacts
<1>4. DeliveryShape'
  BY <1>3 DEF DeliveryShape
<1>5. GrantHeld'
  BY <1>1, <1>3 DEF Inv, DeliveryInv, GrantHeld, Entitled
<1>6. ExecTypeOK'
  BY <1>1, <1>3 DEF Inv, DeliveryInv, ExecTypeOK
<1>7. NonceHeld' /\ ReplayRefused'
  BY <1>1 DEF Inv, DeliveryInv, NonceHeld, ReplayRefused
<1> QED BY <1>2, <1>4, <1>5, <1>6, <1>7 DEF Inv, DeliveryInv

-----------------------------------------------------------------------------
LEMMA ExecuteInv ==
    ASSUME Inv, NEW d \in ExecReqs, Execute(d)
    PROVE  Inv'
<1>0. /\ delivery[d].env \in ApprovalIDs
      /\ env[delivery[d].env].binding \in Bindings
      /\ delivery[d].phase \notin {"validating", "consuming"} => call[d].stage = "idle"
  BY Moved DEF Inv, DeliveryInv, ExecTypeOK, DeliveryShape, Envelope
<1>1. [StoreNext]_storeVars
  <2>1. CASE ValidateApproval(d)
    BY <1>0, <2>1 DEF ValidateApproval, StoreNext, ExecCalls, ExecOps
  <2>2. CASE ConsumeApproval(d)
    BY <1>0, <2>2 DEF ConsumeApproval, StoreNext, ExecCalls, ExecOps
  <2> QED BY <2>1, <2>2 DEF Execute, Accept, ApprovalValidated, Revalidate, Reserve,
          ReserveFails, ApprovalConsumed, Handle, HandlerFails
<1>2. StoreInv'
  BY <1>1, NextInv DEF Inv
<1> SUFFICES DeliveryInv'
  BY <1>2 DEF Inv
<1>3. CASE \E i \in ApprovalIDs : Accept(d, i)
  BY <1>3, AcceptInv
<1>4. CASE ValidateApproval(d)
  <2>1. delivery' \in [ExecReqs -> Delivery] /\ DeliveryShape' /\ GrantHeld'
    BY <1>4, CallMoves DEF ValidateApproval, ExecOps, Phases
  <2>2. UNCHANGED <<clock, env, target, nonceMem, nonceDisk, reserved, effects>>
    BY <1>4 DEF ValidateApproval, Load
  <2> QED BY <2>1, <2>2, QuietMove
<1>5. CASE ConsumeApproval(d)
  <2>1. delivery' \in [ExecReqs -> Delivery] /\ DeliveryShape' /\ GrantHeld'
    BY <1>5, CallMoves DEF ConsumeApproval, ExecOps, Phases
  <2>2. UNCHANGED <<clock, env, target, nonceMem, nonceDisk, reserved, effects>>
    BY <1>5 DEF ConsumeApproval, Load
  <2> QED BY <2>1, <2>2, QuietMove
<1>6. CASE ApprovalValidated(d) \/ Revalidate(d) \/ ApprovalConsumed(d) \/ HandlerFails(d)
  <2>1. /\ UNCHANGED <<clock, call, grants, env, target, nonceMem, nonceDisk, reserved, effects>>
        /\ call[d].stage = "idle" /\ delivery[d].phase # "idle"
    BY <1>0, <1>6 DEF ApprovalValidated, Revalidate, ApprovalConsumed, HandlerFails, storeVars
  <2>2. \/ Respond(d)
        \/ \E p \in {"approved", "unchanged"} : Enter(d, p)
        \/ Enter(d, "handling") /\ Entitled(d)
    BY <1>6 DEF ApprovalValidated, Revalidate, ApprovalConsumed, HandlerFails, Entitled
  <2>3. delivery' \in [ExecReqs -> Delivery] /\ DeliveryShape' /\ GrantHeld'
    <3>1. CASE Respond(d)
      BY <2>1, <3>1, RespondMoves
    <3>2. ASSUME NEW p \in {"approved", "unchanged"}, Enter(d, p)
          PROVE  delivery' \in [ExecReqs -> Delivery] /\ DeliveryShape' /\ GrantHeld'
      BY <2>1, <3>2, EnterMoves DEF Phases
    <3>3. CASE Enter(d, "handling") /\ Entitled(d)
      BY <2>1, <3>3, EnterMoves DEF Phases
    <3> QED BY <2>2, <3>1, <3>2, <3>3
  <2> QED BY <2>1, <2>3, QuietMove
<1>7. CASE Reserve(d)
  BY <1>7, ReserveInv
<1>8. CASE ReserveFails(d)
  BY <1>8, ReserveFailsInv
<1>9. CASE Handle(d)
  BY <1>9, HandleInv
<1> QED BY <1>3, <1>4, <1>5, <1>6, <1>7, <1>8, <1>9 DEF Execute

(* The server calls the approval store. *)
LEMMA ServerStepInv ==
    ASSUME Inv, NEW r \in ServerReqs, ServerCalls(r), UNCHANGED execVars
    PROVE  Inv'
<1>1. StoreInv'
  BY NextInv DEF Inv, StoreNext
<1>2. /\ UNCHANGED <<clock, grants>>
      /\ \E c : call' = [call EXCEPT ![r] = c]
  BY DEF ServerCalls, Create, Load, ListStart, Return
<1>3. \A d \in ExecReqs : call'[d] = call[d]
  BY <1>2, Processes DEF Inv, StoreInv, StoreTypeOK
<1>4. clock \in Nat
  BY DEF Inv, StoreInv, StoreTypeOK
<1> QED BY <1>1, <1>2, <1>3, <1>4, ElsewhereInv DEF Inv

LEMMA ExecInitInv == Init => Inv
<1> SUFFICES ASSUME Init PROVE Inv
  OBVIOUS
<1>1. StoreInv
  BY InitInv DEF Init
<1>2. NoEnvelope \in Envelope /\ NoDelivery \in Delivery /\ NoDelivery.phase = "idle"
  BY StoreAssumption
     DEF NoEnvelope, Envelope, NoDelivery, Delivery, Phases, AnyBinding, AnyID
<1>3. DOMAIN NoNonces = {} /\ 0 \in 0..MaxTarget
  BY ExecutorAssumption DEF NoNonces
<1>4. ExecTypeOK
  BY <1>2, <1>3 DEF Init, ExecTypeOK
<1>5. \A d \in ExecReqs : call[d].stage = "idle" /\ delivery[d].phase = "idle"
  BY <1>2, NoCallFacts, Processes DEF Init, StoreInit
<1>6. DeliveryShape /\ GrantHeld
  BY <1>5 DEF Init, DeliveryShape, GrantHeld, Entitled
<1>7. NonceHeld /\ ReplayRefused
  BY DEF Init, NonceHeld, ReplayRefused
<1> QED BY <1>1, <1>4, <1>6, <1>7 DEF Inv, DeliveryInv

(* The invariant is inductive: one step per action of the executor and of its surroundings. *)
LEMMA ExecNextInv == Inv /\ [Next]_vars => Inv'
<1> SUFFICES ASSUME Inv, [Next]_vars PROVE Inv'
  OBVIOUS
<1>0. clock \in Nat
  BY DEF Inv, StoreInv, StoreTypeOK
<1>1. ASSUME NEW i \in ApprovalIDs, NEW b \in Bindings, Seal(i, b) PROVE Inv'
  <2>1. [StoreNext]_storeVars
    BY <1>1 DEF Seal
  <2> QED BY <1>1, <2>1, SealInv, NextInv DEF Inv
<1>2. ASSUME NEW r \in ServerReqs, NEW i \in ApprovalIDs, Ask(r, i) PROVE Inv'
  <2>1. env[i].binding \in Bindings
    BY DEF Inv, DeliveryInv, ExecTypeOK, Envelope
  <2>2. ServerCalls(r) /\ UNCHANGED execVars
    BY <1>2, <2>1 DEF Ask, ServerCalls
  <2> QED BY <2>2, ServerStepInv
<1>3. ASSUME NEW r \in ServerReqs, Answer(r) PROVE Inv'
  BY <1>3, ServerStepInv DEF Answer, ServerCalls
<1>4. CASE StoreStep
  <2>1. PICK r \in Requests : CallStep(r)
    BY <1>4 DEF StoreStep
  <2>2. UNCHANGED execVars
    BY <1>4 DEF StoreStep
  <2>3. StoreInv'
    BY <2>1, NextInv DEF Inv, StoreNext
  <2> QED BY <2>1, <2>2, <2>3, StoreStepInv DEF Inv
<1>5. ASSUME NEW d \in ExecReqs, Execute(d) PROVE Inv'
  BY <1>5, ExecuteInv
<1>6. CASE TargetChanges
  <2>1. /\ target' \in 0..MaxTarget
        /\ UNCHANGED <<storeVars, env, delivery, nonceMem, nonceDisk, reserved, effects>>
    BY <1>6, ExecutorAssumption DEF TargetChanges, Inv, DeliveryInv, ExecTypeOK
  <2>2. StoreInv'
    BY <2>1, NextInv DEF Inv
  <2>3. DeliveryInv'
    BY <2>1 DEF Inv, DeliveryInv, ExecTypeOK, DeliveryShape, GrantHeld, Entitled, NonceHeld,
       ReplayRefused, storeVars
  <2> QED BY <2>2, <2>3 DEF Inv
<1>7. CASE ExecutorCrash
  BY <1>7, ExecutorCrashInv
<1>8. CASE ServerCrash
  <2>1. StoreInv'
    BY <1>8, NextInv DEF ServerCrash, StoreNext, Inv
  <2>2. /\ UNCHANGED <<execVars, clock, grants>>
        /\ \A d \in ExecReqs : call'[d] = call[d]
    BY <1>8, Processes DEF ServerCrash, Crash
  <2> QED BY <1>0, <2>1, <2>2, ElsewhereInv DEF Inv
<1>9. CASE Time
  <2>1. StoreInv'
    BY <1>9, NextInv DEF Time, StoreNext, Inv
  <2>2. /\ UNCHANGED <<execVars, grants, call>> /\ clock' = clock + 1
    BY <1>9 DEF Time, Tick
  <2> QED BY <1>0, <2>1, <2>2, ElsewhereInv DEF Inv
<1>10. CASE UNCHANGED vars
  <2>1. UNCHANGED <<storeVars, execVars, clock, grants, call>>
    BY <1>10 DEF vars, storeVars
  <2>2. StoreInv'
    BY <2>1, NextInv DEF Inv
  <2> QED BY <1>0, <2>1, <2>2, ElsewhereInv DEF Inv
<1> QED BY <1>1, <1>2, <1>3, <1>4, <1>5, <1>6, <1>7, <1>8, <1>9, <1>10 DEF Next

(* The executor and the approval store together keep the inductive invariant. *)
LEMMA ExecutorInvariant == Spec => []Inv
BY ExecInitInv, ExecNextInv, PTL DEF Spec

(***************************************************************************)
(* The executor keeps its invariant through deliveries of any number, the  *)
(* purge and the reload of the nonces, failed saves, and crashes of either *)
(* process: a valid envelope is not used twice, and every effect is the    *)
(* one that was approved, consumed on disk before it (Executor.Execute).   *)
(***************************************************************************)
THEOREM ExecInvHolds == Spec => []ExecInv
<1>1. Inv => ExecInv
  BY EffectsAuthorised DEF Inv, DeliveryInv, ExecInv, StoreInv
<1> QED BY <1>1, ExecutorInvariant, PTL

(***************************************************************************)
(* No envelope has two effects, however often it is delivered and wherever *)
(* a process ends: a grant of the approval store is held by one delivery,  *)
(* which gives it up with its effect (Executor.Execute).                   *)
(***************************************************************************)
THEOREM AtMostOneEffectHolds == Spec => []AtMostOneEffect
<1>1. Inv => AtMostOneEffect
  <2> SUFFICES ASSUME Inv, NEW i \in ApprovalIDs PROVE Len(effects[i]) <= 1
    BY DEF AtMostOneEffect
  <2>1. CASE effects[i] = <<>>
    BY <2>1
  <2>2. CASE effects[i] # <<>>
    <3>1. Len(effects[i]) = 1
      BY <2>2 DEF Inv, DeliveryInv, GrantHeld
    <3> QED BY <3>1
  <2> QED BY <2>1, <2>2
<1> QED BY <1>1, ExecutorInvariant, PTL
=============================================================================
