---------------------------- MODULE ApprovalStore ----------------------------
(***************************************************************************)
(* internal/approval: the directory of approval records that safeops-      *)
(* server (Create, Get, List, Resolve) and safeops-privexec (Validate,     *)
(* Consume) share.  Store.mu serialises the calls of one process only;     *)
(* between the processes the single atomic step is the rename that ends    *)
(* save.  A call is therefore several steps: load reads the file, the      *)
(* decision reads the clock, save replaces the file, and the other process *)
(* may act between any two of them.                                        *)
(***************************************************************************)
EXTENDS Naturals, Sequences, FiniteSets

CONSTANTS
    ApprovalIDs,    \* identifiers id.New("approval") can return
    Bindings,       \* exact bindings (task, digests, tool, nonce ...) told apart
    ServerReqs,     \* goroutines of safeops-server that call the store
    ExecReqs,       \* goroutines of safeops-privexec that call the store
    TTLs,           \* lifetimes Create is given
    MaxTime         \* bound on the clock

ASSUME StoreAssumption ==
    /\ ApprovalIDs # {} /\ Bindings # {}
    /\ ServerReqs \cap ExecReqs = {}
    /\ TTLs \subseteq Nat \ {0}
    /\ MaxTime \in Nat

VARIABLES
    clock,      \* the wall clock both processes read
    file,       \* approval id -> the record on disk
    call,       \* goroutine -> the store call it is in
    yes,        \* history: ids ever saved as APPROVED
    spent,      \* history: ids ever saved as CONSUMED
    grants      \* history: id -> bindings for which Consume returned nil

storeVars == <<clock, file, call, yes, spent, grants>>

Requests == ServerReqs \cup ExecReqs

Statuses == {"PENDING", "APPROVED", "REJECTED", "CONSUMED", "EXPIRED"}

(***************************************************************************)
(* A record; status ABSENT stands for a file that does not exist.  Reason, *)
(* CreatedAt, ResolvedAt and ConsumedAt decide nothing and are left out.   *)
(***************************************************************************)
Record ==
    [status : Statuses \cup {"ABSENT"}, binding : Bindings, expires : Nat]

AnyBinding == CHOOSE b \in Bindings : TRUE
AnyID == CHOOSE i \in ApprovalIDs : TRUE

NoRecord == [status |-> "ABSENT", binding |-> AnyBinding, expires |-> 0]

ServerOps == {"create", "get", "list", "approve", "reject"}
ExecOps == {"validate", "consume"}
Ops == ServerOps \cup ExecOps \cup {"none"}

(***************************************************************************)
(* idle    no call, or the last one returned (ok tells its outcome)        *)
(* built   Create has stamped the record and waits for the mutex           *)
(* listing List holds the mutex between two entries of the directory       *)
(* loaded  the mutex is held, rec is the record as it was read             *)
(* saving  the mutex is held, rec is the record to be written              *)
(***************************************************************************)
Stages == {"idle", "built", "listing", "loaded", "saving"}
Holding == {"listing", "loaded", "saving"}

Call ==
    [op : Ops, stage : Stages, id : ApprovalIDs, want : Bindings,
     rec : Record, todo : SUBSET ApprovalIDs, ok : BOOLEAN]

NoCall ==
    [op |-> "none", stage |-> "idle", id |-> AnyID, want |-> AnyBinding,
     rec |-> NoRecord, todo |-> {}, ok |-> FALSE]

(* Store.mu: one call at a time among the goroutines of a process. *)
SameProcess(r, q) == (r \in ServerReqs) = (q \in ServerReqs)
(* Mutant: the store has no mutex. *)
MutexFreeMissing(r) == TRUE
MutexFree(r) ==
    \A q \in Requests : SameProcess(r, q) => call[q].stage \notin Holding

StoreTypeOK ==
    /\ clock \in 0..MaxTime
    /\ file \in [ApprovalIDs -> Record]
    /\ call \in [Requests -> Call]
    /\ yes \subseteq ApprovalIDs
    /\ spent \subseteq ApprovalIDs
    /\ grants \in [ApprovalIDs -> Seq(Bindings)]

StoreInit ==
    /\ clock = 0
    /\ file = [i \in ApprovalIDs |-> NoRecord]
    /\ call = [r \in Requests |-> NoCall]
    /\ yes = {}
    /\ spent = {}
    /\ grants = [i \in ApprovalIDs |-> <<>>]

-----------------------------------------------------------------------------
(* The call returns and the mutex is released; only the outcome is kept. *)
Return(r, ok) ==
    call' = [call EXCEPT ![r] = [NoCall EXCEPT !.ok = ok]]

(* A save is due: the decision made the record s. *)
ToSave(r, s, ok) ==
    call' = [call EXCEPT ![r].stage = "saving", ![r].rec.status = s, ![r].ok = ok]

(***************************************************************************)
(* Create stamps the record before it takes the mutex.  The id is new: no  *)
(* file has it and no other Create in progress drew it.                    *)
(***************************************************************************)
FreshID(i) ==
    /\ file[i].status = "ABSENT"
    /\ \A q \in Requests : call[q].op = "create" /\ call[q].id = i
                              => call[q].stage \notin {"built", "saving"}

Create(r, i, b, ttl) ==
    /\ r \in ServerReqs
    /\ call[r].stage = "idle"
    /\ FreshID(i)
    /\ call' = [call EXCEPT ![r] =
                  [NoCall EXCEPT !.op = "create", !.stage = "built", !.id = i,
                     !.rec = [status |-> "PENDING", binding |-> b,
                              expires |-> clock + ttl]]]
    /\ UNCHANGED <<clock, file, yes, spent, grants>>

(* Mutant: Create writes without the mutex. *)
CreateUnlocked(r) ==
    /\ call[r].stage = "built"
    /\ call' = [call EXCEPT ![r].stage = "saving", ![r].ok = TRUE]
    /\ UNCHANGED <<clock, file, yes, spent, grants>>

CreateLock(r) ==
    /\ call[r].stage = "built"
    /\ MutexFree(r)
    /\ call' = [call EXCEPT ![r].stage = "saving", ![r].ok = TRUE]
    /\ UNCHANGED <<clock, file, yes, spent, grants>>

(***************************************************************************)
(* Get, Resolve, Validate and Consume take the mutex and load the record;  *)
(* a missing file is an error.                                             *)
(***************************************************************************)
Load(r, op, i, b) ==
    /\ op \in (IF r \in ServerReqs THEN {"get", "approve", "reject"} ELSE ExecOps)
    /\ call[r].stage = "idle"
    /\ MutexFree(r)
    /\ IF file[i].status = "ABSENT"
       THEN Return(r, FALSE)
       ELSE call' = [call EXCEPT ![r] =
                       [NoCall EXCEPT !.op = op, !.stage = "loaded", !.id = i,
                          !.want = b, !.rec = file[i]]]
    /\ UNCHANGED <<clock, file, yes, spent, grants>>

(* List reads the directory once and then treats one entry after another. *)
ListStart(r) ==
    /\ r \in ServerReqs
    /\ call[r].stage = "idle"
    /\ MutexFree(r)
    /\ call' = [call EXCEPT ![r] =
                  [NoCall EXCEPT !.op = "list", !.stage = "listing",
                     !.todo = {i \in ApprovalIDs : file[i].status # "ABSENT"}]]
    /\ UNCHANGED <<clock, file, yes, spent, grants>>

ListEntry(r) ==
    /\ call[r].stage = "listing"
    /\ \E i \in call[r].todo :
         call' = [call EXCEPT ![r].stage = "loaded", ![r].id = i,
                    ![r].rec = file[i], ![r].todo = @ \ {i}]
    /\ UNCHANGED <<clock, file, yes, spent, grants>>

ListReturn(r) ==
    /\ call[r].stage = "listing"
    /\ call[r].todo = {}
    /\ Return(r, TRUE)
    /\ UNCHANGED <<clock, file, yes, spent, grants>>

-----------------------------------------------------------------------------
(* The decisions, each reading the clock after the load. *)

(* expire: Get and List close a PENDING record whose time has come. *)
Expire(r) ==
    /\ call[r].stage = "loaded"
    /\ call[r].op \in {"get", "list"}
    /\ IF call[r].rec.status # "PENDING" \/ clock < call[r].rec.expires
       THEN IF call[r].op = "list"
            THEN call' = [call EXCEPT ![r].stage = "listing"]
            ELSE Return(r, TRUE)
       ELSE ToSave(r, "EXPIRED", TRUE)
    /\ UNCHANGED <<clock, file, yes, spent, grants>>

Desired(op) == IF op = "approve" THEN "APPROVED" ELSE "REJECTED"

(* Mutant: Resolve overrides an earlier answer. *)
ResolveOverrides(r) ==
    /\ call[r].stage = "loaded"
    /\ call[r].op \in {"approve", "reject"}
    /\ IF clock >= call[r].rec.expires
       THEN ToSave(r, "EXPIRED", FALSE)
       ELSE ToSave(r, Desired(call[r].op), TRUE)
    /\ UNCHANGED <<clock, file, yes, spent, grants>>

(* Resolve closes any record past its expiry, whatever its status was. *)
Resolve(r) ==
    /\ call[r].stage = "loaded"
    /\ call[r].op \in {"approve", "reject"}
    /\ LET s == call[r].rec.status
           d == Desired(call[r].op)
       IN  IF clock >= call[r].rec.expires
           THEN ToSave(r, "EXPIRED", FALSE)
           ELSE IF s = "PENDING" THEN ToSave(r, d, TRUE) ELSE Return(r, s = d)
    /\ UNCHANGED <<clock, file, yes, spent, grants>>

(* Mutant: the status of the record is not looked at. *)
UsableAnyStatus(c) ==
    /\ clock <= c.rec.expires
    /\ c.rec.binding = c.want

(* The checks Validate and Consume share; at the instant of expiry they pass. *)
Usable(c) ==
    /\ clock <= c.rec.expires
    /\ c.rec.status = "APPROVED"
    /\ c.rec.binding = c.want

Validate(r) ==
    /\ call[r].stage = "loaded"
    /\ call[r].op = "validate"
    /\ Return(r, Usable(call[r]))
    /\ UNCHANGED <<clock, file, yes, spent, grants>>

Consume(r) ==
    /\ call[r].stage = "loaded"
    /\ call[r].op = "consume"
    /\ IF Usable(call[r]) THEN ToSave(r, "CONSUMED", TRUE) ELSE Return(r, FALSE)
    /\ UNCHANGED <<clock, file, yes, spent, grants>>

-----------------------------------------------------------------------------
(* The rename: from here on both processes read the new record. *)
Rename(r) ==
    LET c == call[r] IN
    /\ file' = [file EXCEPT ![c.id] = c.rec]
    /\ yes' = IF c.rec.status = "APPROVED" THEN yes \cup {c.id} ELSE yes
    /\ spent' = IF c.rec.status = "CONSUMED" THEN spent \cup {c.id} ELSE spent

(* save succeeds; List goes on with the next entry, the others return. *)
Save(r) ==
    /\ call[r].stage = "saving"
    /\ Rename(r)
    /\ grants' = IF call[r].op = "consume"
                 THEN [grants EXCEPT ![call[r].id] = Append(@, call[r].want)]
                 ELSE grants
    /\ IF call[r].op = "list"
       THEN call' = [call EXCEPT ![r].stage = "listing"]
       ELSE Return(r, call[r].ok)
    /\ UNCHANGED clock

(* save fails before the rename: the file keeps its old contents. *)
SaveFails(r) ==
    /\ call[r].stage = "saving"
    /\ Return(r, FALSE)
    /\ UNCHANGED <<clock, file, yes, spent, grants>>

(* save fails after the rename, in the sync of the directory. *)
SyncFails(r) ==
    /\ call[r].stage = "saving"
    /\ Rename(r)
    /\ Return(r, FALSE)
    /\ UNCHANGED <<clock, grants>>

-----------------------------------------------------------------------------
(* A process dies: its calls are gone, the directory stays as it is. *)
Crash(process) ==
    /\ \E r \in process : call[r].stage # "idle"
    /\ call' = [r \in Requests |-> IF r \in process THEN NoCall ELSE call[r]]
    /\ UNCHANGED <<clock, file, yes, spent, grants>>

Tick ==
    /\ clock < MaxTime
    /\ clock' = clock + 1
    /\ UNCHANGED <<file, call, yes, spent, grants>>

ServerCalls(r) ==
    \/ \E i \in ApprovalIDs, b \in Bindings, ttl \in TTLs : Create(r, i, b, ttl)
    \/ \E op \in {"get", "approve", "reject"}, i \in ApprovalIDs :
           Load(r, op, i, AnyBinding)
    \/ ListStart(r)

ExecCalls(r) ==
    \E op \in ExecOps, i \in ApprovalIDs, b \in Bindings : Load(r, op, i, b)

(* A call in progress takes its next step. *)
CallStep(r) ==
    \/ CreateLock(r)
    \/ ListEntry(r)
    \/ ListReturn(r)
    \/ Expire(r)
    \/ Resolve(r)
    \/ Validate(r)
    \/ Consume(r)
    \/ Save(r)
    \/ SaveFails(r)
    \/ SyncFails(r)

StoreNext ==
    \/ \E r \in ServerReqs : ServerCalls(r)
    \/ \E r \in ExecReqs : ExecCalls(r)
    \/ \E r \in Requests : CallStep(r)
    \/ Crash(ServerReqs)
    \/ Crash(ExecReqs)
    \/ Tick

StoreSpec == StoreInit /\ [][StoreNext]_storeVars

-----------------------------------------------------------------------------
(* Properties. *)

(***************************************************************************)
(* SingleConsumption: over all goroutines, crashes, failed saves and races *)
(* with the API, Consume returns nil at most once for an approval, for the *)
(* binding that was shown to the operator, and only after a Resolve saved  *)
(* APPROVED for it (IMPLEMENT.md: "exact-bound, single-consumption").      *)
(***************************************************************************)
SingleConsumption ==
    \A i \in ApprovalIDs :
        /\ Len(grants[i]) <= 1
        /\ grants[i] # <<>> => i \in yes /\ grants[i] = <<file[i].binding>>

(***************************************************************************)
(* NoResurrection: although load, decision and save are separate steps of  *)
(* two unsynchronised processes, no save ever revives an approval: once a  *)
(* record left PENDING it is never PENDING again, REJECTED and CONSUMED    *)
(* never turn into APPROVED, and only APPROVED (or a record the API        *)
(* expired meanwhile) turns into CONSUMED.                                 *)
(***************************************************************************)
MayFollow(s) ==
    CASE s = "ABSENT" -> {"PENDING"}
      [] s = "PENDING" -> {"APPROVED", "REJECTED", "EXPIRED"}
      [] s = "APPROVED" -> {"CONSUMED", "EXPIRED"}
      [] s = "REJECTED" -> {"EXPIRED"}
      [] s = "CONSUMED" -> {"EXPIRED"}
      [] s = "EXPIRED" -> {"CONSUMED"}

NoResurrectionStep ==
    \A i \in ApprovalIDs :
        file'[i] # file[i] =>
            /\ file'[i].status \in MayFollow(file[i].status)
            /\ file[i].status # "ABSENT" => /\ file'[i].binding = file[i].binding
                                            /\ file'[i].expires = file[i].expires
            /\ file'[i].status = "CONSUMED" => i \in yes /\ i \notin spent

(* NoResurrection: every step of the store is such a step. *)
NoResurrection == [][NoResurrectionStep]_storeVars

(* The ledger entry of an approval, from its history and its file. *)
LedgerView ==
    [i \in ApprovalIDs |->
        IF grants[i] # <<>> THEN "granted"
        ELSE IF i \in spent THEN "forfeited"
        ELSE IF i \in yes THEN "approved"
        ELSE IF file[i].status = "ABSENT" THEN "absent"
        ELSE IF file[i].status = "PENDING" THEN "open"
        ELSE "refused"]

Ledger == INSTANCE ApprovalLedger WITH ledger <- LedgerView

(***************************************************************************)
(* ImplementsLedger: seen through its history the store is the ledger of   *)
(* module ApprovalLedger, one question, one answer, one execution.         *)
(***************************************************************************)
ImplementsLedger == Ledger!LedgerSpec

-----------------------------------------------------------------------------
(***************************************************************************)
(* The inductive invariant behind these: what each call in progress may    *)
(* rely on although the other process is not excluded.                     *)
(***************************************************************************)
OneHolder ==
    \A r, q \in Requests :
        /\ SameProcess(r, q)
        /\ call[r].stage \in Holding
        /\ call[q].stage \in Holding
        => r = q

(* Which operations reach which stage, and what they are about to write. *)
StageShape ==
    \A r \in Requests :
        /\ call[r].stage = "built" =>
              /\ r \in ServerReqs
              /\ call[r].op = "create"
              /\ call[r].rec.status = "PENDING"
        /\ call[r].stage = "listing" => r \in ServerReqs /\ call[r].op = "list"
        /\ call[r].stage = "loaded" =>
              call[r].op \in (IF r \in ServerReqs THEN ServerOps \ {"create"}
                              ELSE ExecOps)
        /\ call[r].stage = "saving" =>
              IF r \in ServerReqs
              THEN \/ call[r].op = "create" /\ call[r].rec.status = "PENDING"
                   \/ call[r].op \in {"get", "list"} /\ call[r].rec.status = "EXPIRED"
                   \/ /\ call[r].op \in {"approve", "reject"}
                      /\ call[r].rec.status \in {"APPROVED", "REJECTED", "EXPIRED"}
              ELSE /\ call[r].op = "consume"
                   /\ call[r].rec.status = "CONSUMED"
                   /\ call[r].rec.binding = call[r].want

(* Only the server ends a question, and it holds its mutex meanwhile. *)
ServerView ==
    \A r \in ServerReqs :
        /\ call[r].stage = "loaded" /\ call[r].rec.status = "PENDING"
              => file[call[r].id].status = "PENDING"
        /\ call[r].stage = "saving" /\ call[r].rec.status \in {"APPROVED", "REJECTED"}
              => file[call[r].id].status = "PENDING"

(* Only the executor spends a yes; the server may expire it meanwhile. *)
ExecView ==
    \A r \in ExecReqs :
        \/ call[r].stage = "loaded" /\ call[r].rec.status = "APPROVED"
        \/ call[r].stage = "saving"
        => /\ call[r].id \in yes \ spent
           /\ file[call[r].id].status \in {"APPROVED", "EXPIRED"}

(* A record that was read still has its binding and expiry on disk. *)
LoadedView ==
    \A r \in Requests :
        call[r].stage \in {"loaded", "saving"} /\ call[r].op # "create" =>
            /\ file[call[r].id].status # "ABSENT"
            /\ file[call[r].id].binding = call[r].rec.binding
            /\ file[call[r].id].expires = call[r].rec.expires

Creating(r) == call[r].op = "create" /\ call[r].stage \in {"built", "saving"}

CreateView ==
    \A r \in Requests :
        Creating(r) =>
            /\ file[call[r].id].status = "ABSENT"
            /\ \A q \in Requests : Creating(q) /\ call[q].id = call[r].id => q = r

ListView ==
    \A r \in Requests :
        call[r].op = "list" => \A i \in call[r].todo : file[i].status # "ABSENT"

FileHistory ==
    \A i \in ApprovalIDs :
        /\ file[i].status \in {"ABSENT", "PENDING", "REJECTED"} => i \notin yes
        /\ file[i].status = "APPROVED" => i \in yes \ spent
        /\ file[i].status = "CONSUMED" => i \in spent
        /\ i \in spent => i \in yes
        /\ i \notin spent => grants[i] = <<>>
        /\ grants[i] \in {<<>>, <<file[i].binding>>}

(* StoreInv: all of it, the inductive invariant of both processes' calls. *)
StoreInv ==
    /\ StoreTypeOK
    /\ OneHolder
    /\ StageShape
    /\ ServerView
    /\ ExecView
    /\ LoadedView
    /\ CreateView
    /\ ListView
    /\ FileHistory
=============================================================================
