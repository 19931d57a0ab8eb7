------------------------------ MODULE Executor ------------------------------
(***************************************************************************)
(* internal/executor: the privileged process that turns a signed           *)
(* ActionEnvelope into one change of the system.  Several deliveries of    *)
(* the same envelope may be in progress (two operators confirm, a client   *)
(* that timed out after 20 s sends again); each passes Validator.Validate, *)
(* reserves the nonce, consumes the approval and calls its fixed handler.  *)
(* The approval store is the one of module ApprovalStore, shared with the  *)
(* server; the nonce store is private to the process and survives it.      *)
(*                                                                         *)
(* An envelope is named by its approval id: ActionPreparer.Prepare draws   *)
(* id and nonce together, and both are fresh.  Digest, signature, policy   *)
(* and guard checks are functions of the signed envelope alone and pass    *)
(* for every envelope the server makes, so they leave no trace here.       *)
(***************************************************************************)
EXTENDS ApprovalStore

CONSTANTS
    EnvelopeTTL,    \* lifetime of an envelope, at least that of its approval
    MaxTTL,         \* longest lifetime Validate accepts
    MaxTarget       \* bound on the number of changes of the target

ASSUME ExecutorAssumption ==
    /\ EnvelopeTTL \in Nat /\ MaxTTL \in Nat /\ MaxTarget \in Nat
    /\ \A ttl \in TTLs : ttl <= EnvelopeTTL

VARIABLES
    env,        \* approval id -> its envelope
    target,     \* version of the target: what a snapshot digest tells apart
    delivery,   \* goroutine of privexec -> the Execute call it is in
    nonceMem,   \* NonceStore.used: id -> expiry of a reserved nonce
    nonceDisk,  \* the nonce file
    reserved,   \* history: id -> number of times Reserve returned nil
    effects     \* history: id -> the versions of the target acted upon

execVars == <<env, target, delivery, nonceMem, nonceDisk, reserved, effects>>
vars == <<storeVars, execVars>>

Envelope == [made : BOOLEAN, binding : Bindings, expires : Nat, snapshot : Nat]
NoEnvelope ==
    [made |-> FALSE, binding |-> AnyBinding, expires |-> 0, snapshot |-> 0]

(***************************************************************************)
(* idle       no delivery, or it was answered                              *)
(* accepted   the envelope itself was found well formed and not expired    *)
(* validating inside Approvals.Validate                                    *)
(* approved   approval valid; scope and target are checked next            *)
(* unchanged  target matched the snapshot; the nonce is reserved next      *)
(* reserved   Validate returned; the approval is consumed next             *)
(* consuming  inside Approvals.Consume                                     *)
(* handling   the fixed handler runs                                       *)
(***************************************************************************)
Phases == {"idle", "accepted", "validating", "approved", "unchanged",
           "reserved", "consuming", "handling"}

Delivery == [phase : Phases, env : ApprovalIDs]
NoDelivery == [phase |-> "idle", env |-> AnyID]

(* ExecTypeOK: types, and the horizon of the nonce store: a nonce outlives its envelope. *)
ExecTypeOK ==
    /\ env \in [ApprovalIDs -> Envelope]
    /\ target \in 0..MaxTarget
    /\ delivery \in [ExecReqs -> Delivery]
    /\ \A nonces \in {nonceMem, nonceDisk} :
          /\ DOMAIN nonces \subseteq ApprovalIDs
          /\ \A i \in DOMAIN nonces : env[i].made /\ nonces[i] = env[i].expires
    /\ reserved \in [ApprovalIDs -> Nat]
    /\ effects \in [ApprovalIDs -> Seq(Nat)]

NoNonces == [i \in {} |-> 0]

Init ==
    /\ StoreInit
    /\ env = [i \in ApprovalIDs |-> NoEnvelope]
    /\ target = 0
    /\ delivery = [d \in ExecReqs |-> NoDelivery]
    /\ nonceMem = NoNonces
    /\ nonceDisk = NoNonces
    /\ reserved = [i \in ApprovalIDs |-> 0]
    /\ effects = [i \in ApprovalIDs |-> <<>>]

-----------------------------------------------------------------------------
(* The server's side: seal an envelope, then ask for its approval. *)

(***************************************************************************)
(* ActionPreparer.Prepare stamps the envelope before it calls Create, so   *)
(* with equal lifetimes the approval outlives the envelope.                *)
(***************************************************************************)
Seal(i, b) ==
    /\ ~env[i].made
    /\ env' = [env EXCEPT ![i] = [made |-> TRUE, binding |-> b,
                                  expires |-> clock + EnvelopeTTL,
                                  snapshot |-> target]]
    /\ UNCHANGED <<storeVars, target, delivery, nonceMem, nonceDisk, reserved, effects>>

Ask(r, i) ==
    /\ env[i].made
    /\ \E ttl \in TTLs : Create(r, i, env[i].binding, ttl)
    /\ UNCHANGED execVars

Answer(r) ==
    /\ \/ \E op \in {"get", "approve", "reject"}, i \in ApprovalIDs :
              Load(r, op, i, AnyBinding)
       \/ ListStart(r)
    /\ UNCHANGED execVars

(* A call of either process on the approval store advances. *)
StoreStep ==
    /\ \E r \in Requests : CallStep(r)
    /\ UNCHANGED execVars

-----------------------------------------------------------------------------
(* Executor.Execute. *)

Enter(d, phase) == delivery' = [delivery EXCEPT ![d].phase = phase]
(* Execute returns, with a result or an error. *)
Respond(d) == delivery' = [delivery EXCEPT ![d] = NoDelivery]

(* The checks on the envelope, against the clock read on entry. *)
Accept(d, i) ==
    /\ delivery[d].phase = "idle"
    /\ env[i].made /\ file[i].status # "ABSENT"
    /\ env[i].expires > clock
    /\ env[i].expires <= clock + MaxTTL
    /\ delivery' = [delivery EXCEPT ![d] = [phase |-> "accepted", env |-> i]]
    /\ UNCHANGED <<storeVars, env, target, nonceMem, nonceDisk, reserved, effects>>

ValidateApproval(d) ==
    LET i == delivery[d].env IN
    /\ delivery[d].phase = "accepted"
    /\ Load(d, "validate", i, env[i].binding)
    /\ Enter(d, "validating")
    /\ UNCHANGED <<env, target, nonceMem, nonceDisk, reserved, effects>>

ApprovalValidated(d) ==
    /\ delivery[d].phase = "validating"
    /\ call[d].stage = "idle"
    /\ IF call[d].ok THEN Enter(d, "approved") ELSE Respond(d)
    /\ UNCHANGED <<storeVars, env, target, nonceMem, nonceDisk, reserved, effects>>

(* Targets.Revalidate takes a new snapshot and compares the digests. *)
Revalidate(d) ==
    /\ delivery[d].phase = "approved"
    /\ IF target = env[delivery[d].env].snapshot
       THEN Enter(d, "unchanged")
       ELSE Respond(d)
    /\ UNCHANGED <<storeVars, env, target, nonceMem, nonceDisk, reserved, effects>>

(***************************************************************************)
(* NonceStore.Reserve: purge what has expired, refuse a nonce still held,  *)
(* add it and rewrite the file.  A failed save takes it out of the memory  *)
(* again, though the file may already have it.                             *)
(***************************************************************************)
Live(used) == {i \in DOMAIN used : clock <= used[i]}
Purged(used) == [i \in Live(used) |-> used[i]]
(* Mutant: a nonce is only kept until now. *)
AddingBriefly(used, i) == [j \in Live(used) \cup {i} |->
                              IF j = i THEN clock ELSE used[j]]
Adding(used, i) == [j \in Live(used) \cup {i} |->
                       IF j = i THEN env[i].expires ELSE used[j]]

(* Mutant: the nonce is never written to the file. *)
ReserveInMemory(d) ==
    LET i == delivery[d].env IN
    /\ delivery[d].phase = "unchanged"
    /\ IF i \in Live(nonceMem)
       THEN /\ Respond(d)
            /\ nonceMem' = Purged(nonceMem)
            /\ UNCHANGED reserved
       ELSE /\ Enter(d, "reserved")
            /\ nonceMem' = Adding(nonceMem, i)
            /\ reserved' = [reserved EXCEPT ![i] = @ + 1]
    /\ UNCHANGED <<storeVars, env, target, nonceDisk, effects>>

Reserve(d) ==
    LET i == delivery[d].env IN
    /\ delivery[d].phase = "unchanged"
    /\ IF i \in Live(nonceMem)
       THEN /\ Respond(d)
            /\ nonceMem' = Purged(nonceMem)
            /\ UNCHANGED <<nonceDisk, reserved>>
       ELSE /\ Enter(d, "reserved")
            /\ nonceMem' = Adding(nonceMem, i)
            /\ nonceDisk' = Adding(nonceMem, i)
            /\ reserved' = [reserved EXCEPT ![i] = @ + 1]
    /\ UNCHANGED <<storeVars, env, target, effects>>

ReserveFails(d) ==
    LET i == delivery[d].env IN
    /\ delivery[d].phase = "unchanged"
    /\ i \notin Live(nonceMem)
    /\ Respond(d)
    /\ nonceMem' = Purged(nonceMem)
    /\ nonceDisk' \in {nonceDisk, Adding(nonceMem, i)}
    /\ UNCHANGED <<storeVars, env, target, reserved, effects>>

ConsumeApproval(d) ==
    LET i == delivery[d].env IN
    /\ delivery[d].phase = "reserved"
    /\ Load(d, "consume", i, env[i].binding)
    /\ Enter(d, "consuming")
    /\ UNCHANGED <<env, target, nonceMem, nonceDisk, reserved, effects>>

(* Mutant: the error of Consume is dropped. *)
ConsumeErrorDropped(d) ==
    /\ delivery[d].phase = "consuming"
    /\ call[d].stage = "idle"
    /\ Enter(d, "handling")
    /\ UNCHANGED <<storeVars, env, target, nonceMem, nonceDisk, reserved, effects>>

ApprovalConsumed(d) ==
    /\ delivery[d].phase = "consuming"
    /\ call[d].stage = "idle"
    /\ IF call[d].ok THEN Enter(d, "handling") ELSE Respond(d)
    /\ UNCHANGED <<storeVars, env, target, nonceMem, nonceDisk, reserved, effects>>

(***************************************************************************)
(* The fixed handler acts on the target once and answers; whether it then  *)
(* reports success or a failed verification changes nothing here.          *)
(***************************************************************************)
Handle(d) ==
    LET i == delivery[d].env IN
    /\ delivery[d].phase = "handling"
    /\ target < MaxTarget
    /\ effects' = [effects EXCEPT ![i] = Append(@, target)]
    /\ target' = target + 1
    /\ Respond(d)
    /\ UNCHANGED <<storeVars, env, nonceMem, nonceDisk, reserved>>

(* The handler fails before it touched anything. *)
HandlerFails(d) ==
    /\ delivery[d].phase = "handling"
    /\ Respond(d)
    /\ UNCHANGED <<storeVars, env, target, nonceMem, nonceDisk, reserved, effects>>

-----------------------------------------------------------------------------
(* Somebody else changes the target (external: the machine under care). *)
TargetChanges ==
    /\ target < MaxTarget
    /\ target' = target + 1
    /\ UNCHANGED <<storeVars, env, delivery, nonceMem, nonceDisk, reserved, effects>>

(* privexec dies and comes back: NewNonceStore reads the file. *)
ExecutorCrash ==
    /\ call' = [r \in Requests |-> IF r \in ExecReqs THEN NoCall ELSE call[r]]
    /\ delivery' = [d \in ExecReqs |-> NoDelivery]
    /\ nonceMem' = nonceDisk
    /\ UNCHANGED <<clock, file, yes, spent, grants, env, target, nonceDisk,
                   reserved, effects>>

ServerCrash ==
    /\ Crash(ServerReqs)
    /\ UNCHANGED execVars

Time ==
    /\ Tick
    /\ UNCHANGED execVars

Execute(d) ==
    \/ \E i \in ApprovalIDs : Accept(d, i)
    \/ ValidateApproval(d)
    \/ ApprovalValidated(d)
    \/ Revalidate(d)
    \/ Reserve(d)
    \/ ReserveFails(d)
    \/ ConsumeApproval(d)
    \/ ApprovalConsumed(d)
    \/ Handle(d)
    \/ HandlerFails(d)

Next ==
    \/ \E i \in ApprovalIDs, b \in Bindings : Seal(i, b)
    \/ \E r \in ServerReqs, i \in ApprovalIDs : Ask(r, i)
    \/ \E r \in ServerReqs : Answer(r)
    \/ StoreStep
    \/ \E d \in ExecReqs : Execute(d)
    \/ TargetChanges
    \/ ExecutorCrash
    \/ ServerCrash
    \/ Time

Spec == Init /\ [][Next]_vars

-----------------------------------------------------------------------------
(* Properties. *)

(***************************************************************************)
(* AtMostOneEffect: however often an envelope is delivered, and wherever   *)
(* the executor, the server, a save or the clock interferes, its handler   *)
(* acts on the system at most once.                                        *)
(***************************************************************************)
AtMostOneEffect == \A i \in ApprovalIDs : Len(effects[i]) <= 1

(***************************************************************************)
(* EffectIsAuthorised: when a handler has acted, an operator had approved  *)
(* exactly that envelope, its nonce was reserved, and the consumption was  *)
(* on disk before the change, so no crash can lose it.                     *)
(***************************************************************************)
EffectIsAuthorised ==
    \A i \in ApprovalIDs :
        effects[i] # <<>> =>
            /\ i \in yes \cap spent
            /\ grants[i] = <<env[i].binding>>
            /\ reserved[i] > 0
            /\ file[i].status \in {"CONSUMED", "EXPIRED"}

(***************************************************************************)
(* ReplayRefused: the nonce store alone stops a second use of an envelope  *)
(* for as long as the envelope is valid, across restarts and failed saves. *)
(* After that Reserve may succeed again for a delivery that was accepted   *)
(* in time, and only the approval store stands in its way.                 *)
(***************************************************************************)
ReplayRefused ==
    \A i \in ApprovalIDs : reserved[i] > 1 => clock > env[i].expires

(***************************************************************************)
(* What the deliveries in progress may rely on.                            *)
(***************************************************************************)
DeliveryShape ==
    \A d \in ExecReqs :
        /\ delivery[d].phase # "idle" => env[delivery[d].env].made
        /\ delivery[d].phase \in {"reserved", "consuming", "handling"}
              => reserved[delivery[d].env] > 0
        /\ call[d].stage # "idle" =>
              \/ delivery[d].phase = "validating" /\ call[d].op = "validate"
              \/ /\ delivery[d].phase = "consuming" /\ call[d].op = "consume"
                 /\ call[d].id = delivery[d].env
                 /\ call[d].want = env[delivery[d].env].binding

(* The delivery may act: its Consume has returned nil. *)
Entitled(d) ==
    \/ delivery[d].phase = "handling"
    \/ delivery[d].phase = "consuming" /\ call[d].stage = "idle" /\ call[d].ok

(* A grant of the approval store is held by one delivery, or was used by one. *)
GrantHeld ==
    /\ \A d \in ExecReqs : Entitled(d) =>
          /\ grants[delivery[d].env] = <<env[delivery[d].env].binding>>
          /\ effects[delivery[d].env] = <<>>
    /\ \A d, e \in ExecReqs :
          Entitled(d) /\ Entitled(e) /\ delivery[d].env = delivery[e].env => d = e
    /\ \A i \in ApprovalIDs : effects[i] # <<>> =>
          /\ Len(effects[i]) = 1
          /\ env[i].made /\ reserved[i] > 0
          /\ grants[i] = <<env[i].binding>>

(* A nonce that was reserved is in memory and in the file while its envelope is valid. *)
NonceHeld ==
    \A i \in ApprovalIDs : reserved[i] > 0 =>
        /\ env[i].made
        /\ clock > env[i].expires \/ i \in DOMAIN nonceMem \cap DOMAIN nonceDisk

(***************************************************************************)
(* ExecInv: types, the purged nonce store included; no second use of a     *)
(* valid envelope; and every effect is one that an operator allowed.  With *)
(* what the deliveries rely on it is inductive (ExecutorProofs).           *)
(***************************************************************************)
ExecInv ==
    /\ ExecTypeOK
    /\ DeliveryShape
    /\ GrantHeld
    /\ NonceHeld
    /\ ReplayRefused
    /\ EffectIsAuthorised
=============================================================================
