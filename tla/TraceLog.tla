------------------------------ MODULE TraceLog ------------------------------
(***************************************************************************)
(* internal/trace: the audit log of one task, a file of hash-chained lines *)
(* and a head file that commits to a prefix of it.  Writer.mu lets one     *)
(* call at a time touch them; what happens between two of its writes is a  *)
(* failed write, the end of the process or a loss of power.                *)
(*                                                                         *)
(* SHA-256 is taken to be injective, so a hash is the prefix it covers and *)
(* a head (count and hash) is that prefix.                                 *)
(***************************************************************************)
EXTENDS Naturals, Sequences, SequencesExt

CONSTANTS
    Payloads,       \* events told apart
    MaxEvents,      \* bound on the lines of the file
    MaxFaults,      \* bound on failed writes
    MaxCrashes,     \* bound on the ends of the process
    MaxPowerLosses  \* bound on losses of power

ASSUME TraceAssumption ==
    /\ Payloads # {}
    /\ {MaxEvents, MaxFaults, MaxCrashes, MaxPowerLosses} \subseteq Nat

VARIABLES
    lines,      \* the complete lines, as the kernel shows them
    synced,     \* how many of them a loss of power spares
    tail,       \* does an incomplete line follow them?
    head,       \* the head file
    op,         \* the call that holds the mutex
    acked,      \* history: <<sequence, event>> for which Append returned nil
    tampered,   \* history: was a committed line deleted?
    faults, crashes, losses

vars == <<lines, synced, tail, head, op, acked, tampered, faults, crashes, losses>>

AnyPayload == CHOOSE p \in Payloads : TRUE
NoHead == [there |-> FALSE, of |-> <<>>]
HeadOf(s) == [there |-> TRUE, of |-> s]

(***************************************************************************)
(* down     no process          refused   NewWriter failed, no server      *)
(* idle     the mutex is free   the rest  steps of recoverLocked and of    *)
(*                                        Append, in this order            *)
(***************************************************************************)
Stages == {"down", "refused", "idle", "recover", "truncate", "anchor",
           "prepare", "write", "sync", "commit"}
Op == [stage : Stages, event : Payloads, boot : BOOLEAN]

(* The types. *)
TraceTypeOK ==
    /\ lines \in Seq(Payloads) /\ Len(lines) <= MaxEvents
    /\ synced \in 0..Len(lines)
    /\ tail \in BOOLEAN /\ tampered \in BOOLEAN
    /\ head \in [there : BOOLEAN, of : Seq(Payloads)]
    /\ op \in Op /\ losses \in Nat
    /\ acked \subseteq (1..MaxEvents) \X Payloads

Init ==
    /\ lines = <<>> /\ synced = 0 /\ tail = FALSE /\ head = NoHead
    /\ op = [stage |-> "idle", event |-> AnyPayload, boot |-> FALSE]
    /\ acked = {} /\ tampered = FALSE
    /\ faults = 0 /\ crashes = 0 /\ losses = 0

-----------------------------------------------------------------------------
Goto(stage) == op' = [op EXCEPT !.stage = stage]
Env == UNCHANGED <<tampered, crashes, losses>>

(* NewWriter recovers every trace of the directory. *)
NewWriter ==
    /\ op.stage = "down"
    /\ op' = [op EXCEPT !.stage = "recover", !.boot = TRUE]
    /\ Env /\ UNCHANGED <<lines, synced, tail, head, acked, faults>>

AppendStart(e) ==
    /\ op.stage = "idle"
    /\ Len(lines) < MaxEvents
    /\ op' = [stage |-> "recover", event |-> e, boot |-> FALSE]
    /\ Env /\ UNCHANGED <<lines, synced, tail, head, acked, faults>>

(***************************************************************************)
(* recoverLocked reads head and lines; bytes without a head, or a head     *)
(* that is not a prefix of the lines, are an error.                        *)
(***************************************************************************)
Consistent ==
    /\ head.there \/ (lines = <<>> /\ ~tail)
    /\ IsPrefix(head.of, lines)

(* Mutant: a file shorter than the head is accepted. *)
RecoverShort ==
    /\ op.stage = "recover"
    /\ Goto(IF tail THEN "truncate" ELSE "anchor")
    /\ head' = [head EXCEPT !.of = IF IsPrefix(@, lines) THEN @ ELSE lines]
    /\ Env /\ UNCHANGED <<lines, synced, tail, acked, faults>>

Recover ==
    /\ op.stage = "recover"
    /\ Goto(IF Consistent THEN IF tail THEN "truncate" ELSE "anchor"
            ELSE IF op.boot THEN "refused" ELSE "idle")
    /\ Env /\ UNCHANGED <<lines, synced, tail, head, acked, faults>>

(* Mutant: the incomplete line stays. *)
TruncateSkipped ==
    /\ op.stage = "truncate"
    /\ Goto("anchor")
    /\ Env /\ UNCHANGED <<lines, synced, tail, head, acked, faults>>

(* The incomplete line is cut off and the file synced. *)
Truncate ==
    /\ op.stage = "truncate"
    /\ tail' = FALSE
    /\ synced' = Len(lines)
    /\ Goto("anchor")
    /\ Env /\ UNCHANGED <<lines, head, acked, faults>>

(* Complete lines beyond the head are adopted. *)
Anchor ==
    /\ op.stage = "anchor"
    /\ head' = IF Len(lines) > Len(head.of) THEN HeadOf(lines) ELSE head
    /\ Goto(IF op.boot THEN "idle" ELSE "prepare")
    /\ Env /\ UNCHANGED <<lines, synced, tail, acked, faults>>

(* Mutant: the first line is written without a head. *)
PrepareNothing ==
    /\ op.stage = "prepare"
    /\ Goto("write")
    /\ Env /\ UNCHANGED <<lines, synced, tail, head, acked, faults>>

(* An empty head is there before the first line. *)
Prepare ==
    /\ op.stage = "prepare"
    /\ head' = [head EXCEPT !.there = TRUE]
    /\ Goto("write")
    /\ Env /\ UNCHANGED <<lines, synced, tail, acked, faults>>

Write ==
    /\ op.stage = "write"
    /\ lines' = Append(lines, op.event)
    /\ Goto("sync")
    /\ Env /\ UNCHANGED <<synced, tail, head, acked, faults>>

(* Mutant: the line is not synced before the head is written. *)
SyncSkipped ==
    /\ op.stage = "sync"
    /\ Goto("commit")
    /\ Env /\ UNCHANGED <<lines, synced, tail, head, acked, faults>>

Sync ==
    /\ op.stage = "sync"
    /\ synced' = Len(lines)
    /\ Goto("commit")
    /\ Env /\ UNCHANGED <<lines, tail, head, acked, faults>>

Commit ==
    /\ op.stage = "commit"
    /\ head' = HeadOf(lines)
    /\ acked' = acked \cup {<<Len(lines), op.event>>}
    /\ Goto("idle")
    /\ Env /\ UNCHANGED <<lines, synced, tail, faults>>

(***************************************************************************)
(* A step fails and the call returns its error: a write may leave part of  *)
(* the line, and the head may have been renamed before its directory could *)
(* not be synced.  NewWriter's error ends the process.                     *)
(***************************************************************************)
StepFails ==
    /\ op.stage \in {"recover", "truncate", "anchor", "prepare", "write", "sync", "commit"}
    /\ faults < MaxFaults /\ faults' = faults + 1
    /\ tail' \in IF op.stage = "write" THEN BOOLEAN ELSE {tail}
    /\ head' \in {head} \cup (IF op.stage \in {"anchor", "commit"} THEN {HeadOf(lines)} ELSE {})
    /\ Goto(IF op.boot THEN "down" ELSE "idle")
    /\ Env /\ UNCHANGED <<lines, synced, acked>>

-----------------------------------------------------------------------------
(* The process ends; in the middle of a write part of the line is there. *)
Crash ==
    /\ op.stage \notin {"down", "refused"}
    /\ crashes < MaxCrashes /\ crashes' = crashes + 1
    /\ tail' \in IF op.stage = "write" THEN {tail, TRUE} ELSE {tail}
    /\ Goto("down")
    /\ UNCHANGED <<lines, synced, head, acked, tampered, faults, losses>>

(* Lines that were not synced may be gone, or torn. *)
PowerLoss ==
    /\ op.stage # "refused"
    /\ losses < MaxPowerLosses /\ losses' = losses + 1
    /\ \E n \in synced..Len(lines) :
         /\ lines' = SubSeq(lines, 1, n)
         /\ synced' = n
         /\ tail' \in IF tail \/ n < Len(lines) \/ op.stage = "write"
                      THEN BOOLEAN ELSE {FALSE}
    /\ Goto("down")
    /\ UNCHANGED <<head, acked, tampered, faults, crashes>>

(* Somebody deletes, once, the last line the head covers (external). *)
Tamper ==
    /\ ~tampered
    /\ op.stage \in {"idle", "down"}
    /\ lines # <<>> /\ head.of = lines
    /\ lines' = Front(lines)
    /\ synced' = Len(lines) - 1
    /\ tampered' = TRUE
    /\ UNCHANGED <<tail, head, op, acked, faults, crashes, losses>>

Next ==
    \/ NewWriter
    \/ \E e \in Payloads : AppendStart(e)
    \/ Recover \/ Truncate \/ Anchor \/ Prepare \/ Write \/ Sync \/ Commit
    \/ StepFails
    \/ Crash
    \/ PowerLoss
    \/ Tamper

Spec == Init /\ [][Next]_vars

-----------------------------------------------------------------------------
(* Properties. *)

(* VerifyIntegrity: the head commits to exactly the lines of the file. *)
VerifyIntegrity == head.there /\ ~tail /\ head.of = lines

(***************************************************************************)
(* AckedKept: an event for which Append returned nil keeps its place in    *)
(* the trace through failed writes, crashes and losses of power.           *)
(***************************************************************************)
AckedKept ==
    ~tampered => \A a \in acked : a[1] <= Len(lines) /\ lines[a[1]] = a[2]

(***************************************************************************)
(* DeletionDetected: after the last committed line was deleted the trace   *)
(* never verifies again, whatever is appended, recovered or restarted      *)
(* (ADR-005).                                                              *)
(***************************************************************************)
DeletionDetected == tampered => ~VerifyIntegrity

(***************************************************************************)
(* Recoverable: NewWriter accepts whatever failed writes and interruptions *)
(* leave behind ("complete committed tails and incomplete crash tails are  *)
(* tested", ADR-005), so the server can always start again.                *)
(***************************************************************************)
Recoverable == ~tampered /\ losses = 0 => op.stage # "refused"

(***************************************************************************)
(* CallView: what each step owes to the ones before it: a line is only     *)
(* written after a whole line that the head already covers, and the head   *)
(* only moves to a line that was synced.                                   *)
(***************************************************************************)
CallView ==
    /\ op.stage \in {"truncate", "anchor"} => Consistent
    /\ op.stage = "anchor" => ~tail
    /\ op.stage \in {"recover", "truncate", "anchor", "prepare", "write"} /\ ~op.boot =>
          Len(lines) < MaxEvents
    /\ op.stage \in {"prepare", "write", "sync", "commit"} => ~op.boot
    /\ op.stage = "prepare" => head.of = lines /\ ~tail
    /\ op.stage = "write" => head = HeadOf(lines) /\ ~tail
    /\ op.stage \in {"sync", "commit"} => head.there /\ ~tail /\ lines = Append(head.of, op.event)
    /\ op.stage = "commit" => synced = Len(lines)

(* Without a loss of power or a deletion the head stays a prefix of the lines. *)
Anchored == ~tampered /\ losses = 0 => Consistent

(***************************************************************************)
(* TraceInv: the types, what the steps of a call rely on, and a trace that *)
(* NewWriter accepts, after any failed writes and interruptions.           *)
(***************************************************************************)
TraceInv == TraceTypeOK /\ CallView /\ Anchored /\ Recoverable
=============================================================================
