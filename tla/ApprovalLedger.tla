--------------------------- MODULE ApprovalLedger ---------------------------
(***************************************************************************)
(* What an approval promises, whatever the files and processes that keep   *)
(* it: an operator is asked once, answers once, and a yes is worth at most *)
(* one execution.  A yes may also be spent without an execution            *)
(* ("forfeited": the store recorded the consumption and then failed to     *)
(* tell the executor so), and it may never be used at all.  A refusal, or  *)
(* the expiry of an unanswered question, is final.                         *)
(***************************************************************************)
CONSTANT ApprovalIDs

VARIABLE ledger

LedgerStates ==
    {"absent", "open", "approved", "refused", "granted", "forfeited"}

LedgerInit == ledger = [i \in ApprovalIDs |-> "absent"]

Move(i, from, to) ==
    /\ ledger[i] = from
    /\ ledger' = [ledger EXCEPT ![i] = to]

Ask(i)     == Move(i, "absent", "open")
Approve(i) == Move(i, "open", "approved")
Refuse(i)  == Move(i, "open", "refused")
Grant(i)   == Move(i, "approved", "granted")
Forfeit(i) == Move(i, "approved", "forfeited")

LedgerNext ==
    \E i \in ApprovalIDs :
        Ask(i) \/ Approve(i) \/ Refuse(i) \/ Grant(i) \/ Forfeit(i)

LedgerSpec == LedgerInit /\ [][LedgerNext]_ledger
=============================================================================
