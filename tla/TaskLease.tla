------------------------------ MODULE TaskLease ------------------------------
(***************************************************************************)
(* The worker lease inside a task file (task.WorkerLease) and the rules    *)
(* internal/storage applies to it.  Every claim draws a new token and adds *)
(* one to the fence, so a token is named by the fence it was drawn with;   *)
(* token 0 is the empty string of a released lease.  fresh says whether    *)
(* the lease on disk has not expired yet.                                  *)
(***************************************************************************)
EXTENDS Naturals

(* ClaimTask: a held lease that has not expired is not taken over. *)
ClaimAllowed(current, fresh) == current.token = 0 \/ ~fresh

(* Mutants: the token is not compared; a released lease lets anyone write. *)
WriteAllowedAnyToken(current, next, fresh) ==
    IF current.token = 0
    THEN next.token = 0 /\ next.fence >= current.fence
    ELSE fresh

WriteAllowedIfReleased(current, next, fresh) ==
    current.token = 0 \/ (next.token = current.token /\ fresh)

(***************************************************************************)
(* validateTaskWrite: without a lease on disk the writer must have none    *)
(* and must not be behind the fence; with one it must carry it, unexpired. *)
(***************************************************************************)
WriteAllowed(current, next, fresh) ==
    IF current.token = 0
    THEN next.token = 0 /\ next.fence >= current.fence
    ELSE next.token = current.token /\ next.fence = current.fence /\ fresh

(* ReleaseTask: the lease must be the caller's; its expiry does not matter. *)
ReleaseAllowed(current, token, fence) ==
    current.token = token /\ current.fence = fence
=============================================================================
