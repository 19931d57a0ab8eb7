--------------------------- MODULE SafetyPipeline ---------------------------
(***************************************************************************)
(* internal/guard: what the local policy says of a proposal.  Static check *)
(* first, then the intent guard, then the risk engine; the server asks     *)
(* before it calls a tool or creates an approval, and the executor asks    *)
(* again before it acts.  A target is a kind, an identity and whether it   *)
(* is critical (by its name or by declaration); rule ids, reasons and      *)
(* digests are left out.                                                   *)
(***************************************************************************)
EXTENDS Integers

(***************************************************************************)
(* The catalogue of policies/tools.yaml, one tool for each policy that     *)
(* differs and those the workflows use: the other reads have the policy of *)
(* the reads listed, and file.delete that of file.quarantine.              *)
(***************************************************************************)
ReadPolicy ==
    [effect |-> "read", base |-> "L0", approval |-> FALSE, reversible |-> FALSE,
     types |-> {}]

WritePolicy(base, reversible, type) ==
    [effect |-> "write", base |-> base, approval |-> TRUE, reversible |-> reversible,
     types |-> {type}]

Catalog ==
    LET reads == {"file.stat", "file.find_large", "service.get_status", "journal.query_unit",
                  "network.check_port", "process.get_details", "process.search",
                  "process.find_by_port", "system.get_cpu_metrics", "system.get_memory_metrics",
                  "system.get_disk_usage", "diagnostic.port_conflict", "diagnostic.high_cpu",
                  "diagnostic.disk_pressure"}
        files == {"file.create", "file.quarantine", "file.restore_quarantine"}
    IN  [t \in reads \cup files \cup {"service.restart", "service.start", "service.stop",
                                      "process.terminate", "file.purge_quarantine"}
            |-> CASE t \in reads                   -> ReadPolicy
                  [] t \in files                   -> WritePolicy("L1", TRUE, "file")
                  [] t = "service.restart"         -> WritePolicy("L1", FALSE, "service")
                  [] t = "service.start"           -> WritePolicy("L1", TRUE, "service")
                  [] t = "service.stop"            -> WritePolicy("L2", TRUE, "service")
                  [] t = "process.terminate"       -> WritePolicy("L2", FALSE, "process")
                  [] t = "file.purge_quarantine"   -> WritePolicy("L3", FALSE, "file")]

Known(tool) == tool \in DOMAIN Catalog

ForbiddenCapability(tool) ==
    tool \in {"shell.execute", "terminal.run", "command.execute", "bash.run",
              "execute_command", "run_shell"}

TargetTypeAllowed(policy, type) ==
    IF policy.types = {} THEN policy.effect = "read" ELSE type \in policy.types

(* StaticGuard.Precheck. *)
StaticAllows(p) ==
    /\ ~ForbiddenCapability(p.tool)
    /\ Known(p.tool)
    /\ LET policy == Catalog[p.tool]
       IN  /\ p.effect = policy.effect
           /\ TargetTypeAllowed(policy, p.target.type)
           /\ p.effect = "write" => /\ p.reversible = policy.reversible
                                    /\ p.reversible => p.rollback

(* CanonicalTarget: criticality is no part of a target's identity. *)
CanonicalTarget(target) == <<target.type, target.id>>
Canonical(targets) == {CanonicalTarget(t) : t \in targets}

(* IntentGuard.Evaluate: the plan names the target, and the objective names it or evidence ties it to one the objective names. *)
IntentAllows(p) ==
    LET target == CanonicalTarget(p.target)
    IN  /\ target # <<"", "">>
        /\ target \in Canonical(p.plan)
        /\ \/ target \in Canonical(p.objective)
           \/ \E a \in p.relations :
                 /\ CanonicalTarget(a.target) = target
                 /\ CanonicalTarget(a.relatedTo) \in Canonical(p.objective)
                 /\ a.named /\ a.evidence # {}

Points(applies, n) == IF applies THEN n ELSE 0

(* RiskEngine.Evaluate; BatchSize below one counts as one, which scores nothing. *)
Score(p) ==
    LET base == IF Known(p.tool) THEN Catalog[p.tool].base ELSE "L3"
        sum  == [L0 |-> 5, L1 |-> 20, L2 |-> 50, L3 |-> 90][base]
                + Points(p.effect = "write", 10)
                + Points(p.target.critical, 50)
                + Points(p.batch >= 10, 35) + Points(p.batch \in 2..9, 10)
                + Points(p.effect = "write" /\ ~p.reversible, 15)
                + Points(p.reversible /\ ~p.rollback, 10)
                + Points(p.unstable, 10)
                - Points(p.lab /\ ~p.target.critical, 10)
    IN  IF sum < 0 THEN 0 ELSE IF sum > 100 THEN 100 ELSE sum

(* Mutant: no score is high enough for L3. *)
LevelForScoreLenient(score) ==
    CASE score < 20 -> "L0" [] score < 50 -> "L1" [] score <= 100 -> "L2" [] OTHER -> "L3"

LevelForScore(score) ==
    CASE score < 20 -> "L0" [] score < 50 -> "L1" [] score < 80 -> "L2" [] OTHER -> "L3"

(* SafetyPipeline.Evaluate: the level, empty where an earlier guard denied, and the decision. *)
Evaluate(p) ==
    LET level == LevelForScore(Score(p))
    IN  CASE ~StaticAllows(p) \/ ~IntentAllows(p) -> [level |-> "", final |-> "DENY"]
          [] OTHER ->
                [level |-> level,
                 final |-> IF level = "L3" THEN "DENY"
                           ELSE IF p.effect = "write" /\ (Catalog[p.tool].approval \/ level = "L2")
                           THEN "REQUIRE_APPROVAL" ELSE "ALLOW"]

(* What a read step asks the pipeline: this tool, on the local host. *)
Host == [type |-> "host", id |-> "local", critical |-> FALSE]
ReadProposal(tool) ==
    [tool |-> tool, effect |-> "read", target |-> Host, batch |-> 1, reversible |-> FALSE,
     rollback |-> FALSE, unstable |-> FALSE, lab |-> FALSE, objective |-> {Host},
     plan |-> {Host}, relations |-> {}]
=============================================================================
