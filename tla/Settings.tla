------------------------------ MODULE Settings ------------------------------
(***************************************************************************)
(* The settings an operator changes while the server runs: the managed     *)
(* file roots (executor.ConfigManager, MutableTargets) and the planner's   *)
(* provider (llm.SettingsStore, RuntimeProvider).  Both are written to a   *)
(* temporary file that is renamed and synced, under a mutex, before memory *)
(* follows; both are read again at the start.  The managed roots bound     *)
(* what the server takes a snapshot of; privexec knows only the roots of   *)
(* its own configuration.  Directories may become symbolic links.          *)
(***************************************************************************)
EXTENDS Naturals, Sequences, FiniteSets, SequencesExt

CONSTANTS
    Paths,          \* directories, as sequences of names
    LabRoots,       \* Config.LabFileRoots: the largest set of managed roots
    AllowedRoots,   \* Config.AllowedFileRoots: all that privexec may act on
    QuarantineRoot, \* Config.QuarantineRoot
    Link,           \* the directory that may become a symbolic link
    LinkTargets,    \* where it may lead
    Requests,       \* the lists of roots an operator may ask for
    Models, Keys,   \* what a provider is configured with
    EnvProvider,    \* the provider of the environment: a set of at most one
    MaxUpdates,     \* bound on changes of the settings
    MaxRelinks,     \* bound on changes of the link
    MaxStops        \* bound on the ends of the server

Inside(p, root) == IsPrefix(root, p)    \* sameOrInside, withinRoots
InsideAny(p, roots) == \E r \in roots : Inside(p, r)
Overlaps(p, q) == Inside(p, q) \/ Inside(q, p)

(* What LoadConfig checks. *)
LoadConfig ==
    /\ LabRoots # {} /\ \A r \in LabRoots : r # <<>> /\ ~Overlaps(r, QuarantineRoot)
    /\ \A r \in LabRoots \cup {QuarantineRoot} : InsideAny(r, AllowedRoots)

(* The configuration was accepted, and the link is below the configured roots. *)
ASSUME SettingsAssumption ==
    /\ LoadConfig
    /\ Paths \cup LabRoots \cup AllowedRoots \subseteq Seq(STRING)
    /\ Link \in Paths /\ QuarantineRoot \in Paths /\ LinkTargets \subseteq Paths
    /\ \A r \in LabRoots \cup AllowedRoots \cup {QuarantineRoot} : ~Inside(r, Link)
    /\ \A t \in LinkTargets : ~Inside(t, Link)
    /\ Requests \subseteq SUBSET Paths
    /\ EnvProvider \in {{}} \cup {{p} : p \in [model : Models, key : Keys]}
    /\ {MaxUpdates, MaxRelinks, MaxStops} \subseteq Nat

VARIABLES
    leadsTo,    \* what Link resolves to: itself, unless it is a symbolic link
    file,       \* kind -> the values in its file, {} without one
    live,       \* kind -> the value in force: roots of MutableTargets, provider
    saving,     \* kind -> the call that holds the mutex
    action,     \* a file action on its way from the snapshot to the executor
    touched,    \* history: the real path the executor acted on last
    alive,      \* is the server up?
    reported,   \* history: kind -> the last value reported as in force
    unclear,    \* history: kind -> values whose save failed or was cut short since then
    reloaded,   \* history: kind -> was live read from the file since then?
    updates, relinks, stops

settingsVars == <<leadsTo, file, live, saving, action, touched, alive, reported, unclear, reloaded,
                  updates, relinks, stops>>

Kinds == {"roots", "llm"}
Provider == [model : Models, key : Keys]

(* A value is a set: of roots, or of the provider if there is one. *)
ValuesOf(k) == IF k = "roots" THEN SUBSET Seq(STRING)
               ELSE {{}} \cup {{p} : p \in Provider}
NoSave == [at |-> "idle", value |-> {}]
NoAction == [at |-> "none", path |-> <<>>, real |-> <<>>]

SettingsInit ==
    /\ leadsTo \in LinkTargets \cup {Link}
    /\ file = [k \in Kinds |-> {}]
    /\ live = [k \in Kinds |-> IF k = "roots" THEN LabRoots ELSE EnvProvider]
    /\ saving = [k \in Kinds |-> NoSave]
    /\ action = NoAction /\ touched = {}
    /\ alive = TRUE
    /\ reported = live /\ unclear = [k \in Kinds |-> {}]
    /\ reloaded = [k \in Kinds |-> FALSE]
    /\ updates = 0 /\ relinks = 0 /\ stops = 0

(* filepath.EvalSymlinks *)
Resolved(p) == IF Inside(p, Link) THEN leadsTo \o SubSeq(p, Len(Link) + 1, Len(p)) ELSE p

-----------------------------------------------------------------------------
Normalized(roots) == {Resolved(r) : r \in roots}

(* validateRootsWithin *)
WithinMaximum(roots) == \A r \in roots : InsideAny(r, LabRoots)

ValidRoots(roots) ==
    /\ roots # {}
    /\ \A r \in roots : r # <<>> /\ ~Overlaps(r, QuarantineRoot)
    /\ WithinMaximum(roots)

Begin(k, value) ==
    /\ alive /\ saving[k] = NoSave
    /\ updates < MaxUpdates /\ updates' = updates + 1
    /\ saving' = [saving EXCEPT ![k] = [at |-> "save", value |-> value]]
    /\ UNCHANGED <<leadsTo, file, live, action, touched, alive, reported, unclear, reloaded, relinks, stops>>

(* UpdateManagedRoots normalises before it checks. *)
PutAllowlist(roots) == ValidRoots(Normalized(roots)) /\ Begin("roots", Normalized(roots))

(* putLLMConfig: a request without a key keeps the key in force. *)
PutLLMConfig(model, keys) ==
    LET kept == IF keys # {} THEN keys ELSE {p.key : p \in live["llm"]}
    IN  \E key \in kept : Begin("llm", {[model |-> model, key |-> key]})

(* deleteLLMConfig removes the file and then clears the provider. *)
DeleteLLMConfig == Begin("llm", {})

(* saveConfigBytes, Save or Delete: the rename or the removal has happened, ... *)
SaveSetting(k) ==
    /\ saving[k].at = "save"
    /\ file' = [file EXCEPT ![k] = saving[k].value]
    /\ saving' = [saving EXCEPT ![k].at = "apply"]
    /\ UNCHANGED <<leadsTo, live, action, touched, alive, reported, unclear, reloaded, updates, relinks, stops>>

(* Mutant: memory follows although the save failed. *)
SaveSettingFailsApplied(k) ==
    /\ saving[k].at = "save"
    /\ live' = [live EXCEPT ![k] = saving[k].value]
    /\ saving' = [saving EXCEPT ![k] = NoSave]
    /\ UNCHANGED <<leadsTo, file, action, touched, alive, reported, unclear, reloaded, updates, relinks, stops>>

(* ... or the call fails before it, or after it in the sync of the directory. *)
SaveSettingFails(k) ==
    /\ saving[k].at = "save"
    /\ \/ UNCHANGED <<file, unclear>>
       \/ /\ file' = [file EXCEPT ![k] = saving[k].value]
          /\ unclear' = [unclear EXCEPT ![k] = @ \cup {saving[k].value}]
    /\ saving' = [saving EXCEPT ![k] = NoSave]
    /\ UNCHANGED <<leadsTo, live, action, touched, alive, reported, reloaded, updates, relinks, stops>>

(* Memory follows, UpdateAllowedFileRoots or Configure, and the call answers. *)
Apply(k) ==
    /\ saving[k].at = "apply"
    /\ live' = [live EXCEPT ![k] = saving[k].value]
    /\ reported' = [reported EXCEPT ![k] = saving[k].value]
    /\ unclear' = [unclear EXCEPT ![k] = {}]
    /\ reloaded' = [reloaded EXCEPT ![k] = FALSE]
    /\ saving' = [saving EXCEPT ![k] = NoSave]
    /\ UNCHANGED <<leadsTo, file, action, touched, alive, updates, relinks, stops>>

-----------------------------------------------------------------------------
(* A file action: snapshot in the server, revalidation in the executor. *)

(* MutableTargets.allowedFileRoots *)
InForce == live["roots"] \cup {QuarantineRoot}

(* Mutant: the path is taken as it is written. *)
SnapshotFileAsWritten(p) ==
    /\ alive /\ action = NoAction
    /\ InsideAny(p, InForce)
    /\ InsideAny(p, AllowedRoots)
    /\ action' = [at |-> "bound", path |-> p, real |-> Resolved(p)]
    /\ UNCHANGED <<leadsTo, file, live, saving, touched, alive, reported, unclear, reloaded, updates, relinks, stops>>

(* MutableTargets.SnapshotFile, and FixedScope.Authorize in PrepareAction. *)
SnapshotFile(p) ==
    /\ alive /\ action = NoAction
    /\ InsideAny(Resolved(p), InForce)
    /\ InsideAny(Resolved(p), AllowedRoots)
    /\ action' = [at |-> "bound", path |-> Resolved(p), real |-> Resolved(p)]
    /\ UNCHANGED <<leadsTo, file, live, saving, touched, alive, reported, unclear, reloaded, updates, relinks, stops>>

(* The envelope comes to privexec: Authorize and Revalidate against its own roots. *)
ExecuteFile ==
    LET p == action.path
    IN  /\ action.at = "bound"
        /\ touched' = IF InsideAny(p, AllowedRoots) /\ Resolved(p) = p
                      THEN {Resolved(p)} ELSE {}
        /\ action' = NoAction
        /\ UNCHANGED <<leadsTo, file, live, saving, alive, reported, unclear, reloaded, updates, relinks, stops>>

(* The operator rejects the action, or the approval expires. *)
DropAction ==
    /\ action.at = "bound" /\ action' = NoAction
    /\ UNCHANGED <<leadsTo, file, live, saving, touched, alive, reported, unclear, reloaded, updates, relinks, stops>>

(* Somebody replaces the directory by a link, or the link by a directory. *)
Relink(t) ==
    /\ relinks < MaxRelinks /\ relinks' = relinks + 1
    /\ leadsTo' = t
    /\ UNCHANGED <<file, live, saving, action, touched, alive, reported, unclear, reloaded, updates, stops>>

-----------------------------------------------------------------------------
StopServer ==
    /\ alive /\ alive' = FALSE
    /\ stops < MaxStops /\ stops' = stops + 1
    /\ unclear' = [k \in Kinds |-> IF saving[k].at = "apply"
                                   THEN unclear[k] \cup {saving[k].value} ELSE unclear[k]]
    /\ saving' = [k \in Kinds |-> NoSave]
    /\ UNCHANGED <<leadsTo, file, live, action, touched, reported, reloaded, updates, relinks>>

(* Mutant: the roots in the file are taken as they are. *)
LoadedRootsUnchecked == IF file["roots"] = {} THEN LabRoots ELSE Normalized(file["roots"])

(* NewConfigManager: without a file, the roots of the administrator. *)
LoadedRoots ==
    LET roots == IF file["roots"] = {} THEN LabRoots ELSE Normalized(file["roots"])
    IN  IF ValidRoots(roots) THEN roots ELSE {}

(* Without a file of its own the provider is the one of the environment. *)
LoadedProvider == IF file["llm"] = {} THEN EnvProvider ELSE file["llm"]

(* main ends with log.Fatal if the roots do not hold any more. *)
StartServer ==
    /\ ~alive /\ LoadedRoots # {}
    /\ alive' = TRUE
    /\ live' = [k \in Kinds |-> IF k = "roots" THEN LoadedRoots ELSE LoadedProvider]
    /\ reloaded' = [k \in Kinds |-> TRUE]
    /\ UNCHANGED <<leadsTo, file, saving, action, touched, reported, unclear, updates, relinks, stops>>

SettingsNext ==
    \/ \E roots \in Requests : PutAllowlist(roots)
    \/ \E model \in Models, keys \in {{}} \cup {{key} : key \in Keys} : PutLLMConfig(model, keys)
    \/ DeleteLLMConfig
    \/ \E k \in Kinds : SaveSetting(k) \/ SaveSettingFails(k) \/ Apply(k)
    \/ \E p \in Paths : SnapshotFile(p)
    \/ ExecuteFile \/ DropAction
    \/ \E t \in LinkTargets \cup {Link} : Relink(t)
    \/ StopServer \/ StartServer

SettingsSpec == SettingsInit /\ [][SettingsNext]_settingsVars

-----------------------------------------------------------------------------
(* Properties. *)

(***************************************************************************)
(* SettingsKept: the types; what was reported as in force is in force      *)
(* until the next accepted change or restart; and the next start finds it  *)
(* in the file, or else a later value whose save failed after its rename   *)
(* or was cut short, or (before the first change) no file.                 *)
(***************************************************************************)
SettingsKept ==
    /\ leadsTo \in LinkTargets \cup {Link} /\ alive \in BOOLEAN
    /\ \A k \in Kinds :
          /\ {file[k], live[k], saving[k].value, reported[k]} \cup unclear[k] \subseteq ValuesOf(k)
          /\ saving[k].at \in {"idle", "save", "apply"}
          /\ ~reloaded[k] /\ saving[k].at # "apply" => live[k] = reported[k]
          /\ saving[k].at # "apply" =>
                \/ file[k] \in {reported[k]} \cup unclear[k]
                \/ file[k] = {} /\ reported[k] \in {LabRoots, EnvProvider}

(***************************************************************************)
(* RootsHold: whatever the operator enters, the file holds at a start and  *)
(* the links become, the roots in force lie within the administrator's and *)
(* apart from the quarantine; an action is bound to a path that really was *)
(* within those roots or the quarantine, and the executor acts on no other *)
(* path.                                                                   *)
(***************************************************************************)
RootsHold ==
    /\ ValidRoots(live["roots"])
    /\ action.at = "bound" => InsideAny(action.real, LabRoots \cup {QuarantineRoot})
    /\ \A p \in touched : InsideAny(p, LabRoots \cup {QuarantineRoot})
=============================================================================
