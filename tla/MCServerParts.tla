--------------------------- MODULE MCServerParts ---------------------------
(***************************************************************************)
(* Small instances of four parts of the server that share no state: the    *)
(* leases of the task store, the admission of messages, the event stream   *)
(* and the settings.  A behaviour is one of a single part, chosen at the   *)
(* start.                                                                  *)
(***************************************************************************)
EXTENDS TaskStore, Admission, EventStream, Settings, TLC

CONSTANTS
    Parts,      \* the parts to check
    w1, w2, w3, v1, v2, h1, c1, m1, k1

ASSUME PartsAssumption == Parts \subseteq {"leases", "admission", "stream", "settings"}

(* A directory below the laboratory may lead out of it, or elsewhere in it. *)
MCPaths == {<<"lab">>, <<"lab", "a">>, <<"lab", "l">>, <<"lab", "l", "x">>, <<"q">>, <<"etc">>}
MCLabRoots == {<<"lab">>}
MCAllowedRoots == {<<"lab">>, <<"q">>, <<"etc">>}
MCQuarantineRoot == <<"q">>
MCLink == <<"lab", "l">>
MCLinkTargets == {<<"etc">>, <<"lab", "a">>}
MCRequests == {{<<"lab", "a">>}, {<<"lab">>, <<"lab", "l", "x">>}, {<<"q">>}}
MCEnvProvider == {[model |-> m1, key |-> k1]}

VARIABLE part

partVars == <<part, taskVars, admissionVars, streamVars, settingsVars>>

PartsInit ==
    /\ part \in Parts /\ TaskInit /\ AdmissionInit /\ StreamInit /\ SettingsInit
    /\ part # "settings" => leadsTo = Link

PartsNext ==
    \/ part = "leases" /\ TaskNext
       /\ UNCHANGED <<part, admissionVars, streamVars, settingsVars>>
    \/ part = "admission" /\ AdmissionNext
       /\ UNCHANGED <<part, taskVars, streamVars, settingsVars>>
    \/ part = "stream" /\ StreamNext
       /\ UNCHANGED <<part, taskVars, admissionVars, settingsVars>>
    \/ part = "settings" /\ SettingsNext
       /\ UNCHANGED <<part, taskVars, admissionVars, streamVars>>

(* No fair action of a part is enabled in its initial state. *)
PartsSpec ==
    /\ PartsInit /\ [][PartsNext]_partVars
    /\ AdmissionFairness /\ StreamFairness
=============================================================================
