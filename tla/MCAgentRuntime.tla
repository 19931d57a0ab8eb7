--------------------------- MODULE MCAgentRuntime ---------------------------
(* A small instance of AgentRuntime: a directory /a with a file /a/x in it. *)
EXTENDS AgentRuntime

(* Two path tools, one that traverses; a tool that shows services; a write's name; an unknown tool. *)
MCTools == {"file.stat", "file.find_large", "service.get_status", "service.restart", "vendor.probe"}

MCPaths == {<<"a">>, <<"a", "x">>}

Web == [type |-> "service", id |-> "web", critical |-> FALSE]
MCTargets == {Web, [Web EXCEPT !.critical = TRUE],
              [type |-> "process", id |-> "pid", critical |-> FALSE]}

Ask == [paths |-> {}, excluded |-> {}, followup |-> FALSE, action |-> "none", target |-> ""]
MCRequests ==
    {[Ask EXCEPT !.paths = {<<"a">>}, !.excluded = {<<"a", "x">>}],
     [Ask EXCEPT !.excluded = {<<"a", "x">>}],
     [Ask EXCEPT !.followup = TRUE, !.action = "service.restart", !.target = "web"]}

MCSelections == {{}, {<<"a", "x">>}}
=============================================================================
