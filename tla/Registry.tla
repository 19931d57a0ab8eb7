------------------------------ MODULE Registry ------------------------------
(***************************************************************************)
(* internal/registry: the tool servers, child processes spoken to over     *)
(* their stdin and stdout.  HTTP handlers enable, disable, rediscover and  *)
(* ping them, the health loop pings or rediscovers all that are enabled,   *)
(* and the agent's goroutines call tools meanwhile.  Discover, Health and  *)
(* the second half of a disable run under lifecycleMu; each section under  *)
(* mu is one step, and what is done between two of them (closing a child,  *)
(* connecting, listing, pinging) is a step of its own.                     *)
(*                                                                         *)
(* Names, versions, check times and the bounded histories are left out.    *)
(***************************************************************************)
EXTENDS Naturals, FiniteSets

CONSTANTS
    Servers,
    Handlers,       \* HTTP requests in progress
    Callers,        \* goroutines that call tools
    ToolSets,       \* sets of tools a server may list
    MaxRequests,    \* bounds on HTTP requests
    MaxFlips        \* and on a server's going up or down

ASSUME RegistryAssumption ==
    /\ IsFiniteSet(Servers) /\ IsFiniteSet(Handlers) /\ IsFiniteSet(Callers)
    /\ {MaxRequests, MaxFlips} \subseteq Nat
    /\ Handlers \cap {"loop", "free"} = {}

Threads == Handlers \cup {"loop"}
Tools == UNION ToolSets

VARIABLES
    enabled,    \* Enabled in the manifest
    status,     \* what states holds of a server: its status,
    tools,      \*   the tools it listed,
    hash,       \*   the digest of the set it listed last (the set itself; empty for none)
    changed,    \*   and ToolsChanged
    sessions,   \* the connection of a server, 0 when there is none
    lock,       \* the thread that holds lifecycleMu, or "free"
    op,         \* what a thread is doing: operation, stage, server and the session in its hands
    todo,       \* servers the health loop still has to check in this cycle
    call,       \* the call a goroutine is about to send: session and tool
    live,       \* sessions that were opened and not closed
    dead,       \* sessions whose child died by itself
    offers,     \* what the child of a session lists
    up,         \* the server's program, its dependencies and its answers are in order
    last,       \* history: the tool sets of the last two discoveries
    requests, flips

vars == <<enabled, status, tools, hash, changed, sessions, lock, op, todo, call, live,
          dead, offers, up, last, requests, flips>>
state == <<status, tools, hash, changed, last>>
env == <<up, dead, flips>>

Sessions == 1..(Cardinality(Servers) + Cardinality(Callers) + 1)
Idle == [do |-> "none", at |-> "", server |-> "", session |-> 0]
NoCall == [session |-> 0, tool |-> ""]

Init ==
    /\ enabled \in [Servers -> BOOLEAN]
    /\ status = [s \in Servers |-> "DISABLED"]
    /\ tools = [s \in Servers |-> {}] /\ hash = tools
    /\ changed = [s \in Servers |-> FALSE]
    /\ sessions = [s \in Servers |-> 0]
    /\ lock = "free" /\ op = [t \in Threads |-> Idle] /\ todo = {}
    /\ call = [c \in Callers |-> NoCall]
    /\ live = {} /\ dead = {} /\ offers = [x \in Sessions |-> {}]
    /\ up = [s \in Servers |-> TRUE]
    /\ last = [s \in Servers |-> <<{}, {}>>]
    /\ requests = 0 /\ flips = 0

-----------------------------------------------------------------------------
At(t, do, stage) == op[t].do = do /\ op[t].at = stage
GoTo(t, stage, session) == op' = [op EXCEPT ![t].at = stage, ![t].session = session]

(* The operation returns and lets go of lifecycleMu. *)
Return(t) == op' = [op EXCEPT ![t] = Idle] /\ lock' = "free"

(***************************************************************************)
(* How a server answers on a session (0 while there is none); a handler's  *)
(* request may be cancelled or run into its timeout.                       *)
(***************************************************************************)
Answers(t, s, x) == {up[s] /\ x \notin dead} \cup (IF t = "loop" THEN {} ELSE {FALSE})

(* recordDiscoveryFailure and recordHealthFailure *)
RecordFailure(s) ==
    status' = [status EXCEPT ![s] = "UNHEALTHY"] /\ UNCHANGED <<tools, hash, changed, last>>

-----------------------------------------------------------------------------
(* Discover *)

(* Mutant: the manifest is not looked at again once the lock is held. *)
BeginDiscoverUnchecked(t) ==
    LET s == op[t].server
    IN  /\ At(t, "discover", "lock") /\ lock = "free"
        /\ status' = [status EXCEPT ![s] = "STARTING"]
        /\ lock' = t /\ GoTo(t, "close", sessions[s])
        /\ UNCHANGED <<enabled, tools, hash, changed, last, sessions, todo, call, live, offers, env, requests>>

(* lifecycleMu is taken and the manifest read: a server that is disabled by now is left alone. *)
BeginDiscover(t) ==
    LET s == op[t].server
    IN  /\ At(t, "discover", "lock") /\ lock = "free"
        /\ IF enabled[s]
           THEN /\ status' = [status EXCEPT ![s] = "STARTING"]
                /\ lock' = t /\ GoTo(t, "close", sessions[s])
           ELSE Return(t) /\ UNCHANGED status
        /\ UNCHANGED <<enabled, tools, hash, changed, last, sessions, todo, call, live, offers, env, requests>>

(* The old connection is closed and forgotten. *)
CloseOld(t) ==
    /\ At(t, "discover", "close")
    /\ live' = live \ {op[t].session}
    /\ sessions' = [sessions EXCEPT ![op[t].server] = 0]
    /\ GoTo(t, "connect", 0)
    /\ UNCHANGED <<enabled, state, lock, todo, call, offers, env, requests>>

Unused == Sessions \ (live \cup {sessions[s] : s \in Servers} \cup {op[t].session : t \in Threads}
                           \cup {call[c].session : c \in Callers})

(* Dependencies, the child, initialize. *)
Connect(t) ==
    LET s == op[t].server
    IN  /\ At(t, "discover", "connect")
        /\ \/ /\ TRUE \in Answers(t, s, 0)
              /\ \E set \in ToolSets :
                    LET x == CHOOSE y \in Unused : TRUE
                    IN  /\ live' = live \cup {x} /\ dead' = dead \ {x}
                        /\ offers' = [offers EXCEPT ![x] = set]
                        /\ GoTo(t, "list", x)
              /\ UNCHANGED <<state, lock>>
           \/ /\ FALSE \in Answers(t, s, 0)
              /\ RecordFailure(s) /\ Return(t)
              /\ UNCHANGED <<live, dead, offers>>
        /\ UNCHANGED <<enabled, sessions, todo, call, up, flips, requests>>

(* Mutant: the tools of the first discovery stay. *)
PublishOldTools(s, x) ==
    /\ sessions' = [sessions EXCEPT ![s] = x]
    /\ status' = [status EXCEPT ![s] = "HEALTHY"]
    /\ changed' = [changed EXCEPT ![s] = hash[s] # {} /\ hash[s] # offers[x]]
    /\ hash' = [hash EXCEPT ![s] = offers[x]]
    /\ tools' = [tools EXCEPT ![s] = IF @ = {} THEN offers[x] ELSE @]
    /\ last' = [last EXCEPT ![s] = <<@[2], offers[x]>>]

(* Session, status, tools and digest change together. *)
Publish(s, x) ==
    /\ sessions' = [sessions EXCEPT ![s] = x]
    /\ status' = [status EXCEPT ![s] = "HEALTHY"]
    /\ changed' = [changed EXCEPT ![s] = hash[s] # {} /\ hash[s] # offers[x]]
    /\ hash' = [hash EXCEPT ![s] = offers[x]]
    /\ tools' = [tools EXCEPT ![s] = offers[x]]
    /\ last' = [last EXCEPT ![s] = <<@[2], offers[x]>>]

(* Mutant: a child whose tools cannot be listed is left running. *)
ListToolsLeaks(t) ==
    LET s == op[t].server
        x == op[t].session
    IN  /\ At(t, "discover", "list")
        /\ \/ TRUE \in Answers(t, s, x) /\ Publish(s, x) /\ UNCHANGED live
           \/ FALSE \in Answers(t, s, x) /\ RecordFailure(s) /\ UNCHANGED <<sessions, live>>
        /\ Return(t)
        /\ UNCHANGED <<enabled, todo, call, offers, env, requests>>

ListTools(t) ==
    LET s == op[t].server
        x == op[t].session
    IN  /\ At(t, "discover", "list")
        /\ \/ TRUE \in Answers(t, s, x) /\ Publish(s, x) /\ UNCHANGED live
           \/ FALSE \in Answers(t, s, x) /\ RecordFailure(s) /\ live' = live \ {x} /\ UNCHANGED sessions
        /\ Return(t)
        /\ UNCHANGED <<enabled, todo, call, offers, env, requests>>

-----------------------------------------------------------------------------
(* Health *)

(* Mutant: pings do not take lifecycleMu. *)
BeginHealthUnlocked(t) ==
    LET s == op[t].server
    IN  /\ At(t, "health", "lock") /\ lock = "free"
        /\ IF enabled[s] THEN GoTo(t, "ping", sessions[s]) /\ UNCHANGED lock ELSE Return(t)
        /\ UNCHANGED <<enabled, state, sessions, todo, call, live, offers, env, requests>>

BeginHealth(t) ==
    LET s == op[t].server
    IN  /\ At(t, "health", "lock") /\ lock = "free"
        /\ IF enabled[s] THEN lock' = t /\ GoTo(t, "ping", sessions[s]) ELSE Return(t)
        /\ UNCHANGED <<enabled, state, sessions, todo, call, live, offers, env, requests>>

Ping(t) ==
    LET s == op[t].server
        x == op[t].session
    IN  /\ At(t, "health", "ping")
        /\ \/ /\ x # 0 /\ TRUE \in Answers(t, s, x)
              /\ status' = [status EXCEPT ![s] = "HEALTHY"] /\ UNCHANGED <<tools, hash, changed, last>>
              /\ Return(t) /\ UNCHANGED live
           \/ (x = 0 \/ ~up[s]) /\ RecordFailure(s) /\ Return(t) /\ UNCHANGED live   \* a dependency
           \/ x # 0 /\ t # "loop" /\ Return(t) /\ UNCHANGED <<state, live>>         \* cancelled
           \/ /\ x # 0 /\ FALSE \in Answers(t, s, x)
              /\ live' = live \ {x} /\ GoTo(t, "drop", x)
              /\ UNCHANGED <<state, lock>>
        /\ UNCHANGED <<enabled, sessions, todo, call, offers, env, requests>>

(* The session that did not answer has been closed: it is forgotten, if it is still the server's. *)
Drop(t) ==
    LET s == op[t].server
    IN  /\ At(t, "health", "drop")
        /\ sessions' = [sessions EXCEPT ![s] = IF @ = op[t].session THEN 0 ELSE @]
        /\ RecordFailure(s) /\ Return(t)
        /\ UNCHANGED <<enabled, todo, call, live, offers, env, requests>>

-----------------------------------------------------------------------------
(* SetEnabled(false), its second half *)

(* Mutant: the digest goes with the tools. *)
DisableForgets(t) ==
    LET s == op[t].server
    IN  /\ At(t, "disable", "lock") /\ lock = "free"
        /\ sessions' = [sessions EXCEPT ![s] = 0]
        /\ status' = [status EXCEPT ![s] = "DISABLED"]
        /\ tools' = [tools EXCEPT ![s] = {}] /\ changed' = [changed EXCEPT ![s] = FALSE]
        /\ hash' = [hash EXCEPT ![s] = {}]
        /\ lock' = t /\ GoTo(t, "close", sessions[s])
        /\ UNCHANGED <<enabled, last, todo, call, live, offers, env, requests>>

Disable(t) ==
    LET s == op[t].server
    IN  /\ At(t, "disable", "lock") /\ lock = "free"
        /\ sessions' = [sessions EXCEPT ![s] = 0]
        /\ status' = [status EXCEPT ![s] = "DISABLED"]
        /\ tools' = [tools EXCEPT ![s] = {}] /\ changed' = [changed EXCEPT ![s] = FALSE]
        /\ lock' = t /\ GoTo(t, "close", sessions[s])
        /\ UNCHANGED <<enabled, hash, last, todo, call, live, offers, env, requests>>

CloseDisabled(t) ==
    /\ At(t, "disable", "close")
    /\ live' = live \ {op[t].session} /\ Return(t)
    /\ UNCHANGED <<enabled, state, sessions, todo, call, offers, env, requests>>

-----------------------------------------------------------------------------
(* Who starts these operations. *)

Begin(t, do, s) == op' = [op EXCEPT ![t] = [do |-> do, at |-> "lock", server |-> s, session |-> 0]]

(* An HTTP request; SetEnabled changes the manifest before it waits for lifecycleMu. *)
Request(h, s) ==
    /\ op[h] = Idle /\ requests < MaxRequests /\ requests' = requests + 1
    /\ \/ Begin(h, "discover", s) /\ enabled' = [enabled EXCEPT ![s] = TRUE]     \* enable
       \/ Begin(h, "disable", s)  /\ enabled' = [enabled EXCEPT ![s] = FALSE]
       \/ Begin(h, "discover", s) /\ UNCHANGED enabled                           \* rediscover
       \/ Begin(h, "health", s)   /\ UNCHANGED enabled
    /\ UNCHANGED <<state, sessions, lock, todo, call, live, offers, env>>

(* CheckAll, and Start for the first cycle: the servers enabled now are checked one after the other. *)
BeginCycle ==
    /\ op["loop"] = Idle /\ todo = {}
    /\ todo' = {s \in Servers : enabled[s]} /\ todo' # {}
    /\ UNCHANGED <<enabled, state, sessions, lock, op, call, live, offers, env, requests>>

(* Mutant: a server whose state says DISABLED is passed over. *)
CheckServerIfUnhealthy(s) ==
    /\ op["loop"] = Idle /\ s \in todo
    /\ todo' = todo \ {s}
    /\ IF status[s] = "DISABLED" THEN UNCHANGED op
       ELSE Begin("loop", IF sessions[s] = 0 THEN "discover" ELSE "health", s)
    /\ UNCHANGED <<enabled, state, sessions, lock, call, live, offers, env, requests>>

(* A server without a connection is discovered, another one pinged. *)
CheckServer(s) ==
    /\ op["loop"] = Idle /\ s \in todo
    /\ todo' = todo \ {s}
    /\ Begin("loop", IF sessions[s] = 0 THEN "discover" ELSE "health", s)
    /\ UNCHANGED <<enabled, state, sessions, lock, call, live, offers, env, requests>>

-----------------------------------------------------------------------------
(* CallTool: session and state are read together; the call is sent afterwards. *)
Lookup(c, s) ==
    /\ call[c] = NoCall
    /\ sessions[s] # 0 /\ status[s] = "HEALTHY"
    /\ \E tool \in tools[s] : call' = [call EXCEPT ![c] = [session |-> sessions[s], tool |-> tool]]
    /\ UNCHANGED <<enabled, state, sessions, lock, op, todo, live, offers, env, requests>>

(* The call is answered, or fails because the session was closed meanwhile. *)
Send(c) ==
    /\ call[c] # NoCall
    /\ call' = [call EXCEPT ![c] = NoCall]
    /\ UNCHANGED <<enabled, state, sessions, lock, op, todo, live, offers, env, requests>>

(* The server's program or a dependency breaks, or is repaired; or just the child dies. *)
Flip(s) ==
    /\ flips < MaxFlips /\ flips' = flips + 1
    /\ \/ up' = [up EXCEPT ![s] = ~@] /\ UNCHANGED dead
       \/ sessions[s] \notin dead \cup {0} /\ dead' = dead \cup {sessions[s]} /\ UNCHANGED up
    /\ UNCHANGED <<enabled, state, sessions, lock, op, todo, call, live, offers, requests>>

Work(t) ==
    \/ BeginDiscover(t) \/ CloseOld(t) \/ Connect(t) \/ ListTools(t)
    \/ BeginHealth(t) \/ Ping(t) \/ Drop(t) \/ Disable(t) \/ CloseDisabled(t)

Loop == Work("loop") \/ BeginCycle \/ (\E s \in Servers : CheckServer(s))

Next ==
    \/ Loop
    \/ \E h \in Handlers : Work(h) \/ (\E s \in Servers : Request(h, s))
    \/ \E c \in Callers : Send(c) \/ (\E s \in Servers : Lookup(c, s))
    \/ \E s \in Servers : Flip(s)

(* Goroutines run, the loop's ticker ticks, and lifecycleMu is passed on to whoever waits for it. *)
Spec ==
    /\ Init /\ [][Next]_vars
    /\ SF_vars(Loop)
    /\ \A h \in Handlers : SF_vars(Work(h))

-----------------------------------------------------------------------------
(* Properties. *)

Listings == ToolSets \cup {{}}
Critical == {"close", "connect", "list", "ping", "drop"}
Operations == [do : {"discover", "health", "disable"}, at : {"lock"} \cup Critical,
               server : Servers, session : Sessions \cup {0}]

(* RegistryTypeOK: the variables stay in their ranges, and one thread holds lifecycleMu. *)
RegistryTypeOK ==
    /\ enabled \in [Servers -> BOOLEAN] /\ up \in [Servers -> BOOLEAN]
    /\ status \in [Servers -> {"DISABLED", "STARTING", "HEALTHY", "UNHEALTHY"}]
    /\ tools \in [Servers -> Listings] /\ hash \in [Servers -> Listings]
    /\ changed \in [Servers -> BOOLEAN] /\ last \in [Servers -> Listings \X Listings]
    /\ sessions \in [Servers -> Sessions \cup {0}]
    /\ op \in [Threads -> Operations \cup {Idle}] /\ todo \subseteq Servers
    /\ call \in [Callers -> [session : Sessions, tool : Tools] \cup {NoCall}]
    /\ live \cup dead \subseteq Sessions /\ offers \in [Sessions -> Listings]
    /\ requests \in 0..MaxRequests /\ flips \in 0..MaxFlips
    /\ lock \in Threads \cup {"free"}
    /\ \A t \in Threads : op[t].at \in Critical <=> lock = t

(***************************************************************************)
(* CallsOffered: a call is sent for a tool that this very connection has   *)
(* listed, however the server was rediscovered, disabled or lost between   *)
(* the planner's choice and the call.                                      *)
(***************************************************************************)
CallsOffered == \A c \in Callers : call[c] # NoCall => call[c].tool \in offers[call[c].session]

(***************************************************************************)
(* NoOrphans: every child that was started and not closed belongs to a     *)
(* connection the registry knows, or to an operation in progress; nothing  *)
(* is left running that no one could stop.                                 *)
(***************************************************************************)
NoOrphans ==
    \A x \in live : \/ \E s \in Servers : sessions[s] = x
                    \/ \E t \in Threads : op[t].session = x

Resting(s) == \A t \in Threads : op[t].server # s

(***************************************************************************)
(* StateSettled: between operations a disabled server is DISABLED and has  *)
(* no connection, a HEALTHY one has, and no closed connection is kept.     *)
(***************************************************************************)
StateSettled ==
    \A s \in Servers : Resting(s) =>
        /\ ~enabled[s] => status[s] = "DISABLED" /\ sessions[s] = 0
        /\ status[s] = "HEALTHY" => sessions[s] # 0
        /\ sessions[s] # 0 => sessions[s] \in live

(***************************************************************************)
(* ChangeReported: ToolsChanged says whether the tools differ from those   *)
(* of the discovery before, failures and a disabled time in between        *)
(* notwithstanding.                                                        *)
(***************************************************************************)
ChangeReported ==
    \A s \in Servers : status[s] = "HEALTHY" =>
        changed[s] = (last[s][1] # {} /\ last[s][1] # last[s][2])

(***************************************************************************)
(* InHand: what a thread that holds lifecycleMu knows of its server and of *)
(* the connection in its hands; nobody else has a connection.              *)
(***************************************************************************)
Hand(t) ==
    LET s == op[t].server
        x == op[t].session
    IN  /\ x # 0 => lock = t
        /\ op[t].do = "discover" => op[t].at \in {"lock", "close", "connect", "list"}
        /\ op[t].do = "health" => op[t].at \in {"lock", "ping", "drop"}
        /\ op[t].do = "disable" => op[t].at \in {"lock", "close"}
        /\ op[t].do = "discover" /\ lock = t => status[s] = "STARTING"
        /\ At(t, "discover", "close") \/ At(t, "health", "ping") => x = sessions[s]
        /\ At(t, "health", "drop") => x # 0 /\ x = sessions[s] /\ x \notin live
        /\ At(t, "discover", "connect") => x = 0 /\ sessions[s] = 0
        /\ At(t, "discover", "list") => x \in live /\ sessions[s] = 0
        /\ At(t, "disable", "close") => status[s] = "DISABLED" /\ sessions[s] = 0
        /\ At(t, "discover", "list") \/ At(t, "disable", "close") =>
              \A r \in Servers : sessions[r] = x => x = 0

InHand == \A t \in Threads : Hand(t)

(***************************************************************************)
(* Connected: a connection belongs to one server, whose tools are the ones *)
(* it listed, and runs unless it is about to be forgotten; a server that   *)
(* is to be disabled is, or has somebody waiting to do it.                 *)
(***************************************************************************)
Connection(s) ==
    /\ hash[s] = last[s][2]
    /\ status[s] = "HEALTHY" => sessions[s] # 0
    /\ sessions[s] # 0 =>
          /\ tools[s] = offers[sessions[s]]
          /\ changed[s] = (last[s][1] # {} /\ last[s][1] # last[s][2])
          /\ sessions[s] \in live \/ \E t \in Threads : At(t, "health", "drop") /\ op[t].server = s
          /\ \A r \in Servers : sessions[r] = sessions[s] => r = s
    /\ ~enabled[s] =>
          \/ \E t \in Threads : At(t, "disable", "lock") /\ op[t].server = s
          \/ /\ status[s] = "DISABLED" /\ sessions[s] = 0
             /\ \A t \in Threads : op[t].server = s /\ lock = t => op[t].do = "disable"

Connected == \A s \in Servers : Connection(s)

(***************************************************************************)
(* RegistryInv: types and lock discipline, no child left behind, a settled *)
(* state between operations and truthful reports of changed tools, under   *)
(* every interleaving of handlers, health loop and failures.  InHand and   *)
(* Connected make it inductive (RegistryProofs).                           *)
(***************************************************************************)
RegistryInv ==
    /\ RegistryTypeOK /\ InHand /\ Connected
    /\ NoOrphans /\ StateSettled /\ ChangeReported

(***************************************************************************)
(* Heals: a server that stays enabled and in order becomes HEALTHY and     *)
(* stays so, whatever requests raced before; a disable and an enable that  *)
(* overtake each other may leave it DISABLED, and the health loop finds it.*)
(***************************************************************************)
Heals ==
    \A s \in Servers : <>[](enabled[s] /\ up[s]) => <>[](status[s] = "HEALTHY" /\ sessions[s] # 0)
=============================================================================
