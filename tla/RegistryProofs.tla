--------------------------- MODULE RegistryProofs ---------------------------
(***************************************************************************)
(* Proofs about Registry, for any servers, handlers, callers and tools: no *)
(* child is left behind, states and connections agree between operations,  *)
(* changes are reported, and calls go to connections that offer the tool.  *)
(***************************************************************************)
EXTENDS Registry, FiniteSetTheorems, TLAPS

LEMMA ThreadNames ==
    /\ "free" \notin Threads /\ "loop" \in Threads /\ Handlers \subseteq Threads /\ 0 \notin Sessions
    /\ Idle.do = "none" /\ Idle.at = "" /\ Idle.session = 0 /\ Idle \notin Operations
<1>1. "free" \notin Threads /\ "loop" \in Threads /\ Handlers \subseteq Threads
  BY RegistryAssumption DEF Threads
<1>2. 0 \notin Sessions
  BY DEF Sessions
<1> QED BY <1>1, <1>2 DEF Idle, Operations

(* How op and the lock move. *)
LEMMA Moves ==
    ASSUME RegistryTypeOK, NEW t \in Threads, op[t].do # "none"
    PROVE  /\ op[t] \in Operations /\ op[t].server \in Servers
           /\ \A stage \in {"lock"} \cup Critical, x \in Sessions \cup {0} : GoTo(t, stage, x) =>
                 /\ op' \in [Threads -> Operations \cup {Idle}]
                 /\ op'[t].at = stage /\ op'[t].session = x
                 /\ op'[t].do = op[t].do /\ op'[t].server = op[t].server
                 /\ \A u \in Threads : u # t => op'[u] = op[u]
           /\ Return(t) =>
                 /\ op' \in [Threads -> Operations \cup {Idle}]
                 /\ op'[t] = Idle /\ lock' = "free"
                 /\ \A u \in Threads : u # t => op'[u] = op[u]
<1>1. op \in [Threads -> Operations \cup {Idle}]
  BY DEF RegistryTypeOK
<1>2. op[t] \in Operations
  BY <1>1, ThreadNames
<1>3. op[t].server \in Servers
  BY <1>2 DEF Operations
<1>4. ASSUME NEW stage \in {"lock"} \cup Critical, NEW x \in Sessions \cup {0}, GoTo(t, stage, x)
      PROVE  /\ op' \in [Threads -> Operations \cup {Idle}]
             /\ op'[t].at = stage /\ op'[t].session = x
             /\ op'[t].do = op[t].do /\ op'[t].server = op[t].server
             /\ \A u \in Threads : u # t => op'[u] = op[u]
  <2> DEFINE n == [op[t] EXCEPT !.at = stage, !.session = x]
  <2>1. /\ n \in Operations /\ n.at = stage /\ n.session = x
        /\ n.do = op[t].do /\ n.server = op[t].server
    BY <1>2 DEF Operations
  <2>2. op' = [op EXCEPT ![t] = n]
    BY <1>1, <1>4 DEF GoTo
  <2> HIDE DEF n
  <2> QED BY <1>1, <2>1, <2>2
<1>5. ASSUME Return(t)
      PROVE  /\ op' \in [Threads -> Operations \cup {Idle}]
             /\ op'[t] = Idle /\ lock' = "free"
             /\ \A u \in Threads : u # t => op'[u] = op[u]
  BY <1>1, <1>5 DEF Return
<1> QED BY <1>2, <1>3, <1>4, <1>5

(***************************************************************************)
(* Work of t on its server: nobody else has the lock before or after, and  *)
(* nobody else moves.                                                      *)
(***************************************************************************)
Alone(t) ==
    /\ op[t].do # "none" /\ op' \in [Threads -> Operations \cup {Idle}]
    /\ lock \in {t, "free"} /\ lock' \in {t, "free"}
    /\ op'[t].at \in Critical <=> lock' = t
    /\ lock' = t => op'[t].server = op[t].server
    /\ \A u \in Threads : u # t => op'[u] = op[u]
    /\ UNCHANGED <<enabled, todo, call, requests>>

(* What the others find unchanged. *)
Apart(s) ==
    \A r \in Servers : r # s =>
        /\ status'[r] = status[r] /\ tools'[r] = tools[r] /\ hash'[r] = hash[r]
        /\ changed'[r] = changed[r] /\ last'[r] = last[r] /\ sessions'[r] = sessions[r]
        /\ sessions[r] # 0 =>
              /\ offers'[sessions[r]] = offers[sessions[r]]
              /\ sessions[r] \in live => sessions[r] \in live'

(* Without the lock there is nothing in hand. *)
LEMMA EmptyHands ==
    ASSUME RegistryTypeOK, InHand, NEW u \in Threads, lock # u
    PROVE  op[u].session = 0 /\ op[u].at \notin Critical
BY DEF RegistryTypeOK, InHand, Hand

LEMMA OthersRest ==
    ASSUME RegistryTypeOK, InHand, NEW t \in Threads, Alone(t), Hand(t)'
    PROVE  InHand'
<1> SUFFICES ASSUME NEW u \in Threads, u # t PROVE Hand(u)'
  BY DEF InHand
<1>0. u # "free"
  BY ThreadNames
<1>1. lock # u /\ lock' # u /\ op'[u] = op[u]
  BY <1>0 DEF Alone
<1>2. op[u].session = 0 /\ op[u].at \notin Critical /\ Hand(u)
  BY <1>1, EmptyHands DEF InHand
<1>3. op'[u].session = 0 /\ op'[u].at \notin Critical
  BY <1>1, <1>2
<1> QED BY <1>1, <1>2, <1>3 DEF Hand, At, Critical

LEMMA OtherServers ==
    ASSUME RegistryTypeOK, InHand, Connected, NEW t \in Threads, Alone(t),
           NEW s \in Servers, op[t].server = s, Apart(s), Connection(s)'
    PROVE  Connected'
<1> SUFFICES ASSUME NEW r \in Servers, r # s PROVE Connection(r)'
  BY DEF Connected
<1>0. Connection(r)
  BY DEF Connected
<1>1. /\ status'[r] = status[r] /\ tools'[r] = tools[r] /\ hash'[r] = hash[r]
      /\ changed'[r] = changed[r] /\ last'[r] = last[r] /\ sessions'[r] = sessions[r]
      /\ enabled' = enabled
  BY DEF Apart, Alone
<1>2. ASSUME sessions[r] # 0
      PROVE  /\ sessions[r] \in live' /\ offers'[sessions[r]] = offers[sessions[r]]
             /\ \A q \in Servers : sessions'[q] = sessions[r] => q = r
  <2>1. sessions[r] \in live
    <3>1. \A u \in Threads : u # t => u # "free" /\ lock # u
      BY ThreadNames DEF Alone
    <3>2. \A u \in Threads : op[u].at = "drop" => u = t
      BY <3>1, EmptyHands DEF Critical
    <3> QED BY <1>0, <1>2, <3>2 DEF Connection, At
  <2>2. \A q \in Servers : q # s => sessions'[q] = sessions[q]
    BY DEF Apart
  <2>3. sessions'[s] = sessions[r] => r = s
    BY <1>1, <1>2 DEF Connection
  <2> QED BY <1>0, <1>2, <2>1, <2>2, <2>3 DEF Connection, Apart
<1>3. ASSUME ~enabled[r]
      PROVE  \/ \E u \in Threads : At(u, "disable", "lock")' /\ op'[u].server = r
             \/ /\ status[r] = "DISABLED" /\ sessions[r] = 0
                /\ \A u \in Threads : op'[u].server = r /\ lock' = u => op'[u].do = "disable"
  <2>1. ASSUME NEW u \in Threads, At(u, "disable", "lock"), op[u].server = r
        PROVE  At(u, "disable", "lock")' /\ op'[u].server = r
    BY <2>1 DEF Alone, At
  <2>2. \A u \in Threads : op'[u].server = r /\ lock' = u => op'[u].do = "disable"
    <3> SUFFICES ASSUME lock' = t, op'[t].server = r PROVE FALSE
      BY ThreadNames DEF Alone
    <3> QED BY DEF Alone
  <2> QED BY <1>0, <1>3, <2>1, <2>2 DEF Connection
<1> QED BY <1>0, <1>1, <1>2, <1>3 DEF Connection

-----------------------------------------------------------------------------
(* The inductive invariant. *)
Registered == RegistryTypeOK /\ InHand /\ Connected /\ NoOrphans /\ CallsOffered

(* The types of what Work may change besides op and the lock. *)
DataTypes ==
    /\ status \in [Servers -> {"DISABLED", "STARTING", "HEALTHY", "UNHEALTHY"}]
    /\ tools \in [Servers -> Listings] /\ hash \in [Servers -> Listings]
    /\ changed \in [Servers -> BOOLEAN] /\ last \in [Servers -> Listings \X Listings]
    /\ sessions \in [Servers -> Sessions \cup {0}]
    /\ live \cup dead \subseteq Sessions /\ offers \in [Sessions -> Listings]

SameOffers == \A c \in Callers : call[c] # NoCall => offers'[call[c].session] = offers[call[c].session]

LEMMA WorkKeeps ==
    ASSUME Registered, NEW t \in Threads, NEW s \in Servers, op[t].server = s, Alone(t), Apart(s),
           Hand(t)', Connection(s)', NoOrphans', DataTypes', up' = up, flips' = flips, SameOffers
    PROVE  Registered'
<1>0. RegistryTypeOK /\ InHand /\ Connected /\ CallsOffered
  BY DEF Registered
<1>1. InHand' /\ Connected'
  BY <1>0, OthersRest, OtherServers
<1>2. \A u \in Threads : op'[u].at \in Critical <=> lock' = u
  <2> SUFFICES ASSUME NEW u \in Threads, u # t PROVE op'[u].at \notin Critical /\ lock' # u
    BY DEF Alone
  <2>1. u # "free"
    BY ThreadNames
  <2>2. lock # u /\ lock' # u /\ op'[u] = op[u]
    BY <2>1 DEF Alone
  <2> QED BY <1>0, <2>2, EmptyHands
<1>3. RegistryTypeOK'
  <2>1. /\ enabled' = enabled /\ todo' = todo /\ call' = call /\ requests' = requests
        /\ op' \in [Threads -> Operations \cup {Idle}] /\ lock' \in Threads \cup {"free"}
    BY DEF Alone
  <2> QED BY <1>0, <1>2, <2>1 DEF RegistryTypeOK, DataTypes
<1>4. CallsOffered'
  BY <1>0 DEF CallsOffered, SameOffers, Alone
<1> QED BY <1>1, <1>3, <1>4 DEF Registered

(* The types and what is known of the thread at work. *)
LEMMA AtWork ==
    ASSUME Registered, NEW t \in Threads, op[t].do # "none"
    PROVE  /\ op[t] \in Operations /\ op[t].server \in Servers
           /\ DataTypes /\ Hand(t) /\ Connection(op[t].server)
           /\ op[t].at \in Critical <=> lock = t
           /\ \A x \in live : x # 0
<1>1. RegistryTypeOK /\ InHand /\ Connected
  BY DEF Registered
<1>2. op[t] \in Operations /\ op[t].server \in Servers
  BY <1>1, Moves
<1>3. DataTypes /\ (op[t].at \in Critical <=> lock = t)
  BY <1>1 DEF RegistryTypeOK, DataTypes
<1>4. \A x \in live : x # 0
  BY <1>3, ThreadNames DEF DataTypes
<1> QED BY <1>1, <1>2, <1>3, <1>4 DEF InHand, Connected

(* Nobody drops a connection while the lock is free, or t has it and does something else. *)
LEMMA NotDropped ==
    ASSUME Registered, NEW t \in Threads, lock \in {t, "free"}, op[t].at # "drop",
           NEW s \in Servers, sessions[s] # 0
    PROVE  sessions[s] \in live
<1>1. \A u \in Threads : u # t => u # "free" /\ lock # u
  BY ThreadNames
<1>2. \A u \in Threads : op[u].at # "drop"
  BY <1>1, EmptyHands DEF Critical, Registered
<1> QED BY <1>2 DEF Registered, Connected, Connection, At

(* Somebody who waits to disable s is not t, which works on s otherwise. *)
LEMMA StillWaiting ==
    ASSUME NEW t \in Threads, Alone(t), ~At(t, "disable", "lock"), NEW s \in Servers,
           \E u \in Threads : At(u, "disable", "lock") /\ op[u].server = s
    PROVE  \E u \in Threads : At(u, "disable", "lock")' /\ op'[u].server = s
BY DEF Alone, At

LEMMA ReturnShape ==
    ASSUME Registered, NEW t \in Threads, op[t].do # "none", lock \in {t, "free"}, Return(t),
           UNCHANGED <<enabled, todo, call, requests>>
    PROVE  /\ Alone(t) /\ Hand(t)' /\ op'[t].session = 0 /\ \A u \in Threads : lock' # u
           /\ \A u \in Threads : u # t => op'[u] = op[u]
<1>1. /\ op' \in [Threads -> Operations \cup {Idle}] /\ op'[t] = Idle /\ lock' = "free"
      /\ \A u \in Threads : u # t => op'[u] = op[u]
  BY Moves DEF Registered
<1>2. \A u \in Threads : lock' # u
  BY <1>1, ThreadNames
<1>3. Alone(t)
  BY <1>1, <1>2, ThreadNames DEF Alone, Critical
<1>4. Hand(t)'
  BY <1>1, ThreadNames DEF Hand, At
<1> QED BY <1>1, <1>2, <1>3, <1>4, ThreadNames

LEMMA GoToShape ==
    ASSUME Registered, NEW t \in Threads, op[t].do # "none", lock \in {t, "free"}, lock' = t,
           NEW stage \in Critical, NEW x \in Sessions \cup {0}, GoTo(t, stage, x),
           UNCHANGED <<enabled, todo, call, requests>>
    PROVE  /\ Alone(t) /\ \A u \in Threads : u # t => op'[u] = op[u]
           /\ op'[t].at = stage /\ op'[t].session = x
           /\ op'[t].do = op[t].do /\ op'[t].server = op[t].server
<1>1. /\ op' \in [Threads -> Operations \cup {Idle}]
      /\ op'[t].at = stage /\ op'[t].session = x
      /\ op'[t].do = op[t].do /\ op'[t].server = op[t].server
      /\ \A u \in Threads : u # t => op'[u] = op[u]
  BY Moves DEF Registered
<1> QED BY <1>1 DEF Alone

(* A server that t is at work on, and that is to be disabled, has somebody waiting to do it. *)
LEMMA Disabler ==
    ASSUME Registered, NEW t \in Threads, lock = t, op[t].do # "disable", Alone(t),
           NEW s \in Servers, op[t].server = s, ~enabled[s]
    PROVE  \E u \in Threads : At(u, "disable", "lock")' /\ op'[u].server = s
<1>1. \E u \in Threads : At(u, "disable", "lock") /\ op[u].server = s
  BY DEF Registered, Connected, Connection
<1> QED BY <1>1, StillWaiting DEF At

-----------------------------------------------------------------------------
(* The steps of Discover, Health and a disable. *)

LEMMA BeginDiscoverKeeps ==
    ASSUME Registered, NEW t \in Threads, BeginDiscover(t)
    PROVE  Registered'
<1>0. lock = "free" /\ op[t].do = "discover" /\ op[t].at = "lock" /\ op[t].do # "none"
  BY DEF BeginDiscover, At
<1> PICK s \in Servers : s = op[t].server
  BY <1>0, AtWork
<1>1. /\ DataTypes /\ Connection(s) /\ lock # t /\ op[t].session = 0
      /\ \A x \in live : x # 0
  BY <1>0, AtWork, ThreadNames, EmptyHands DEF Registered
<1>2. UNCHANGED <<enabled, tools, hash, changed, last, sessions, todo, call, live, offers, up, dead, flips, requests>>
  BY DEF BeginDiscover, env
<1>3. NoOrphans /\ SameOffers
  BY <1>2 DEF Registered, SameOffers
<1>4. sessions[s] # 0 => sessions[s] \in live
  BY <1>0, NotDropped
<1>5. CASE enabled[s]
  <2>1. status' = [status EXCEPT ![s] = "STARTING"] /\ lock' = t /\ GoTo(t, "close", sessions[s])
    BY <1>5 DEF BeginDiscover
  <2>2. /\ Alone(t) /\ \A u \in Threads : u # t => op'[u] = op[u]
        /\ op'[t].at = "close" /\ op'[t].session = sessions[s]
        /\ op'[t].do = "discover" /\ op'[t].server = s
    <3>1. sessions[s] \in Sessions \cup {0} /\ "close" \in Critical
      BY <1>1 DEF DataTypes, Critical
    <3> QED BY <1>0, <1>2, <2>1, <3>1, GoToShape
  <2>3. status'[s] = "STARTING" /\ DataTypes' /\ Apart(s)
    BY <1>1, <1>2, <2>1 DEF DataTypes, Apart
  <2>4. Hand(t)'
    BY <1>2, <2>1, <2>2, <2>3 DEF Hand, At
  <2>5. Connection(s)'
    BY <1>1, <1>2, <1>4, <1>5, <2>3 DEF Connection
  <2>6. NoOrphans'
    BY <1>1, <1>2, <1>3, <2>2 DEF NoOrphans
  <2> QED BY <1>2, <1>3, <2>2, <2>3, <2>4, <2>5, <2>6, WorkKeeps
<1>6. CASE ~enabled[s]
  <2>1. Return(t) /\ status' = status
    BY <1>6 DEF BeginDiscover
  <2>2. /\ Alone(t) /\ Hand(t)' /\ op'[t].session = 0 /\ \A u \in Threads : lock' # u
        /\ \A u \in Threads : u # t => op'[u] = op[u]
    BY <1>0, <1>2, <2>1, ReturnShape
  <2>3. DataTypes' /\ Apart(s)
    BY <1>1, <1>2, <2>1 DEF DataTypes, Apart
  <2>4. Connection(s)'
    <3>1. (\E u \in Threads : At(u, "disable", "lock") /\ op[u].server = s)
            => (\E u \in Threads : At(u, "disable", "lock")' /\ op'[u].server = s)
      BY <1>0, <2>2, StillWaiting DEF At
    <3> QED BY <1>1, <1>2, <1>4, <2>1, <2>2, <3>1 DEF Connection
  <2>5. NoOrphans'
    BY <1>1, <1>2, <1>3, <2>2 DEF NoOrphans
  <2> QED BY <1>2, <1>3, <2>2, <2>3, <2>4, <2>5, WorkKeeps
<1> QED BY <1>5, <1>6

LEMMA CloseOldKeeps ==
    ASSUME Registered, NEW t \in Threads, CloseOld(t)
    PROVE  Registered'
<1>0. op[t].do = "discover" /\ op[t].at = "close" /\ op[t].do # "none" /\ lock = t
  BY AtWork DEF CloseOld, At, Critical
<1> PICK s \in Servers : s = op[t].server
  BY <1>0, AtWork
<1>1. /\ DataTypes /\ Connection(s) /\ Hand(t)
  BY <1>0, AtWork
<1>2. /\ UNCHANGED <<enabled, status, tools, hash, changed, last, lock, todo, call, offers, up, dead, flips, requests>>
      /\ live' = live \ {op[t].session} /\ sessions' = [sessions EXCEPT ![s] = 0] /\ GoTo(t, "connect", 0)
  BY DEF CloseOld, env, state
<1>3. NoOrphans /\ SameOffers
  BY <1>2 DEF Registered, SameOffers
<1>4. op[t].session = sessions[s] /\ status[s] = "STARTING"
  BY <1>0, <1>1 DEF Hand, At
<1>5. /\ Alone(t) /\ \A u \in Threads : u # t => op'[u] = op[u]
      /\ op'[t].at = "connect" /\ op'[t].session = 0
      /\ op'[t].do = "discover" /\ op'[t].server = s
  <2>1. 0 \in Sessions \cup {0} /\ "connect" \in Critical
    BY DEF Critical
  <2> QED BY <1>0, <1>2, <2>1, GoToShape
<1>6. sessions'[s] = 0 /\ DataTypes' /\ Apart(s)
  <2>1. \A r \in Servers : r # s /\ sessions[r] # 0 => sessions[r] # sessions[s]
    BY DEF Registered, Connected, Connection
  <2> QED BY <1>1, <1>2, <1>4, <2>1 DEF DataTypes, Apart
<1>7. Hand(t)'
  BY <1>0, <1>2, <1>4, <1>5, <1>6 DEF Hand, At
<1>8. Connection(s)'
  BY <1>0, <1>1, <1>2, <1>4, <1>5, <1>6, Disabler DEF Connection
<1>9. NoOrphans'
  BY <1>1, <1>2, <1>3, <1>4, <1>5, <1>6 DEF NoOrphans, DataTypes
<1> QED BY <1>2, <1>3, <1>5, <1>6, <1>7, <1>8, <1>9, WorkKeeps

(***************************************************************************)
(* There is a fresh session to connect with: children, servers and calls   *)
(* take fewer than there are.                                              *)
(***************************************************************************)
LEMMA FreshSession ==
    ASSUME Registered, NEW t \in Threads, lock = t, op[t].session = 0
    PROVE  Unused # {}
<1>0. /\ sessions \in [Servers -> Sessions \cup {0}] /\ NoOrphans /\ live \subseteq Sessions
      /\ \A u \in Threads : op[u].session = 0
  BY EmptyHands DEF Registered, RegistryTypeOK
<1> DEFINE A == {sessions[s] : s \in Servers}
           B == {call[c].session : c \in Callers}
           f == [s \in Servers |-> sessions[s]]
           g == [c \in Callers |-> call[c].session]
<1>1. /\ IsFiniteSet(Servers) /\ IsFiniteSet(Callers)
      /\ Cardinality(Servers) \in Nat /\ Cardinality(Callers) \in Nat
  BY RegistryAssumption, FS_CardinalityType
<1>2. IsFiniteSet(A) /\ Cardinality(A) <= Cardinality(Servers)
  <2>1. f \in Surjection(Servers, A)
    BY DEF Surjection
  <2> QED BY <1>1, <2>1, FS_Surjection
<1>3. IsFiniteSet(B) /\ Cardinality(B) <= Cardinality(Callers)
  <2>1. g \in Surjection(Callers, B)
    BY DEF Surjection
  <2> QED BY <1>1, <2>1, FS_Surjection
<1>4. /\ IsFiniteSet(A \cup B) /\ Cardinality(A \cup B) \in Nat
      /\ Cardinality(A \cup B) <= Cardinality(Servers) + Cardinality(Callers)
  <2>1. IsFiniteSet(A \cup B) /\ Cardinality(A \cup B) = Cardinality(A) + Cardinality(B) - Cardinality(A \cap B)
    BY <1>2, <1>3, FS_Union
  <2>2. IsFiniteSet(A \cap B)
    BY <1>2, FS_Intersection
  <2>3. /\ Cardinality(A) \in Nat /\ Cardinality(B) \in Nat /\ Cardinality(A \cap B) \in Nat
        /\ Cardinality(A \cup B) \in Nat
    BY <1>2, <1>3, <2>1, <2>2, FS_CardinalityType
  <2> QED BY <1>1, <1>2, <1>3, <2>1, <2>3
<1>5. IsFiniteSet(Sessions) /\ Cardinality(Sessions) = Cardinality(Servers) + Cardinality(Callers) + 1
  <2>1. PICK n \in Nat : n = Cardinality(Servers) + Cardinality(Callers) + 1
    BY <1>1
  <2>2. IsFiniteSet(1..n) /\ Cardinality(1..n) = n
    BY <1>1, <2>1, FS_Interval
  <2> QED BY <2>1, <2>2 DEF Sessions
<1>6. ~(Sessions \subseteq A \cup B)
  <2> SUFFICES ASSUME Sessions \subseteq A \cup B PROVE FALSE
    OBVIOUS
  <2>1. Cardinality(Sessions) <= Cardinality(A \cup B)
    BY <1>4, FS_Subset
  <2> HIDE DEF A, B
  <2> QED BY <1>1, <1>4, <1>5, <2>1
<1>7. PICK x \in Sessions : x \notin A /\ x \notin B
  BY <1>6
<1>8. x \notin live /\ x \notin {op[u].session : u \in Threads}
  BY <1>0, <1>7, ThreadNames DEF NoOrphans
<1> QED BY <1>7, <1>8 DEF Unused

LEMMA ConnectKeeps ==
    ASSUME Registered, NEW t \in Threads, Connect(t)
    PROVE  Registered'
<1>0. op[t].do = "discover" /\ op[t].at = "connect" /\ op[t].do # "none" /\ lock = t
  BY AtWork DEF Connect, At, Critical
<1> PICK s \in Servers : s = op[t].server
  BY <1>0, AtWork
<1>1. /\ DataTypes /\ Connection(s) /\ Hand(t) /\ \A y \in live : y # 0
  BY <1>0, AtWork
<1>2. UNCHANGED <<enabled, sessions, todo, call, up, flips, requests>> /\ NoOrphans
  BY DEF Connect, Registered
<1>3. op[t].session = 0 /\ sessions[s] = 0 /\ status[s] = "STARTING"
  BY <1>0, <1>1 DEF Hand, At
<1>4. ASSUME NEW set \in ToolSets, NEW x, x = CHOOSE y \in Unused : TRUE,
             live' = live \cup {x}, dead' = dead \ {x}, offers' = [offers EXCEPT ![x] = set],
             GoTo(t, "list", x), UNCHANGED <<state, lock>>
      PROVE  Registered'
  <2>1. /\ x \in Sessions /\ x \notin live /\ (\A r \in Servers : sessions[r] # x)
        /\ \A c \in Callers : call[c].session # x
    <3>1. x \in Unused
      BY <1>0, <1>3, <1>4, FreshSession
    <3> QED BY <3>1 DEF Unused
  <2>2. /\ Alone(t) /\ \A u \in Threads : u # t => op'[u] = op[u]
        /\ op'[t].at = "list" /\ op'[t].session = x
        /\ op'[t].do = "discover" /\ op'[t].server = s
    <3>1. "list" \in Critical
      BY DEF Critical
    <3> QED BY <1>0, <1>2, <1>4, <2>1, <3>1, GoToShape
  <2>3. UNCHANGED <<status, tools, hash, changed, last>> /\ lock' = t
    BY <1>0, <1>4 DEF state
  <2>4. DataTypes'
    BY <1>1, <1>2, <1>4, <2>1, <2>3 DEF DataTypes, Listings
  <2>5. offers' \in [Sessions -> Listings] /\ \A y \in Sessions : y # x => offers'[y] = offers[y]
    BY <1>1, <1>4, <2>4 DEF DataTypes
  <2>6. Apart(s)
    BY <1>1, <1>2, <1>4, <2>1, <2>3, <2>5 DEF Apart, DataTypes
  <2>7. SameOffers
    BY <2>1, <2>5 DEF SameOffers, Registered, RegistryTypeOK
  <2>8. Hand(t)'
    BY <1>2, <1>3, <1>4, <2>1, <2>2, <2>3 DEF Hand, At
  <2>9. Connection(s)'
    BY <1>0, <1>1, <1>2, <1>3, <2>2, <2>3, Disabler DEF Connection
  <2>10. NoOrphans'
    <3>1. ASSUME NEW y \in live
          PROVE  (\E r \in Servers : sessions[r] = y) \/ (\E u \in Threads : op'[u].session = y)
      <4>1. y # 0
        BY <1>1
      <4> QED BY <1>2, <1>3, <2>2, <4>1 DEF NoOrphans
    <3>2. op'[t].session = x /\ live' = live \cup {x} /\ sessions' = sessions
      BY <1>2, <1>4, <2>2
    <3> QED BY <3>1, <3>2 DEF NoOrphans
  <2> QED BY <1>2, <2>2, <2>4, <2>6, <2>7, <2>8, <2>9, <2>10, WorkKeeps
<1>5. ASSUME RecordFailure(s), Return(t), UNCHANGED <<live, dead, offers>>
      PROVE  Registered'
  <2>1. /\ Alone(t) /\ Hand(t)' /\ op'[t].session = 0 /\ \A u \in Threads : lock' # u
        /\ \A u \in Threads : u # t => op'[u] = op[u]
    BY <1>0, <1>2, <1>5, ReturnShape
  <2>2. status' = [status EXCEPT ![s] = "UNHEALTHY"] /\ UNCHANGED <<tools, hash, changed, last>>
    BY <1>5 DEF RecordFailure
  <2>3. status'[s] = "UNHEALTHY" /\ DataTypes' /\ Apart(s)
    BY <1>1, <1>2, <1>5, <2>2 DEF DataTypes, Apart
  <2>4. Connection(s)'
    BY <1>0, <1>1, <1>2, <1>3, <2>1, <2>2, <2>3, Disabler DEF Connection
  <2>5. NoOrphans' /\ SameOffers
    BY <1>1, <1>2, <1>3, <1>5, <2>1 DEF NoOrphans, SameOffers
  <2> QED BY <1>2, <2>1, <2>3, <2>4, <2>5, WorkKeeps
<1> QED BY <1>4, <1>5 DEF Connect

LEMMA ListToolsKeeps ==
    ASSUME Registered, NEW t \in Threads, ListTools(t)
    PROVE  Registered'
<1>0. op[t].do = "discover" /\ op[t].at = "list" /\ op[t].do # "none" /\ lock = t
  BY AtWork DEF ListTools, At, Critical
<1> PICK s \in Servers : s = op[t].server
  BY <1>0, AtWork
<1> PICK x : x = op[t].session
  OBVIOUS
<1>1. /\ DataTypes /\ Connection(s) /\ Hand(t) /\ \A y \in live : y # 0
  BY <1>0, AtWork
<1>2. UNCHANGED <<enabled, todo, call, offers, up, dead, flips, requests>> /\ NoOrphans /\ Return(t) /\ SameOffers
  BY DEF ListTools, env, Registered, SameOffers
<1>3. /\ x \in live /\ x \in Sessions /\ x # 0 /\ sessions[s] = 0 /\ status[s] = "STARTING"
      /\ \A r \in Servers : sessions[r] # x
  BY <1>0, <1>1 DEF Hand, At, DataTypes
<1>4. /\ Alone(t) /\ Hand(t)' /\ op'[t].session = 0 /\ \A u \in Threads : lock' # u
      /\ \A u \in Threads : u # t => op'[u] = op[u]
  BY <1>0, <1>2, ReturnShape
<1>5. CASE Publish(s, x) /\ live' = live
  <2>1. /\ sessions' = [sessions EXCEPT ![s] = x] /\ status' = [status EXCEPT ![s] = "HEALTHY"]
        /\ changed' = [changed EXCEPT ![s] = (hash[s] # {} /\ hash[s] # offers[x])]
        /\ hash' = [hash EXCEPT ![s] = offers[x]] /\ tools' = [tools EXCEPT ![s] = offers[x]]
        /\ last' = [last EXCEPT ![s] = <<last[s][2], offers[x]>>]
    BY <1>5 DEF Publish
  <2>2. /\ sessions'[s] = x /\ hash'[s] = offers[x] /\ tools'[s] = offers[x]
        /\ last'[s] = <<hash[s], offers[x]>>
        /\ \A r \in Servers : r # s => sessions'[r] = sessions[r]
    BY <1>1, <2>1 DEF DataTypes, Connection
  <2>3. changed'[s] = (hash[s] # {} /\ hash[s] # offers[x])
    BY <1>1, <2>1 DEF DataTypes
  <2>4. DataTypes' /\ Apart(s)
    <3>1. offers[x] \in Listings /\ last[s][2] \in Listings
      BY <1>1, <1>3 DEF DataTypes
    <3> QED BY <1>1, <1>2, <1>3, <1>5, <2>1, <3>1 DEF DataTypes, Apart
  <2>5. changed'[s] = (last'[s][1] # {} /\ last'[s][1] # last'[s][2])
    BY <2>2, <2>3
  <2>6. Connection(s)'
    BY <1>0, <1>2, <1>3, <1>4, <1>5, <2>2, <2>5, Disabler DEF Connection
  <2>7. NoOrphans'
    BY <1>1, <1>2, <1>3, <1>4, <1>5, <2>2 DEF NoOrphans
  <2> QED BY <1>2, <1>4, <2>4, <2>6, <2>7, WorkKeeps
<1>6. CASE RecordFailure(s) /\ live' = live \ {x} /\ sessions' = sessions
  <2>1. status' = [status EXCEPT ![s] = "UNHEALTHY"] /\ UNCHANGED <<tools, hash, changed, last>>
    BY <1>6 DEF RecordFailure
  <2>2. status'[s] = "UNHEALTHY" /\ DataTypes' /\ Apart(s)
    BY <1>1, <1>2, <1>3, <1>6, <2>1 DEF DataTypes, Apart
  <2>3. Connection(s)'
    BY <1>0, <1>1, <1>2, <1>3, <1>4, <1>6, <2>1, <2>2, Disabler DEF Connection
  <2>4. NoOrphans'
    BY <1>2, <1>4, <1>6 DEF NoOrphans
  <2> QED BY <1>2, <1>4, <2>2, <2>3, <2>4, WorkKeeps
<1> QED BY <1>5, <1>6 DEF ListTools

LEMMA BeginHealthKeeps ==
    ASSUME Registered, NEW t \in Threads, BeginHealth(t)
    PROVE  Registered'
<1>0. lock = "free" /\ op[t].do = "health" /\ op[t].at = "lock" /\ op[t].do # "none"
  BY DEF BeginHealth, At
<1> PICK s \in Servers : s = op[t].server
  BY <1>0, AtWork
<1>1. /\ DataTypes /\ Connection(s) /\ lock # t /\ op[t].session = 0
      /\ \A x \in live : x # 0
  BY <1>0, AtWork, ThreadNames, EmptyHands DEF Registered
<1>2. UNCHANGED <<enabled, status, tools, hash, changed, last, sessions, todo, call, live, offers, up, dead, flips, requests>>
  BY DEF BeginHealth, env, state
<1>3. NoOrphans /\ SameOffers /\ DataTypes' /\ Apart(s)
  BY <1>1, <1>2 DEF Registered, SameOffers, DataTypes, Apart
<1>4. sessions[s] # 0 => sessions[s] \in live
  BY <1>0, NotDropped
<1>5. CASE enabled[s]
  <2>1. lock' = t /\ GoTo(t, "ping", sessions[s])
    BY <1>5 DEF BeginHealth
  <2>2. /\ Alone(t) /\ \A u \in Threads : u # t => op'[u] = op[u]
        /\ op'[t].at = "ping" /\ op'[t].session = sessions[s]
        /\ op'[t].do = "health" /\ op'[t].server = s
    <3>1. sessions[s] \in Sessions \cup {0} /\ "ping" \in Critical
      BY <1>1 DEF DataTypes, Critical
    <3> QED BY <1>0, <1>2, <2>1, <3>1, GoToShape
  <2>3. Hand(t)'
    BY <1>2, <2>1, <2>2 DEF Hand, At
  <2>4. Connection(s)'
    BY <1>1, <1>2, <1>4, <1>5 DEF Connection
  <2>5. NoOrphans'
    BY <1>1, <1>2, <1>3, <2>2 DEF NoOrphans
  <2> QED BY <1>2, <1>3, <2>2, <2>3, <2>4, <2>5, WorkKeeps
<1>6. CASE ~enabled[s]
  <2>1. Return(t)
    BY <1>6 DEF BeginHealth
  <2>2. /\ Alone(t) /\ Hand(t)' /\ op'[t].session = 0 /\ \A u \in Threads : lock' # u
        /\ \A u \in Threads : u # t => op'[u] = op[u]
    BY <1>0, <1>2, <2>1, ReturnShape
  <2>3. Connection(s)'
    <3>1. (\E u \in Threads : At(u, "disable", "lock") /\ op[u].server = s)
            => (\E u \in Threads : At(u, "disable", "lock")' /\ op'[u].server = s)
      BY <1>0, <2>2, StillWaiting DEF At
    <3> QED BY <1>1, <1>2, <1>4, <2>2, <3>1 DEF Connection
  <2>4. NoOrphans'
    BY <1>1, <1>2, <1>3, <2>2 DEF NoOrphans
  <2> QED BY <1>2, <1>3, <2>2, <2>3, <2>4, WorkKeeps
<1> QED BY <1>5, <1>6

LEMMA PingKeeps ==
    ASSUME Registered, NEW t \in Threads, Ping(t)
    PROVE  Registered'
<1>0. op[t].do = "health" /\ op[t].at = "ping" /\ op[t].do # "none" /\ lock = t
  BY AtWork DEF Ping, At, Critical
<1> PICK s \in Servers : s = op[t].server
  BY <1>0, AtWork
<1> PICK x : x = op[t].session
  OBVIOUS
<1>1. /\ DataTypes /\ Connection(s) /\ Hand(t) /\ \A y \in live : y # 0
  BY <1>0, AtWork
<1>2. UNCHANGED <<enabled, sessions, todo, call, offers, up, dead, flips, requests>> /\ NoOrphans /\ SameOffers
  BY DEF Ping, env, Registered, SameOffers
<1>3. x = sessions[s] /\ (sessions[s] # 0 => sessions[s] \in live)
  BY <1>0, <1>1, NotDropped DEF Hand, At
<1>4. ASSUME Return(t), live' = live, UNCHANGED <<tools, hash, changed, last>>,
             \/ status' = status
             \/ status' = [status EXCEPT ![s] = "UNHEALTHY"]
             \/ status' = [status EXCEPT ![s] = "HEALTHY"] /\ x # 0
      PROVE  Registered'
  <2>1. /\ Alone(t) /\ Hand(t)' /\ op'[t].session = 0 /\ \A u \in Threads : lock' # u
        /\ \A u \in Threads : u # t => op'[u] = op[u]
    BY <1>0, <1>2, <1>4, ReturnShape
  <2>2. DataTypes' /\ Apart(s) /\ (status'[s] = "HEALTHY" => sessions[s] # 0)
    BY <1>1, <1>2, <1>3, <1>4 DEF DataTypes, Apart, Connection
  <2>3. Connection(s)'
    BY <1>0, <1>1, <1>2, <1>3, <1>4, <2>1, <2>2, Disabler DEF Connection
  <2>4. NoOrphans'
    <3>1. live' = live /\ sessions' = sessions /\ op[t].session = sessions[s]
      BY <1>2, <1>3, <1>4
    <3> QED BY <1>2, <2>1, <3>1 DEF NoOrphans
  <2> QED BY <1>2, <2>1, <2>2, <2>3, <2>4, WorkKeeps
<1>5. ASSUME x # 0, live' = live \ {x}, GoTo(t, "drop", x), UNCHANGED <<status, tools, hash, changed, last, lock>>
      PROVE  Registered'
  <2>1. /\ Alone(t) /\ \A u \in Threads : u # t => op'[u] = op[u]
        /\ op'[t].at = "drop" /\ op'[t].session = x
        /\ op'[t].do = "health" /\ op'[t].server = s
    <3>1. x \in Sessions \cup {0} /\ "drop" \in Critical
      BY <1>1, <1>3 DEF DataTypes, Critical
    <3> QED BY <1>0, <1>2, <1>5, <3>1, GoToShape
  <2>2. DataTypes' /\ Apart(s)
    <3>1. \A r \in Servers : r # s /\ sessions[r] # 0 => sessions[r] # sessions[s]
      BY DEF Registered, Connected, Connection
    <3> QED BY <1>1, <1>2, <1>3, <1>5, <3>1 DEF DataTypes, Apart
  <2>3. Hand(t)'
    BY <1>0, <1>2, <1>3, <1>5, <2>1 DEF Hand, At
  <2>4. Connection(s)'
    <3>1. At(t, "health", "drop")' /\ op'[t].server = s
      BY <2>1 DEF At
    <3> QED BY <1>0, <1>1, <1>2, <1>3, <1>5, <2>1, <3>1, Disabler DEF Connection
  <2>5. NoOrphans'
    BY <1>2, <1>5, <2>1 DEF NoOrphans
  <2> QED BY <1>2, <2>1, <2>2, <2>3, <2>4, <2>5, WorkKeeps
<1> QED BY <1>4, <1>5 DEF Ping, RecordFailure, state

LEMMA DropKeeps ==
    ASSUME Registered, NEW t \in Threads, Drop(t)
    PROVE  Registered'
<1>0. op[t].do = "health" /\ op[t].at = "drop" /\ op[t].do # "none" /\ lock = t
  BY AtWork DEF Drop, At, Critical
<1> PICK s \in Servers : s = op[t].server
  BY <1>0, AtWork
<1>1. /\ DataTypes /\ Connection(s) /\ Hand(t)
  BY <1>0, AtWork
<1>2. /\ UNCHANGED <<enabled, tools, hash, changed, last, todo, call, live, offers, up, dead, flips, requests>>
      /\ status' = [status EXCEPT ![s] = "UNHEALTHY"] /\ Return(t) /\ NoOrphans /\ SameOffers
  BY DEF Drop, env, Registered, SameOffers, RecordFailure
<1>3. op[t].session = sessions[s] /\ sessions[s] \notin live /\ sessions' = [sessions EXCEPT ![s] = 0]
  <2>1. op[t].session = sessions[s] /\ sessions[s] \notin live
    BY <1>0, <1>1 DEF Hand, At
  <2>2. sessions' = [sessions EXCEPT ![s] = IF sessions[s] = op[t].session THEN 0 ELSE sessions[s]]
    BY DEF Drop
  <2> QED BY <2>1, <2>2
<1>4. /\ Alone(t) /\ Hand(t)' /\ op'[t].session = 0 /\ \A u \in Threads : lock' # u
      /\ \A u \in Threads : u # t => op'[u] = op[u]
  BY <1>0, <1>2, ReturnShape
<1>5. status'[s] = "UNHEALTHY" /\ sessions'[s] = 0 /\ DataTypes' /\ Apart(s)
  BY <1>1, <1>2, <1>3 DEF DataTypes, Apart
<1>6. Connection(s)'
  BY <1>0, <1>1, <1>2, <1>4, <1>5, Disabler DEF Connection
<1>7. NoOrphans'
  BY <1>1, <1>2, <1>3, <1>4, <1>5 DEF NoOrphans, Apart
<1> QED BY <1>2, <1>4, <1>5, <1>6, <1>7, WorkKeeps

LEMMA DisableKeeps ==
    ASSUME Registered, NEW t \in Threads, Disable(t)
    PROVE  Registered'
<1>0. lock = "free" /\ op[t].do = "disable" /\ op[t].at = "lock" /\ op[t].do # "none"
  BY DEF Disable, At
<1> PICK s \in Servers : s = op[t].server
  BY <1>0, AtWork
<1>1. /\ DataTypes /\ Connection(s) /\ lock # t /\ op[t].session = 0
      /\ \A x \in live : x # 0
  BY <1>0, AtWork, ThreadNames, EmptyHands DEF Registered
<1>2. /\ UNCHANGED <<enabled, hash, last, todo, call, live, offers, up, dead, flips, requests>>
      /\ sessions' = [sessions EXCEPT ![s] = 0] /\ status' = [status EXCEPT ![s] = "DISABLED"]
      /\ tools' = [tools EXCEPT ![s] = {}] /\ changed' = [changed EXCEPT ![s] = FALSE]
      /\ lock' = t /\ GoTo(t, "close", sessions[s])
  BY DEF Disable, env
<1>3. NoOrphans /\ SameOffers
  BY <1>2 DEF Registered, SameOffers
<1>4. /\ Alone(t) /\ \A u \in Threads : u # t => op'[u] = op[u]
      /\ op'[t].at = "close" /\ op'[t].session = sessions[s]
      /\ op'[t].do = "disable" /\ op'[t].server = s
  <2>1. sessions[s] \in Sessions \cup {0} /\ "close" \in Critical
    BY <1>1 DEF DataTypes, Critical
  <2> QED BY <1>0, <1>2, <2>1, GoToShape
<1>5. status'[s] = "DISABLED" /\ sessions'[s] = 0 /\ DataTypes' /\ Apart(s)
  BY <1>1, <1>2 DEF DataTypes, Apart, Listings
<1>6. Hand(t)'
  <2>1. \A r \in Servers : sessions'[r] = sessions[s] => sessions[s] = 0
    BY <1>1, <1>5 DEF Connection, Apart
  <2> QED BY <1>2, <1>4, <1>5, <2>1 DEF Hand, At
<1>7. Connection(s)'
  BY <1>1, <1>2, <1>4, <1>5 DEF Connection, Alone
<1>8. NoOrphans'
  BY <1>1, <1>2, <1>3, <1>4, <1>5 DEF NoOrphans, Apart
<1> QED BY <1>2, <1>3, <1>4, <1>5, <1>6, <1>7, <1>8, WorkKeeps

LEMMA CloseDisabledKeeps ==
    ASSUME Registered, NEW t \in Threads, CloseDisabled(t)
    PROVE  Registered'
<1>0. op[t].do = "disable" /\ op[t].at = "close" /\ op[t].do # "none" /\ lock = t
  BY AtWork DEF CloseDisabled, At, Critical
<1> PICK s \in Servers : s = op[t].server
  BY <1>0, AtWork
<1>1. /\ DataTypes /\ Connection(s) /\ Hand(t)
  BY <1>0, AtWork
<1>2. /\ UNCHANGED <<enabled, status, tools, hash, changed, last, sessions, todo, call, offers, up, dead, flips, requests>>
      /\ live' = live \ {op[t].session} /\ Return(t) /\ NoOrphans /\ SameOffers
  BY DEF CloseDisabled, env, state, Registered, SameOffers
<1>3. /\ status[s] = "DISABLED" /\ sessions[s] = 0
      /\ \A r \in Servers : sessions[r] # 0 => sessions[r] # op[t].session
  BY <1>0, <1>1 DEF Hand, At
<1>4. /\ Alone(t) /\ Hand(t)' /\ op'[t].session = 0 /\ \A u \in Threads : lock' # u
      /\ \A u \in Threads : u # t => op'[u] = op[u]
  BY <1>0, <1>2, ReturnShape
<1>5. DataTypes' /\ Apart(s)
  BY <1>1, <1>2, <1>3 DEF DataTypes, Apart
<1>6. Connection(s)'
  BY <1>1, <1>2, <1>3, <1>4 DEF Connection
<1>7. NoOrphans'
  BY <1>2, <1>4 DEF NoOrphans
<1> QED BY <1>2, <1>4, <1>5, <1>6, <1>7, WorkKeeps

-----------------------------------------------------------------------------
(* Requests, the health loop's next server, calls and failures. *)

(* Nothing that the invariant is about changes but what t has begun, and the manifest. *)
LEMMA BeginKeeps ==
    ASSUME Registered, NEW t \in Threads, op[t] = Idle, NEW s \in Servers,
           NEW do \in {"discover", "health", "disable"}, Begin(t, do, s),
           UNCHANGED <<state, sessions, lock, call, live, offers, up, dead, flips>>,
           todo' \subseteq Servers, requests' \in 0..MaxRequests, enabled' \in [Servers -> BOOLEAN],
           \A r \in Servers : enabled'[r] = enabled[r] \/ (r = s /\ (enabled'[r] \/ do = "disable"))
    PROVE  Registered'
<1>0. /\ RegistryTypeOK /\ InHand /\ Connected /\ NoOrphans /\ CallsOffered
      /\ UNCHANGED <<status, tools, hash, changed, last>>
  BY DEF Registered, state
<1>1. /\ op' \in [Threads -> Operations \cup {Idle}]
      /\ op'[t].do = do /\ op'[t].at = "lock" /\ op'[t].server = s /\ op'[t].session = 0
      /\ \A u \in Threads : u # t => op'[u] = op[u]
  <2> DEFINE n == [do |-> do, at |-> "lock", server |-> s, session |-> 0]
  <2>1. n \in Operations /\ n.do = do /\ n.at = "lock" /\ n.server = s /\ n.session = 0
    BY DEF Operations
  <2>2. op \in [Threads -> Operations \cup {Idle}] /\ op' = [op EXCEPT ![t] = n]
    BY <1>0 DEF RegistryTypeOK, Begin
  <2> HIDE DEF n
  <2> QED BY <2>1, <2>2
<1>2. lock # t /\ op[t].at = "" /\ op[t].session = 0
  BY <1>0, ThreadNames DEF RegistryTypeOK, Critical
<1>3. RegistryTypeOK'
  <2>1. \A u \in Threads : op'[u].at \in Critical <=> lock' = u
    BY <1>0, <1>1, <1>2 DEF RegistryTypeOK, Critical
  <2> QED BY <1>0, <1>1, <2>1 DEF RegistryTypeOK
<1>4. InHand'
  <2>1. ASSUME NEW u \in Threads, u # t PROVE Hand(u)'
    <3>1. Hand(u) /\ op'[u] = op[u]
      BY <1>0, <1>1, <2>1 DEF InHand
    <3> QED BY <1>0, <3>1 DEF Hand, At
  <2>2. Hand(t)'
    BY <1>1, <1>2 DEF Hand, At
  <2> QED BY <2>1, <2>2 DEF InHand
<1>5. Connected'
  <2> SUFFICES ASSUME NEW r \in Servers PROVE Connection(r)'
    BY DEF Connected
  <2>1. Connection(r)
    BY <1>0 DEF Connected
  <2>2. \A u \in Threads : At(u, "health", "drop") => At(u, "health", "drop")' /\ op'[u].server = op[u].server
    BY <1>1, <1>2 DEF At
  <2>3. \A u \in Threads : At(u, "disable", "lock") => At(u, "disable", "lock")' /\ op'[u].server = op[u].server
    BY <1>1, <1>2 DEF At
  <2>4. \A u \in Threads : lock' = u => op'[u] = op[u] /\ lock = u
    BY <1>1, <1>2
  <2>5. ASSUME ~enabled'[r], enabled[r] PROVE At(t, "disable", "lock")' /\ op'[t].server = r
    BY <1>1, <2>5 DEF At
  <2>6. ASSUME ~enabled'[r]
        PROVE  \/ \E u \in Threads : At(u, "disable", "lock")' /\ op'[u].server = r
               \/ /\ status[r] = "DISABLED" /\ sessions[r] = 0
                  /\ \A u \in Threads : op'[u].server = r /\ lock' = u => op'[u].do = "disable"
    BY <2>1, <2>3, <2>4, <2>5, <2>6 DEF Connection
  <2> QED BY <1>0, <2>1, <2>2, <2>6 DEF Connection
<1>6. NoOrphans'
  <2>1. \A x \in live : x # 0
    BY <1>0, ThreadNames DEF RegistryTypeOK
  <2>2. live' = live /\ sessions' = sessions
    BY <1>0
  <2>3. ASSUME NEW u \in Threads, op[u].session # 0 PROVE op'[u].session = op[u].session
    BY <1>1, <1>2, <2>3
  <2> SUFFICES ASSUME NEW x \in live
               PROVE  \/ \E r \in Servers : sessions[r] = x
                      \/ \E u \in Threads : op'[u].session = x
    BY <2>2 DEF NoOrphans
  <2>4. CASE \E r \in Servers : sessions[r] = x
    BY <2>4
  <2>5. CASE \E u \in Threads : op[u].session = x
    BY <2>1, <2>3, <2>5
  <2> QED BY <1>0, <2>4, <2>5 DEF NoOrphans
<1>7. CallsOffered'
  BY <1>0 DEF CallsOffered
<1> QED BY <1>3, <1>4, <1>5, <1>6, <1>7 DEF Registered

LEMMA RequestKeeps ==
    ASSUME Registered, NEW h \in Handlers, NEW s \in Servers, Request(h, s)
    PROVE  Registered'
<1>0. /\ h \in Threads /\ op[h] = Idle /\ requests' \in 0..MaxRequests
      /\ UNCHANGED <<state, sessions, lock, todo, call, live, offers, up, dead, flips>>
      /\ todo' \subseteq Servers /\ enabled \in [Servers -> BOOLEAN]
  <2>1. requests \in 0..MaxRequests /\ MaxRequests \in Nat
    BY RegistryAssumption DEF Registered, RegistryTypeOK
  <2>2. requests' \in 0..MaxRequests
    BY <2>1 DEF Request
  <2> QED BY <2>2, ThreadNames DEF Request, env, Registered, RegistryTypeOK
<1>1. CASE Begin(h, "discover", s) /\ enabled' = [enabled EXCEPT ![s] = TRUE]
  <2>1. enabled' \in [Servers -> BOOLEAN] /\ \A r \in Servers : enabled'[r] = enabled[r] \/ (r = s /\ enabled'[r])
    BY <1>0, <1>1
  <2> QED BY <1>0, <1>1, <2>1, BeginKeeps
<1>2. CASE Begin(h, "disable", s) /\ enabled' = [enabled EXCEPT ![s] = FALSE]
  <2>1. enabled' \in [Servers -> BOOLEAN] /\ \A r \in Servers : enabled'[r] = enabled[r] \/ r = s
    BY <1>0, <1>2
  <2> QED BY <1>0, <1>2, <2>1, BeginKeeps
<1>3. CASE (Begin(h, "discover", s) \/ Begin(h, "health", s)) /\ enabled' = enabled
  BY <1>0, <1>3, BeginKeeps
<1> QED BY <1>1, <1>2, <1>3 DEF Request

LEMMA CheckServerKeeps ==
    ASSUME Registered, NEW s \in Servers, CheckServer(s)
    PROVE  Registered'
<1>0. /\ "loop" \in Threads /\ op["loop"] = Idle /\ requests' = requests /\ enabled' = enabled
      /\ UNCHANGED <<state, sessions, lock, call, live, offers, up, dead, flips>>
      /\ todo' \subseteq Servers /\ enabled \in [Servers -> BOOLEAN] /\ requests \in 0..MaxRequests
  BY ThreadNames DEF CheckServer, env, Registered, RegistryTypeOK
<1>1. Begin("loop", "discover", s) \/ Begin("loop", "health", s)
  BY DEF CheckServer
<1> QED BY <1>0, <1>1, BeginKeeps

(* Steps that touch neither servers nor threads. *)
LEMMA StillKeeps ==
    ASSUME Registered, UNCHANGED <<enabled, state, sessions, lock, op, live, offers, requests>>,
           todo' \subseteq Servers, dead' \subseteq Sessions, up' \in [Servers -> BOOLEAN],
           flips' \in 0..MaxFlips, call' \in [Callers -> [session : Sessions, tool : Tools] \cup {NoCall}],
           CallsOffered'
    PROVE  Registered'
<1>0. /\ RegistryTypeOK /\ InHand /\ Connected /\ NoOrphans
      /\ UNCHANGED <<status, tools, hash, changed, last>>
  BY DEF Registered, state
<1>1. RegistryTypeOK'
  BY <1>0 DEF RegistryTypeOK
<1>2. InHand' /\ NoOrphans'
  BY <1>0 DEF InHand, Hand, At, NoOrphans
<1>3. Connected'
  BY <1>0 DEF Connected, Connection, At
<1> QED BY <1>1, <1>2, <1>3 DEF Registered

LEMMA OutsideKeeps ==
    ASSUME Registered,
           \/ BeginCycle
           \/ \E c \in Callers : Send(c) \/ (\E s \in Servers : Lookup(c, s))
           \/ \E s \in Servers : Flip(s)
           \/ UNCHANGED vars
    PROVE  Registered'
<1>0. /\ RegistryTypeOK /\ CallsOffered
      /\ todo \subseteq Servers /\ dead \subseteq Sessions /\ up \in [Servers -> BOOLEAN]
      /\ call \in [Callers -> [session : Sessions, tool : Tools] \cup {NoCall}]
      /\ flips \in 0..MaxFlips /\ sessions \in [Servers -> Sessions \cup {0}] /\ MaxFlips \in Nat
  BY RegistryAssumption DEF Registered, RegistryTypeOK
<1>1. CASE BeginCycle \/ UNCHANGED vars
  <2>1. /\ UNCHANGED <<enabled, state, sessions, lock, op, live, offers, requests>>
        /\ UNCHANGED <<call, dead, up, flips>> /\ todo' \subseteq Servers
    BY <1>0, <1>1 DEF BeginCycle, vars, state, env
  <2>2. CallsOffered'
    BY <1>0, <2>1 DEF CallsOffered
  <2> QED BY <1>0, <2>1, <2>2, StillKeeps
<1>2. ASSUME NEW c \in Callers, Send(c) PROVE Registered'
  <2>1. /\ UNCHANGED <<enabled, state, sessions, lock, op, live, offers, requests>>
        /\ UNCHANGED <<todo, dead, up, flips>> /\ call' = [call EXCEPT ![c] = NoCall]
    BY <1>2 DEF Send, env
  <2>2. CallsOffered'
    BY <1>0, <2>1 DEF CallsOffered
  <2> QED BY <1>0, <2>1, <2>2, StillKeeps
<1>3. ASSUME NEW c \in Callers, NEW s \in Servers, Lookup(c, s) PROVE Registered'
  <2>1. /\ UNCHANGED <<enabled, state, sessions, lock, op, live, offers, requests>>
        /\ UNCHANGED <<todo, dead, up, flips>> /\ sessions[s] # 0
    BY <1>3 DEF Lookup, env
  <2>2. PICK tool \in tools[s] : call' = [call EXCEPT ![c] = [session |-> sessions[s], tool |-> tool]]
    BY <1>3 DEF Lookup
  <2>3. tools[s] = offers[sessions[s]] /\ sessions[s] \in Sessions
    BY <1>0, <2>1 DEF Registered, Connected, Connection
  <2>4. tool \in Tools
    BY <1>0, <2>2 DEF RegistryTypeOK, Listings, Tools
  <2>5. call' \in [Callers -> [session : Sessions, tool : Tools] \cup {NoCall}]
    BY <1>0, <2>2, <2>3, <2>4
  <2>6. CallsOffered'
    BY <1>0, <2>1, <2>2, <2>3 DEF CallsOffered
  <2> QED BY <1>0, <2>1, <2>5, <2>6, StillKeeps
<1>4. ASSUME NEW s \in Servers, Flip(s) PROVE Registered'
  <2>1. /\ UNCHANGED <<enabled, state, sessions, lock, op, live, offers, requests>>
        /\ UNCHANGED <<todo, call>>
    BY <1>4 DEF Flip
  <2>2. flips' \in 0..MaxFlips
    BY <1>0, <1>4 DEF Flip
  <2>3. dead' \subseteq Sessions /\ up' \in [Servers -> BOOLEAN]
    <3>1. CASE up' = [up EXCEPT ![s] = ~up[s]] /\ dead' = dead
      BY <1>0, <3>1
    <3>2. CASE sessions[s] \notin dead \cup {0} /\ dead' = dead \cup {sessions[s]} /\ up' = up
      BY <1>0, <3>2
    <3> QED BY <1>4, <3>1, <3>2 DEF Flip
  <2>4. CallsOffered'
    BY <1>0, <2>1 DEF CallsOffered
  <2> QED BY <1>0, <2>1, <2>2, <2>3, <2>4, StillKeeps
<1> QED BY <1>1, <1>2, <1>3, <1>4

-----------------------------------------------------------------------------
LEMMA RegisteredStep ==
    ASSUME Registered, [Next]_vars
    PROVE  Registered'
<1>1. ASSUME NEW t \in Threads, Work(t) PROVE Registered'
  BY <1>1, BeginDiscoverKeeps, CloseOldKeeps, ConnectKeeps, ListToolsKeeps, BeginHealthKeeps,
     PingKeeps, DropKeeps, DisableKeeps, CloseDisabledKeeps DEF Work
<1>2. "loop" \in Threads /\ Handlers \subseteq Threads
  BY ThreadNames
<1> QED BY <1>1, <1>2, RequestKeeps, CheckServerKeeps, OutsideKeeps DEF Next, Loop

LEMMA RegisteredInit ==
    ASSUME Init
    PROVE  Registered
<1>0. /\ \A t \in Threads : op[t] = Idle /\ op[t].do = "none" /\ op[t].at = "" /\ op[t].session = 0
      /\ \A t \in Threads : lock # t
      /\ \A s \in Servers : /\ status[s] = "DISABLED" /\ sessions[s] = 0 /\ hash[s] = {}
                            /\ last[s] = <<{}, {}>>
      /\ \A c \in Callers : call[c] = NoCall
      /\ live = {} /\ lock = "free"
  BY ThreadNames DEF Init
<1>1. RegistryTypeOK
  <2>1. /\ enabled \in [Servers -> BOOLEAN] /\ up \in [Servers -> BOOLEAN]
        /\ changed \in [Servers -> BOOLEAN]
    BY DEF Init
  <2>2. status \in [Servers -> {"DISABLED", "STARTING", "HEALTHY", "UNHEALTHY"}]
    BY DEF Init
  <2>3. tools \in [Servers -> Listings] /\ hash \in [Servers -> Listings]
    BY DEF Init, Listings
  <2>4. last \in [Servers -> Listings \X Listings]
    BY DEF Init, Listings
  <2>5. sessions \in [Servers -> Sessions \cup {0}]
    BY DEF Init
  <2>6. op \in [Threads -> Operations \cup {Idle}] /\ todo \subseteq Servers
    BY DEF Init
  <2>7. call \in [Callers -> [session : Sessions, tool : Tools] \cup {NoCall}]
    BY DEF Init
  <2>8. live \cup dead \subseteq Sessions /\ offers \in [Sessions -> Listings]
    BY DEF Init, Listings
  <2>9. requests \in 0..MaxRequests /\ flips \in 0..MaxFlips
    BY RegistryAssumption DEF Init
  <2>10. \A t \in Threads : op[t].at \notin Critical /\ lock # t
    BY <1>0 DEF Critical
  <2> QED
    BY <1>0, <2>1, <2>2, <2>3, <2>4, <2>5, <2>6, <2>7, <2>8, <2>9, <2>10 DEF RegistryTypeOK
<1>2. InHand
  BY <1>0 DEF InHand, Hand, At
<1>3. Connected
  <2>1. ASSUME NEW s \in Servers PROVE hash[s] = last[s][2]
    <3>1. last[s] = <<{}, {}>> /\ hash[s] = {}
      BY <1>0
    <3>2. last[s][2] = {}
      BY <3>1
    <3> QED BY <3>1, <3>2
  <2> QED BY <1>0, <2>1 DEF Connected, Connection
<1>4. NoOrphans /\ CallsOffered
  BY <1>0 DEF NoOrphans, CallsOffered
<1> QED BY <1>1, <1>2, <1>3, <1>4 DEF Registered

LEMMA RegisteredSettled ==
    ASSUME Registered
    PROVE  StateSettled /\ ChangeReported
<1>0. \A s \in Servers : Connection(s)
  BY DEF Registered, Connected
<1>1. StateSettled
  BY <1>0 DEF StateSettled, Resting, Connection
<1>2. ChangeReported
  BY <1>0 DEF ChangeReported, Connection
<1> QED BY <1>1, <1>2

(***************************************************************************)
(* RegistryInvHolds: for any servers, handlers and failures, no child is   *)
(* left behind, and between operations status, connection, manifest and    *)
(* reported changes agree.                                                 *)
(***************************************************************************)
THEOREM RegistryInvHolds == Spec => []RegistryInv
<1>1. Registered => RegistryInv
  BY RegisteredSettled DEF Registered, RegistryInv
<1> QED BY <1>1, RegisteredInit, RegisteredStep, PTL DEF Spec

(***************************************************************************)
(* CallsOfferedAlways: CallTool never sends to a connection a tool that    *)
(* this connection has not listed, however it was replaced meanwhile.      *)
(***************************************************************************)
THEOREM CallsOfferedAlways == Spec => []CallsOffered
<1>1. Registered => CallsOffered
  BY DEF Registered
<1> QED BY <1>1, RegisteredInit, RegisteredStep, PTL DEF Spec
=============================================================================
