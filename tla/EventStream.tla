---------------------------- MODULE EventStream ----------------------------
(***************************************************************************)
(* internal/api hub.go and the events handler, with the page that follows  *)
(* one task: the agent saves the task and publishes, the hub numbers the   *)
(* events, keeps the last ones and offers each to every subscriber without *)
(* waiting, a handler replays what its client has not seen and goes live,  *)
(* and the page drops what it has already seen, reconnects with its        *)
(* Last-Event-ID and reads the task file when the stream breaks.  The      *)
(* events of the hub do not survive the server; the task file does.        *)
(***************************************************************************)
EXTENDS Naturals, Sequences, FiniteSets, SequencesExt

CONSTANTS
    Pages,          \* browsers that follow the task
    HistoryMax,     \* events kept per task (200)
    ChannelMax,     \* capacity of a subscriber's channel (32)
    MaxEvents,      \* bound on the events published by one server
    MaxBreaks,      \* bound on broken connections and reloaded pages
    MaxEnds         \* bound on the ends of the server

ASSUME StreamAssumption ==
    /\ {HistoryMax, ChannelMax} \subseteq Nat \ {0}
    /\ {MaxEvents, MaxBreaks, MaxEnds} \subseteq Nat

VARIABLES
    state,      \* the state in the task file
    emitter,    \* who works on the task: Run, Resume, the recovery or nobody
    outbox,     \* what the emitter has saved and not yet published
    next,       \* eventHub.next
    retained,   \* eventHub.history
    channel,    \* page -> what its channel holds
    conn,       \* page -> its handler
    page,       \* page -> EventSource and followTask
    serving,    \* is the server up?
    asked,      \* has the task asked for an approval?
    heard,      \* history: page -> numbers it received from this server
    told,       \* history: page -> was it sent a task.gap by this server?
    lossy,      \* history: page -> was an event dropped because its channel was full?
    deaf,       \* history: page -> the end of the task will not reach its connection
    unsaved,    \* history: an end was published although its save had failed
    breaks, ends

hub == <<next, retained>>
streams == <<channel, conn, page, heard, told, lossy, deaf>>
streamVars == <<state, emitter, outbox, hub, streams, serving, asked, unsaved, breaks, ends>>

Event == [seq : 1..MaxEvents, final : BOOLEAN]
Message == [kind : {"progress", "gap", "snapshot"}, seq : 0..MaxEvents, final : BOOLEAN]
Progress(e) == [kind |-> "progress", seq |-> e.seq, final |-> e.final]
Unnumbered(kind, final) == [kind |-> kind, seq |-> 0, final |-> final]

NoConn == [at |-> "none", snap |-> FALSE, after |-> 0, queue |-> <<>>]
NoPage == [at |-> "off", lastId |-> 0, seen |-> 0]
Following == [at |-> "following", lastId |-> 0, seen |-> 0]

StreamInit ==
    /\ state = "RUNNING" /\ emitter = "run" /\ outbox = "none"
    /\ next = 0 /\ retained = <<>>
    /\ channel = [c \in Pages |-> <<>>]
    /\ conn = [c \in Pages |-> NoConn]
    /\ page = [c \in Pages |-> NoPage]
    /\ serving = TRUE /\ asked = FALSE
    /\ heard = [c \in Pages |-> {}]
    /\ told = [c \in Pages |-> FALSE] /\ lossy = told /\ deaf = told
    /\ unsaved = FALSE /\ breaks = 0 /\ ends = 0

Subscribed(c) == conn[c].at = "open"
Full(c) == Len(channel[c]) >= ChannelMax
Room == next < MaxEvents

-----------------------------------------------------------------------------
(* eventHub.publish: the send to a full channel is skipped. *)
Publish(final) ==
    LET e == [seq |-> next + 1, final |-> final]
        all == Append(retained, e)
    IN  /\ next' = next + 1
        /\ retained' = IF Len(all) > HistoryMax THEN Tail(all) ELSE all
        /\ channel' = [c \in Pages |-> IF Subscribed(c) /\ ~Full(c)
                                       THEN Append(channel[c], e) ELSE channel[c]]
        /\ lossy' = [c \in Pages |-> lossy[c] \/ (Subscribed(c) /\ Full(c))]
        /\ deaf' = [c \in Pages |-> deaf[c] \/ (final /\ Subscribed(c) /\ Full(c))]
        /\ UNCHANGED <<conn, page, heard, told>>

(* Run saves a step and tells of it. *)
Work ==
    /\ emitter = "run" /\ outbox = "none" /\ Room
    /\ Publish(FALSE)
    /\ UNCHANGED <<state, emitter, outbox, serving, asked, unsaved, breaks, ends>>

(* Mutant: the end is published before it is saved. *)
SaveOutcomeLater(outcome) ==
    /\ emitter \in {"run", "resume"} /\ outbox = "none" /\ Room
    /\ outbox' = outcome
    /\ UNCHANGED <<state, emitter, hub, streams, serving, asked, unsaved, breaks, ends>>

(* Run or Resume has saved that the task waits or ended; the event is yet to come. *)
SaveOutcome(outcome) ==
    /\ emitter \in {"run", "resume"} /\ outbox = "none" /\ Room
    /\ state' = outcome /\ outbox' = outcome
    /\ asked' = (asked \/ outcome = "WAITING")
    /\ UNCHANGED <<emitter, hub, streams, serving, unsaved, breaks, ends>>

(* The save of FAILED or CANCELLED fails, which is not looked at. *)
SaveOutcomeFails ==
    /\ emitter \in {"run", "resume"} /\ outbox = "none" /\ Room
    /\ outbox' = "FINAL" /\ unsaved' = TRUE
    /\ UNCHANGED <<state, emitter, hub, streams, serving, asked, breaks, ends>>

PublishOutcome ==
    /\ outbox # "none"
    /\ Publish(outbox = "FINAL")
    /\ outbox' = "none" /\ emitter' = "none"
    /\ UNCHANGED <<state, serving, asked, unsaved, breaks, ends>>

(* resolveApproval resumes a task that waits; it publishes when it is done. *)
ResumeTask ==
    /\ serving /\ state = "WAITING" /\ emitter = "none"
    /\ state' = "RUNNING" /\ emitter' = "resume"
    /\ UNCHANGED <<outbox, hub, streams, serving, asked, unsaved, breaks, ends>>

(* RecoverIncomplete runs the task without an event sink. *)
RecoverSilently(outcome) ==
    /\ emitter = "recover"
    /\ state' = outcome /\ emitter' = "none"
    /\ asked' = (asked \/ outcome = "WAITING")
    /\ deaf' = [c \in Pages |-> deaf[c] \/ (outcome = "FINAL" /\ conn[c].at # "none")]
    /\ UNCHANGED <<outbox, hub, channel, conn, page, heard, told, lossy, serving, unsaved, breaks, ends>>

(* Another answer that Resume does not act on: the state it read is published. *)
AnswerAgain(final) ==
    /\ serving /\ asked /\ next + 1 < MaxEvents
    /\ final => state = "FINAL"
    /\ Publish(final)
    /\ UNCHANGED <<state, emitter, outbox, serving, asked, unsaved, breaks, ends>>

-----------------------------------------------------------------------------
(* The handler of one connection, and the page at its other end. *)

Follow(c) ==
    /\ page[c].at = "off"
    /\ page' = [page EXCEPT ![c] = Following]
    /\ UNCHANGED <<state, emitter, outbox, hub, channel, conn, heard, told, lossy, deaf, serving, asked, unsaved, breaks, ends>>

(* The request arrives; the handler reads the task first. *)
Connect(c) ==
    /\ serving /\ page[c].at = "following" /\ conn[c].at = "none"
    /\ conn' = [conn EXCEPT ![c] = [at |-> "subscribe", snap |-> state = "FINAL",
                                    after |-> page[c].lastId, queue |-> <<>>]]
    /\ UNCHANGED <<state, emitter, outbox, hub, channel, page, heard, told, lossy, deaf, serving, asked, unsaved, breaks, ends>>

(* Mutant: a history that lost its beginning is no gap. *)
GapRestartOnly(after) == after > 0 /\ after > next

(* replayWindow.Gap; retained is empty exactly when nothing was published. *)
Gap(after) ==
    after > 0 /\ (after > next \/ (retained # <<>> /\ after + 1 < retained[1].seq))

(* The history from its first event with a number in seqs; being in order it has the later ones too. *)
From(seqs) ==
    LET chosen == {i \in DOMAIN retained : retained[i].seq \in seqs}
    IN  IF chosen = {} THEN <<>>
        ELSE SubSeq(retained, CHOOSE i \in chosen : \A j \in chosen : i <= j, Len(retained))

(* Mutant: the event the client has is replayed to it. *)
WindowInclusive(after) == From(after..next)

(* replayWindow.Events: the loop over the history skips what the client has. *)
Window(after) == From(after + 1..next)

(* The replay stops at the first event that ends the task. *)
UpToFinal(s) ==
    LET finals == {i \in DOMAIN s : s[i].final}
    IN  IF finals = {} THEN s ELSE SubSeq(s, 1, CHOOSE i \in finals : \A j \in finals : i <= j)

(* Mutant: the state in the file is sent after a gap only. *)
SnapshotDueOnGap(window, snap, gap) == window = <<>> /\ gap

(* With nothing to replay, the state in the file is sent if it is the last word. *)
SnapshotDue(window, snap, gap) == window = <<>> /\ (snap \/ gap)

(* subscribe, under the hub's mutex, and what the handler sends before it goes live. *)
Subscribe(c) ==
    LET after == conn[c].after
        window == UpToFinal(Window(after))
        gap == Gap(after)
        replay == [i \in DOMAIN window |-> Progress(window[i])]
        tail == IF SnapshotDue(window, conn[c].snap, gap)
                THEN <<Unnumbered("snapshot", conn[c].snap)>> ELSE <<>>
    IN  /\ conn[c].at = "subscribe"
        /\ conn' = [conn EXCEPT ![c].at = "open",
                        ![c].queue = (IF gap THEN <<Unnumbered("gap", FALSE)>> ELSE <<>>)
                                         \o replay \o tail]
        /\ deaf' = [deaf EXCEPT ![c] = @ \/ /\ state = "FINAL" /\ outbox = "none"
                                            /\ \A i \in DOMAIN window : ~window[i].final
                                            /\ ~(conn[c].snap /\ window = <<>>)]
        /\ UNCHANGED <<state, emitter, outbox, hub, channel, page, heard, told, lossy, serving, asked, unsaved, breaks, ends>>

(* consume: an event with a number the page has reached is dropped. *)
Consumed(p, m) == m.kind # "gap" /\ ~(m.seq > 0 /\ m.seq <= p.seen)

Received(p, m) ==
    [at |-> IF m.final /\ m.kind # "gap"
            THEN IF Consumed(p, m) THEN "done" ELSE "lost"
            ELSE p.at,
     lastId |-> IF m.seq > 0 THEN m.seq ELSE p.lastId,
     seen |-> IF m.seq > p.seen THEN m.seq ELSE p.seen]

(* The handler returns after an event that ends the task; the page closes its stream. *)
Deliver(c, m) ==
    /\ page' = [page EXCEPT ![c] = Received(@, m)]
    /\ heard' = [heard EXCEPT ![c] = IF m.seq > 0 THEN @ \cup {m.seq} ELSE @]
    /\ told' = [told EXCEPT ![c] = @ \/ m.kind = "gap"]
    /\ UNCHANGED <<state, emitter, outbox, hub, lossy, serving, asked, unsaved, breaks, ends>>

Ended(c) ==
    /\ conn' = [conn EXCEPT ![c] = NoConn]
    /\ channel' = [channel EXCEPT ![c] = <<>>]
    /\ deaf' = [deaf EXCEPT ![c] = FALSE]

Replay(c) ==
    /\ Subscribed(c) /\ conn[c].queue # <<>>
    /\ Deliver(c, Head(conn[c].queue))
    /\ IF Head(conn[c].queue).final
       THEN Ended(c)
       ELSE /\ conn' = [conn EXCEPT ![c].queue = Tail(@)]
            /\ UNCHANGED <<channel, deaf>>

Live(c) ==
    /\ Subscribed(c) /\ conn[c].queue = <<>> /\ channel[c] # <<>>
    /\ Deliver(c, Progress(Head(channel[c])))
    /\ IF Head(channel[c]).final
       THEN Ended(c)
       ELSE /\ channel' = [channel EXCEPT ![c] = Tail(@)]
            /\ UNCHANGED <<conn, deaf>>

(* The connection breaks: the handler unsubscribes, EventSource reports an error. *)
Break(c) ==
    /\ conn[c].at # "none"
    /\ breaks < MaxBreaks /\ breaks' = breaks + 1
    /\ Ended(c)
    /\ page' = [page EXCEPT ![c].at = "lost"]
    /\ UNCHANGED <<state, emitter, outbox, hub, heard, told, lossy, serving, asked, unsaved, ends>>

(* The page is opened anew: no Last-Event-ID, nothing seen. *)
Reload(c) ==
    /\ page[c].at \in {"following", "lost"}
    /\ breaks < MaxBreaks /\ breaks' = breaks + 1
    /\ Ended(c)
    /\ page' = [page EXCEPT ![c] = Following]
    /\ heard' = [heard EXCEPT ![c] = {}]
    /\ told' = [told EXCEPT ![c] = FALSE] /\ lossy' = [lossy EXCEPT ![c] = FALSE]
    /\ UNCHANGED <<state, emitter, outbox, hub, serving, asked, unsaved, ends>>

(* onerror reads the task; if it has not ended, or the read fails, EventSource reconnects. *)
OnError(c) ==
    /\ page[c].at = "lost" /\ serving
    /\ \/ state = "FINAL" /\ page' = [page EXCEPT ![c].at = "done"]
       \/ page' = [page EXCEPT ![c].at = "following"]
    /\ UNCHANGED <<state, emitter, outbox, hub, channel, conn, heard, told, lossy, deaf, serving, asked, unsaved, breaks, ends>>

-----------------------------------------------------------------------------
(* The server ends: its hub and its connections are gone. *)
ServerEnds ==
    /\ serving /\ serving' = FALSE
    /\ ends < MaxEnds /\ ends' = ends + 1
    /\ emitter' = "none" /\ outbox' = "none"
    /\ next' = 0 /\ retained' = <<>>
    /\ channel' = [c \in Pages |-> <<>>] /\ conn' = [c \in Pages |-> NoConn]
    /\ page' = [c \in Pages |-> IF page[c].at = "following"
                                THEN [page[c] EXCEPT !.at = "lost"] ELSE page[c]]
    /\ heard' = [c \in Pages |-> {}]
    /\ told' = [c \in Pages |-> FALSE] /\ lossy' = told' /\ deaf' = told'
    /\ UNCHANGED <<state, asked, unsaved, breaks>>

(* It resumes resolved approvals, silently, and then serves and recovers the rest. *)
ServerStarts ==
    /\ ~serving /\ serving' = TRUE
    /\ \/ UNCHANGED state
       \/ state = "WAITING" /\ state' = "FINAL"
    /\ emitter' = IF state = "RUNNING" THEN "recover" ELSE "none"
    /\ UNCHANGED <<outbox, hub, streams, asked, unsaved, breaks, ends>>

PageStep(c) == Connect(c) \/ Subscribe(c) \/ Replay(c) \/ Live(c) \/ OnError(c)

StreamNext ==
    \/ Work \/ PublishOutcome \/ ResumeTask \/ SaveOutcomeFails
    \/ \E outcome \in {"WAITING", "FINAL"} : SaveOutcome(outcome) \/ RecoverSilently(outcome)
    \/ \E final \in BOOLEAN : AnswerAgain(final)
    \/ \E c \in Pages : Follow(c) \/ PageStep(c) \/ Break(c) \/ Reload(c)
    \/ ServerEnds \/ ServerStarts

(* Goroutines and browsers go on; an event that was saved is published. *)
StreamFairness ==
    /\ WF_streamVars(PublishOutcome) /\ WF_streamVars(ServerStarts)
    /\ \A c \in Pages : WF_streamVars(PageStep(c))

StreamSpec == StreamInit /\ [][StreamNext]_streamVars

-----------------------------------------------------------------------------
(* Properties. *)

Connection == [at : {"none", "subscribe", "open"}, snap : BOOLEAN, after : 0..MaxEvents,
               queue : Seq(Message)]
Page == [at : {"off", "following", "lost", "done"}, lastId : 0..MaxEvents, seen : 0..MaxEvents]

(* StreamTypeOK: the types; the history is the last events, numbered without a hole. *)
StreamTypeOK ==
    /\ state \in {"RUNNING", "WAITING", "FINAL"}
    /\ emitter \in {"run", "resume", "recover", "none"}
    /\ outbox \in {"none", "WAITING", "FINAL"}
    /\ outbox # "none" => next < MaxEvents
    /\ {serving, asked, unsaved} \subseteq BOOLEAN
    /\ next \in 0..MaxEvents
    /\ retained \in Seq(Event) /\ Len(retained) <= HistoryMax /\ Len(retained) <= next
    /\ retained = <<>> => next = 0
    /\ \A i \in DOMAIN retained : retained[i].seq = next - Len(retained) + i
    /\ channel \in [Pages -> Seq(Event)] /\ conn \in [Pages -> Connection]
    /\ page \in [Pages -> Page] /\ heard \in [Pages -> SUBSET (1..MaxEvents)]
    /\ told \in [Pages -> BOOLEAN] /\ lossy \in [Pages -> BOOLEAN]
    /\ \A c \in Pages : Len(channel[c]) <= ChannelMax

(* What a page and its connection rely on. *)
Attached(c) ==
    /\ conn[c].at # "none" => page[c].at = "following"
    /\ conn[c].at = "subscribe" => conn[c].after = page[c].lastId
    /\ ~Subscribed(c) => channel[c] = <<>> /\ conn[c].queue = <<>>
    /\ page[c].at = "off" => heard[c] = {}
    /\ \A n \in heard[c] : n <= page[c].lastId /\ n <= next

(* What it will send is in order and later than all it sent, by replay or live. *)
Ordered(c) ==
    LET queue == conn[c].queue
        later == channel[c]
    IN  /\ \A i \in DOMAIN queue : queue[i].seq > 0 =>
              queue[i].seq <= next /\ \A n \in heard[c] : n < queue[i].seq
        /\ \A i \in DOMAIN later : later[i].seq <= next /\ \A n \in heard[c] : n < later[i].seq
        /\ \A i, j \in DOMAIN queue : i < j /\ queue[j].seq > 0 => queue[i].seq < queue[j].seq
        /\ \A i, j \in DOMAIN later : i < j => later[i].seq < later[j].seq
        /\ \A i \in DOMAIN queue, j \in DOMAIN later : queue[i].seq < later[j].seq

(***************************************************************************)
(* StreamOrder: what a connection will send comes in order and is nothing  *)
(* its client had from this server, although replay and live events reach  *)
(* it on two ways and it may have named a number of an earlier server.     *)
(***************************************************************************)
StreamOrder == \A c \in Pages : Attached(c) /\ Ordered(c)

WithoutHole(S) == \A low, high \in S : low..high \subseteq S

(* The numbers a page has, or will have if its connection lasts; a replayed end is the last. *)
Numbered(queue) == {queue[i].seq : i \in DOMAIN queue} \ {0}
EndQueued(c) == \E i \in DOMAIN conn[c].queue : conn[c].queue[i].final
GapAhead(c) == conn[c].queue # <<>> /\ conn[c].queue[1].kind = "gap"
Known(c) == heard[c] \cup Numbered(conn[c].queue)
                     \cup (IF EndQueued(c) THEN {} ELSE Numbered(channel[c]))

(* Unless a task.gap comes first, the page will know all up to the last event. *)
Seamless(c) ==
    /\ WithoutHole(heard[c])
    /\ heard[c] # {} => page[c].lastId \in heard[c]
    /\ ~GapAhead(c) =>
          /\ WithoutHole(Known(c))
          /\ Subscribed(c) /\ ~EndQueued(c) /\ Known(c) # {} => next \in Known(c)

(***************************************************************************)
(* NoSilentGap: a client that was sent no task.gap and whose channel never *)
(* overflowed received a run of events without a hole, over any number of  *)
(* reconnections and however the history was cut.                          *)
(***************************************************************************)
NoSilentGap == \A c \in Pages : ~told[c] /\ ~lossy[c] => Seamless(c)

(***************************************************************************)
(* StreamInv: what a page receives is in order, without repetition, and    *)
(* without a hole that it was not told of.                                 *)
(***************************************************************************)
StreamInv == StreamTypeOK /\ StreamOrder /\ NoSilentGap

(* Whoever works on a task finds it RUNNING, and whatever tells of an end comes after its save. *)
EndsFollow ==
    /\ emitter \in {"run", "resume"} /\ outbox = "none" => state = "RUNNING"
    /\ emitter = "recover" => state = "RUNNING" /\ outbox = "none"
    /\ outbox # "none" => emitter \in {"run", "resume"}
    /\ ~serving => emitter = "none"
    /\ ~unsaved /\ outbox # "none" => state = outbox
    /\ ~unsaved /\ state # "FINAL" =>
          /\ \A i \in DOMAIN retained : ~retained[i].final
          /\ \A c \in Pages :
                /\ ~conn[c].snap
                /\ \A i \in DOMAIN channel[c] : ~channel[c][i].final
                /\ \A i \in DOMAIN conn[c].queue : ~conn[c].queue[i].final

(***************************************************************************)
(* EndIsSaved: a page that stops following has the end of the task from    *)
(* the server, and then the task file says so too: terminal events follow  *)
(* the save (unless the save failed, which Run and Resume do not look at). *)
(***************************************************************************)
EndIsSaved == \A c \in Pages : page[c].at = "done" /\ ~unsaved => state = "FINAL"

(***************************************************************************)
(* EndReached: every page that follows a task learns that it ended, from   *)
(* an event, a snapshot or its own read, unless it hangs on a connection   *)
(* that will not tell it (deaf): the last event found its channel full,    *)
(* the recovery after a start ended the task without events, or the        *)
(* handler subscribed after the end and what it then replays is without    *)
(* it: it named a number of an earlier server, or read the task before the *)
(* end, or finds only events of an answer that came later.                 *)
(***************************************************************************)
EndReached ==
    \A c \in Pages :
        state = "FINAL" /\ page[c].at \notin {"off", "done"} ~> page[c].at = "done" \/ deaf[c]
=============================================================================
