--------------------------- MODULE TraceLogProofs ---------------------------
(***************************************************************************)
(* Proofs about TraceLog, for any events and any number of failed writes,  *)
(* crashes and losses of power: an acknowledged event keeps its place, a   *)
(* deleted one is noticed for ever, and NewWriter accepts what crashes     *)
(* leave.                                                                  *)
(***************************************************************************)
EXTENDS TraceLog, TLAPS

(* An acknowledged event is on a line that a loss of power spares. *)
AckedSynced ==
    ~tampered => \A a \in acked : a[1] <= synced /\ lines[a[1]] = a[2]

(* After a deletion the head is ahead of the lines, and no call gets past Recover. *)
HeadAhead ==
    tampered => /\ Len(lines) < Len(head.of)
                /\ op.stage \in {"down", "refused", "idle", "recover"}

Inv == TraceInv /\ AckedSynced /\ HeadAhead

(* A sequence is a prefix of itself and of what is appended to it. *)
LEMMA PrefixFacts ==
    ASSUME NEW s \in Seq(Payloads), NEW e \in Payloads
    PROVE  IsPrefix(s, s) /\ IsPrefix(s, Append(s, e)) /\ IsPrefix(<<>>, s)
BY DEF IsPrefix

(* A prefix that is not shorter is the whole. *)
LEMMA PrefixWhole ==
    ASSUME NEW s \in Seq(Payloads), NEW t \in Seq(Payloads), IsPrefix(s, t), Len(t) <= Len(s)
    PROVE  s = t
BY DEF IsPrefix

LEMMA TraceInitInv == Init => Inv
<1> SUFFICES ASSUME Init PROVE Inv
  OBVIOUS
<1>1. AnyPayload \in Payloads
  BY TraceAssumption DEF AnyPayload
<1>2. TraceTypeOK
  <2>1. lines \in Seq(Payloads) /\ Len(lines) = 0 /\ MaxEvents \in Nat
    BY TraceAssumption DEF Init
  <2>2. op \in Op /\ head \in [there : BOOLEAN, of : Seq(Payloads)]
    BY <1>1 DEF Init, NoHead, Op, Stages
  <2>3. synced \in 0..Len(lines) /\ Len(lines) <= MaxEvents
    BY <2>1 DEF Init
  <2>4. tail \in BOOLEAN /\ tampered \in BOOLEAN /\ acked = {} /\ losses \in Nat
    BY DEF Init
  <2> QED BY <2>1, <2>2, <2>3, <2>4 DEF TraceTypeOK
<1>3. CallView /\ Recoverable
  BY DEF Init, CallView, Recoverable
<1>4. Anchored
  BY DEF Init, Anchored, Consistent, NoHead, IsPrefix
<1> QED BY <1>2, <1>3, <1>4 DEF Init, Inv, TraceInv, AckedSynced, HeadAhead

(* A step that only moves the call on from one stage to another. *)
LEMMA StageOnly ==
    ASSUME Inv, NEW o \in Op, op' = o,
           UNCHANGED <<lines, synced, tail, head, acked, tampered, losses>>,
           o.stage = "refused" => op.stage = "refused" \/ ~Consistent,
           o.stage \in {"truncate", "anchor"} => Consistent,
           o.stage = "anchor" => ~tail,
           o.stage \in {"recover", "truncate", "anchor"} /\ ~o.boot => Len(lines) < MaxEvents,
           o.stage \notin {"prepare", "write", "sync", "commit"},
           tampered => o.stage \in {"down", "refused", "idle", "recover"}
    PROVE  Inv'
<1>1. TraceTypeOK'
  BY DEF Inv, TraceInv, TraceTypeOK
<1>2. Consistent' = Consistent
  BY DEF Consistent
<1>3. CallView'
  BY <1>2 DEF CallView
<1>4. Anchored' /\ Recoverable'
  BY <1>2 DEF Inv, TraceInv, Anchored, Recoverable
<1>5. AckedSynced' /\ HeadAhead'
  BY DEF Inv, AckedSynced, HeadAhead
<1> QED BY <1>1, <1>3, <1>4, <1>5 DEF Inv, TraceInv

LEMMA NewWriterInv == Inv /\ NewWriter => Inv'
<1> SUFFICES ASSUME Inv, NewWriter PROVE Inv'
  OBVIOUS
<1> DEFINE o == [op EXCEPT !.stage = "recover", !.boot = TRUE]
<1>1. o \in Op /\ o.stage = "recover" /\ o.boot = TRUE
  BY DEF Inv, TraceInv, TraceTypeOK, Op, Stages
<1>2. op' = o /\ UNCHANGED <<lines, synced, tail, head, acked, tampered, losses>>
  BY DEF NewWriter, Env
<1> HIDE DEF o
<1> QED BY <1>1, <1>2, StageOnly

LEMMA AppendStartInv == ASSUME Inv, NEW e \in Payloads, AppendStart(e) PROVE Inv'
<1> DEFINE o == [stage |-> "recover", event |-> e, boot |-> FALSE]
<1>1. o \in Op /\ o.stage = "recover"
  BY DEF Op, Stages
<1>2. /\ op' = o /\ UNCHANGED <<lines, synced, tail, head, acked, tampered, losses>>
      /\ Len(lines) < MaxEvents
  BY DEF AppendStart, Env
<1> HIDE DEF o
<1> QED BY <1>1, <1>2, StageOnly

(* Goto moves a call on. *)
LEMMA GotoOp ==
    ASSUME op \in Op, NEW stage \in Stages, Goto(stage)
    PROVE  /\ op' \in Op /\ op'.stage = stage
           /\ op'.boot = op.boot /\ op'.event = op.event
BY DEF Goto, Op

LEMMA RecoverInv == Inv /\ Recover => Inv'
<1> SUFFICES ASSUME Inv, Recover PROVE Inv'
  OBVIOUS
<1> DEFINE stage == IF Consistent THEN IF tail THEN "truncate" ELSE "anchor"
                    ELSE IF op.boot THEN "refused" ELSE "idle"
<1>1. /\ stage \in Stages /\ Goto(stage) /\ op \in Op /\ op.stage = "recover"
      /\ UNCHANGED <<lines, synced, tail, head, acked, tampered, losses>>
  BY DEF Recover, Env, Stages, Inv, TraceInv, TraceTypeOK
<1>2. op' \in Op /\ op'.stage = stage /\ op'.boot = op.boot
  BY <1>1, GotoOp
<1>3. tampered => ~Consistent
  <2>1. lines \in Seq(Payloads) /\ head.of \in Seq(Payloads)
    BY DEF Inv, TraceInv, TraceTypeOK
  <2> QED BY <2>1 DEF Inv, HeadAhead, Consistent, IsPrefix
<1>4. ~op.boot => Len(lines) < MaxEvents
  BY <1>1 DEF Inv, TraceInv, CallView
<1> QED BY <1>1, <1>2, <1>3, <1>4, StageOnly

LEMMA TruncateInv == Inv /\ Truncate => Inv'
<1> SUFFICES ASSUME Inv, Truncate PROVE Inv'
  OBVIOUS
<1>1. /\ op.stage = "truncate" /\ tail' = FALSE /\ synced' = Len(lines)
      /\ UNCHANGED <<lines, head, acked, tampered, losses>>
      /\ op' \in Op /\ op'.stage = "anchor" /\ op'.boot = op.boot
  BY GotoOp DEF Truncate, Env, Stages, Inv, TraceInv, TraceTypeOK
<1>2. /\ lines \in Seq(Payloads) /\ Len(lines) \in Nat /\ synced <= Len(lines)
      /\ acked \subseteq (1..MaxEvents) \X Payloads
  BY DEF Inv, TraceInv, TraceTypeOK
<1>3. TraceTypeOK'
  <2>1. synced' \in 0..Len(lines')
    BY <1>1, <1>2
  <2>2. tail' \in BOOLEAN
    BY <1>1
  <2> QED BY <1>1, <2>1, <2>2 DEF Inv, TraceInv, TraceTypeOK
<1>4. Consistent /\ Consistent' /\ ~tampered
  BY <1>1 DEF Inv, TraceInv, CallView, Consistent, HeadAhead
<1>5. CallView' /\ Anchored' /\ Recoverable'
  BY <1>1, <1>4 DEF Inv, TraceInv, CallView, Anchored, Recoverable
<1>6. AckedSynced'
  <2> SUFFICES ASSUME NEW a \in acked PROVE a[1] <= Len(lines) /\ lines[a[1]] = a[2]
    BY <1>1 DEF AckedSynced
  <2>1. a[1] <= synced /\ lines[a[1]] = a[2] /\ a[1] \in Nat /\ synced \in Nat
    BY <1>2, <1>4 DEF Inv, AckedSynced, TraceInv, TraceTypeOK
  <2> QED BY <1>2, <2>1
<1>7. HeadAhead'
  BY <1>1, <1>4 DEF HeadAhead
<1> QED BY <1>3, <1>5, <1>6, <1>7 DEF Inv, TraceInv

(* The head adopts the lines: of Anchor, and of its failure after the rename. *)
LEMMA AdoptLines ==
    ASSUME lines \in Seq(Payloads)
    PROVE  /\ HeadOf(lines) \in [there : BOOLEAN, of : Seq(Payloads)]
           /\ HeadOf(lines).there = TRUE /\ HeadOf(lines).of = lines
           /\ IsPrefix(HeadOf(lines).of, lines)
BY PrefixFacts DEF HeadOf, IsPrefix

LEMMA AnchorInv == Inv /\ Anchor => Inv'
<1> SUFFICES ASSUME Inv, Anchor PROVE Inv'
  OBVIOUS
<1> DEFINE stage == IF op.boot THEN "idle" ELSE "prepare"
<1>1. /\ op.stage = "anchor" /\ stage \in Stages /\ Goto(stage) /\ op \in Op
      /\ head' = IF Len(lines) > Len(head.of) THEN HeadOf(lines) ELSE head
      /\ UNCHANGED <<lines, synced, tail, acked, tampered, losses>>
  BY DEF Anchor, Env, Stages, Inv, TraceInv, TraceTypeOK
<1>2. op' \in Op /\ op'.stage = stage /\ op'.boot = op.boot
  BY <1>1, GotoOp
<1>3. /\ lines \in Seq(Payloads) /\ head.of \in Seq(Payloads)
      /\ head \in [there : BOOLEAN, of : Seq(Payloads)]
  BY DEF Inv, TraceInv, TraceTypeOK
<1>4. Consistent /\ ~tail /\ ~tampered
  BY <1>1 DEF Inv, TraceInv, CallView, HeadAhead
<1>5. head'.of = lines /\ head' \in [there : BOOLEAN, of : Seq(Payloads)]
  <2>1. CASE Len(lines) > Len(head.of)
    BY <1>1, <1>3, <2>1, AdoptLines
  <2>2. CASE ~(Len(lines) > Len(head.of))
    <3>1. Len(lines) <= Len(head.of)
      BY <1>3, <2>2
    <3>2. head.of = lines
      BY <1>3, <1>4, <3>1, PrefixWhole DEF Consistent
    <3> QED BY <1>1, <1>3, <2>2, <3>2
  <2> QED BY <2>1, <2>2
<1>6. head'.there \/ lines = <<>>
  BY <1>1, <1>3, <1>4, AdoptLines DEF Consistent
<1>7. TraceTypeOK'
  BY <1>1, <1>2, <1>5 DEF Inv, TraceInv, TraceTypeOK
<1>8. Consistent'
  BY <1>1, <1>3, <1>4, <1>5, <1>6, AdoptLines DEF Consistent, IsPrefix
<1>9. CallView' /\ Anchored' /\ Recoverable'
  BY <1>1, <1>2, <1>4, <1>5, <1>8 DEF Inv, TraceInv, CallView, Anchored, Recoverable
<1>10. AckedSynced' /\ HeadAhead'
  BY <1>1, <1>4 DEF Inv, AckedSynced, HeadAhead
<1> QED BY <1>7, <1>9, <1>10 DEF Inv, TraceInv

LEMMA PrepareInv == Inv /\ Prepare => Inv'
<1> SUFFICES ASSUME Inv, Prepare PROVE Inv'
  OBVIOUS
<1>1. /\ op.stage = "prepare" /\ head' = [head EXCEPT !.there = TRUE]
      /\ UNCHANGED <<lines, synced, tail, acked, tampered, losses>>
      /\ op' \in Op /\ op'.stage = "write" /\ op'.boot = op.boot
  BY GotoOp DEF Prepare, Env, Stages, Inv, TraceInv, TraceTypeOK
<1>2. /\ lines \in Seq(Payloads) /\ head \in [there : BOOLEAN, of : Seq(Payloads)]
      /\ head.of = lines /\ ~tail /\ ~op.boot /\ ~tampered /\ Len(lines) < MaxEvents
  BY <1>1 DEF Inv, TraceInv, TraceTypeOK, CallView, HeadAhead
<1>3. /\ head' \in [there : BOOLEAN, of : Seq(Payloads)]
      /\ head'.there = TRUE /\ head'.of = lines /\ head' = HeadOf(lines)
  BY <1>1, <1>2 DEF HeadOf
<1>4. TraceTypeOK'
  BY <1>1, <1>3 DEF Inv, TraceInv, TraceTypeOK
<1>5. Consistent'
  BY <1>1, <1>2, <1>3, AdoptLines DEF Consistent, IsPrefix
<1>6. CallView' /\ Anchored' /\ Recoverable'
  <2>1. HeadOf(lines)' = HeadOf(lines)
    BY <1>1 DEF HeadOf
  <2> QED BY <1>1, <1>2, <1>3, <1>5, <2>1 DEF CallView, Anchored, Recoverable
<1>7. AckedSynced' /\ HeadAhead'
  BY <1>1, <1>2 DEF Inv, AckedSynced, HeadAhead
<1> QED BY <1>4, <1>6, <1>7 DEF Inv, TraceInv

LEMMA WriteInv == Inv /\ Write => Inv'
<1> SUFFICES ASSUME Inv, Write PROVE Inv'
  OBVIOUS
<1>1. /\ op.stage = "write" /\ lines' = Append(lines, op.event) /\ op.event \in Payloads
      /\ UNCHANGED <<synced, tail, head, acked, tampered, losses>>
      /\ op' \in Op /\ op'.stage = "sync" /\ op'.boot = op.boot /\ op'.event = op.event
  BY GotoOp DEF Write, Env, Stages, Inv, TraceInv, TraceTypeOK, Op
<1>2. /\ lines \in Seq(Payloads) /\ synced \in 0..Len(lines)
      /\ acked \subseteq (1..MaxEvents) \X Payloads /\ MaxEvents \in Nat
  BY TraceAssumption DEF Inv, TraceInv, TraceTypeOK
<1>3. ~tail /\ ~op.boot /\ ~tampered /\ Len(lines) < MaxEvents /\ head.there /\ head.of = lines
  BY <1>1 DEF Inv, TraceInv, CallView, HeadAhead, HeadOf
<1>4. /\ lines' \in Seq(Payloads) /\ Len(lines') = Len(lines) + 1
      /\ \A i \in 1..Len(lines) : lines'[i] = lines[i]
  BY <1>1, <1>2
<1>5. TraceTypeOK'
  BY <1>1, <1>2, <1>3, <1>4 DEF Inv, TraceInv, TraceTypeOK
<1>6. Consistent'
  BY <1>1, <1>2, <1>3, PrefixFacts DEF Consistent
<1>7. CallView' /\ Anchored' /\ Recoverable'
  BY <1>1, <1>3, <1>6 DEF CallView, Anchored, Recoverable
<1>8. AckedSynced'
  <2> SUFFICES ASSUME NEW a \in acked PROVE a[1] <= synced /\ lines'[a[1]] = a[2]
    BY <1>1 DEF AckedSynced
  <2>1. a[1] <= synced /\ lines[a[1]] = a[2] /\ a[1] \in 1..MaxEvents
    BY <1>2, <1>3 DEF Inv, AckedSynced
  <2> QED BY <1>2, <1>4, <2>1
<1>9. HeadAhead'
  BY <1>1, <1>3 DEF HeadAhead
<1> QED BY <1>5, <1>7, <1>8, <1>9 DEF Inv, TraceInv

LEMMA SyncInv == Inv /\ Sync => Inv'
<1> SUFFICES ASSUME Inv, Sync PROVE Inv'
  OBVIOUS
<1>1. /\ op.stage = "sync" /\ synced' = Len(lines)
      /\ UNCHANGED <<lines, tail, head, acked, tampered, losses>>
      /\ op' \in Op /\ op'.stage = "commit" /\ op'.boot = op.boot /\ op'.event = op.event
  BY GotoOp DEF Sync, Env, Stages, Inv, TraceInv, TraceTypeOK
<1>2. /\ lines \in Seq(Payloads) /\ synced \in 0..Len(lines) /\ Len(lines) \in Nat
      /\ acked \subseteq (1..MaxEvents) \X Payloads
  BY DEF Inv, TraceInv, TraceTypeOK
<1>3. /\ ~tail /\ ~op.boot /\ ~tampered /\ head.there
      /\ lines = Append(head.of, op.event)
  BY <1>1 DEF Inv, TraceInv, CallView, HeadAhead
<1>4. TraceTypeOK'
  <2>1. synced' \in 0..Len(lines)'
    BY <1>1, <1>2
  <2> QED BY <1>1, <2>1 DEF Inv, TraceInv, TraceTypeOK
<1>5. CallView' /\ Anchored' /\ Recoverable'
  <2>1. Consistent' = Consistent
    BY <1>1 DEF Consistent
  <2> QED BY <1>1, <1>3, <2>1 DEF Inv, TraceInv, CallView, Anchored, Recoverable
<1>6. AckedSynced'
  <2> SUFFICES ASSUME NEW a \in acked PROVE a[1] <= Len(lines) /\ lines[a[1]] = a[2]
    BY <1>1 DEF AckedSynced
  <2>1. a[1] <= synced /\ lines[a[1]] = a[2] /\ a[1] \in Nat
    BY <1>2, <1>3 DEF Inv, AckedSynced
  <2> QED BY <1>2, <2>1
<1>7. HeadAhead'
  BY <1>1, <1>3 DEF HeadAhead
<1> QED BY <1>4, <1>5, <1>6, <1>7 DEF Inv, TraceInv

LEMMA CommitInv == Inv /\ Commit => Inv'
<1> SUFFICES ASSUME Inv, Commit PROVE Inv'
  OBVIOUS
<1>1. /\ op.stage = "commit" /\ head' = HeadOf(lines)
      /\ acked' = acked \cup {<<Len(lines), op.event>>} /\ op.event \in Payloads
      /\ UNCHANGED <<lines, synced, tail, tampered, losses>>
      /\ op' \in Op /\ op'.stage = "idle"
  BY GotoOp DEF Commit, Env, Stages, Inv, TraceInv, TraceTypeOK, Op
<1>2. /\ lines \in Seq(Payloads) /\ Len(lines) <= MaxEvents /\ head.of \in Seq(Payloads)
      /\ acked \subseteq (1..MaxEvents) \X Payloads /\ MaxEvents \in Nat
  BY TraceAssumption DEF Inv, TraceInv, TraceTypeOK
<1>3. ~tail /\ ~tampered /\ lines = Append(head.of, op.event) /\ synced = Len(lines)
  BY <1>1 DEF Inv, TraceInv, CallView, HeadAhead
<1>4. Len(lines) \in 1..MaxEvents /\ lines[Len(lines)] = op.event
  BY <1>1, <1>2, <1>3
<1>5. TraceTypeOK'
  <2>1. acked' \subseteq (1..MaxEvents) \X Payloads
    BY <1>1, <1>2, <1>4
  <2> QED BY <1>1, <1>2, <2>1, AdoptLines DEF Inv, TraceInv, TraceTypeOK
<1>6. Consistent'
  BY <1>1, <1>2, AdoptLines DEF Consistent
<1>7. CallView' /\ Anchored' /\ Recoverable'
  BY <1>1, <1>6 DEF CallView, Anchored, Recoverable
<1>8. AckedSynced'
  <2> SUFFICES ASSUME NEW a \in acked' PROVE a[1] <= synced /\ lines[a[1]] = a[2]
    BY <1>1 DEF AckedSynced
  <2>1. CASE a \in acked
    BY <1>3, <2>1 DEF Inv, AckedSynced
  <2>2. CASE a = <<Len(lines), op.event>>
    BY <1>2, <1>3, <1>4, <2>2
  <2> QED BY <1>1, <2>1, <2>2
<1>9. HeadAhead'
  BY <1>1, <1>3 DEF HeadAhead
<1> QED BY <1>5, <1>7, <1>8, <1>9 DEF Inv, TraceInv

(* Facts about a step that leaves lines, acknowledgements and marks, and ends a call. *)
LEMMA CallEnds ==
    ASSUME Inv, op' \in Op, op'.stage \in {"down", "idle"}, tail' \in BOOLEAN,
           tail' = tail \/ op.stage = "write",
           head' = head \/ (op.stage \in {"anchor", "commit"} /\ head' = HeadOf(lines)),
           UNCHANGED <<lines, synced, acked, tampered, losses>>
    PROVE  Inv'
<1>1. lines \in Seq(Payloads)
  BY DEF Inv, TraceInv, TraceTypeOK
<1>2. TraceTypeOK'
  BY <1>1, AdoptLines DEF Inv, TraceInv, TraceTypeOK
<1>3. ASSUME Consistent PROVE Consistent'
  <2>1. CASE head' = head
    <3>1. tail' = tail \/ head.there
      BY DEF Inv, TraceInv, CallView, HeadOf
    <3> QED BY <1>3, <2>1, <3>1 DEF Consistent
  <2>2. CASE head' = HeadOf(lines)
    BY <1>1, <2>2, AdoptLines DEF Consistent
  <2> QED BY <2>1, <2>2
<1>4. CallView' /\ Anchored' /\ Recoverable'
  BY <1>3 DEF Inv, TraceInv, CallView, Anchored, Recoverable
<1>5. AckedSynced' /\ HeadAhead'
  BY DEF Inv, AckedSynced, HeadAhead
<1> QED BY <1>2, <1>4, <1>5 DEF Inv, TraceInv

LEMMA StepFailsInv == Inv /\ StepFails => Inv'
<1> SUFFICES ASSUME Inv, StepFails PROVE Inv'
  OBVIOUS
<1> DEFINE stage == IF op.boot THEN "down" ELSE "idle"
<1>1. stage \in Stages /\ Goto(stage) /\ op \in Op /\ tail \in BOOLEAN
  BY DEF StepFails, Stages, Inv, TraceInv, TraceTypeOK
<1>2. op' \in Op /\ op'.stage = stage
  BY <1>1, GotoOp
<1>3. /\ tail' \in BOOLEAN /\ (tail' = tail \/ op.stage = "write")
      /\ head' = head \/ (op.stage \in {"anchor", "commit"} /\ head' = HeadOf(lines))
      /\ UNCHANGED <<lines, synced, acked, tampered, losses>>
  BY <1>1 DEF StepFails, Env
<1> QED BY <1>2, <1>3, CallEnds

LEMMA CrashInv == Inv /\ Crash => Inv'
<1> SUFFICES ASSUME Inv, Crash PROVE Inv'
  OBVIOUS
<1>1. op' \in Op /\ op'.stage = "down" /\ tail \in BOOLEAN
  BY GotoOp DEF Crash, Stages, Inv, TraceInv, TraceTypeOK
<1>2. /\ tail' \in BOOLEAN /\ (tail' = tail \/ op.stage = "write")
      /\ UNCHANGED <<lines, synced, head, acked, tampered, losses>>
  BY <1>1 DEF Crash
<1> QED BY <1>1, <1>2, CallEnds

LEMMA PowerLossInv == Inv /\ PowerLoss => Inv'
<1> SUFFICES ASSUME Inv, PowerLoss PROVE Inv'
  OBVIOUS
<1>1. PICK n \in synced..Len(lines) : lines' = SubSeq(lines, 1, n) /\ synced' = n
  BY DEF PowerLoss
<1>2. /\ op' \in Op /\ op'.stage = "down" /\ tail' \in BOOLEAN /\ losses' = losses + 1
      /\ UNCHANGED <<head, acked, tampered>>
  BY GotoOp DEF PowerLoss, Stages, Inv, TraceInv, TraceTypeOK
<1>3. /\ lines \in Seq(Payloads) /\ synced \in 0..Len(lines) /\ head.of \in Seq(Payloads)
      /\ acked \subseteq (1..MaxEvents) \X Payloads /\ MaxEvents \in Nat
      /\ Len(lines) <= MaxEvents /\ losses \in Nat
  BY TraceAssumption DEF Inv, TraceInv, TraceTypeOK
<1>4. /\ lines' \in Seq(Payloads) /\ Len(lines') = n /\ n <= Len(lines) /\ n \in Nat
      /\ \A i \in 1..n : lines'[i] = lines[i]
  BY <1>1, <1>3
<1>5. TraceTypeOK'
  <2>1. synced' \in 0..Len(lines') /\ Len(lines') <= MaxEvents /\ losses' \in Nat
    BY <1>1, <1>2, <1>3, <1>4
  <2> QED BY <1>2, <1>4, <2>1 DEF Inv, TraceInv, TraceTypeOK
<1>6. losses' # 0
  BY <1>2, <1>3
<1>7. CallView' /\ Anchored' /\ Recoverable'
  BY <1>2, <1>6 DEF CallView, Anchored, Recoverable
<1>8. AckedSynced'
  <2> SUFFICES ASSUME ~tampered, NEW a \in acked PROVE a[1] <= n /\ lines'[a[1]] = a[2]
    BY <1>1, <1>2 DEF AckedSynced
  <2>1. a[1] <= synced /\ lines[a[1]] = a[2] /\ a[1] \in 1..MaxEvents
    BY <1>3 DEF Inv, AckedSynced
  <2>2. a[1] \in 1..n
    BY <1>1, <1>3, <2>1
  <2> QED BY <1>4, <2>1, <2>2
<1>9. HeadAhead'
  BY <1>2, <1>3, <1>4 DEF Inv, HeadAhead
<1> QED BY <1>5, <1>7, <1>8, <1>9 DEF Inv, TraceInv

LEMMA TamperInv == Inv /\ Tamper => Inv'
<1> SUFFICES ASSUME Inv, Tamper PROVE Inv'
  OBVIOUS
<1>1. /\ lines # <<>> /\ head.of = lines /\ lines' = Front(lines)
      /\ synced' = Len(lines) - 1 /\ tampered' = TRUE /\ op.stage \in {"idle", "down"}
      /\ UNCHANGED <<tail, head, op, acked, losses>>
  BY DEF Tamper
<1>2. lines \in Seq(Payloads) /\ Len(lines) \in Nat /\ Len(lines) # 0 /\ MaxEvents \in Nat
  BY <1>1, TraceAssumption DEF Inv, TraceInv, TraceTypeOK
<1>3. lines' \in Seq(Payloads) /\ Len(lines') = Len(lines) - 1
  <2>1. PICK n \in 0..Len(lines) : n = Len(lines) - 1
    BY <1>2
  <2>2. lines' = SubSeq(lines, 1, n)
    BY <1>1, <2>1 DEF Front
  <2> QED BY <1>2, <2>1, <2>2
<1>4. TraceTypeOK'
  <2>1. synced' \in 0..Len(lines') /\ Len(lines') <= MaxEvents
    BY <1>1, <1>2, <1>3 DEF Inv, TraceInv, TraceTypeOK
  <2> QED BY <1>1, <1>3, <2>1 DEF Inv, TraceInv, TraceTypeOK
<1>5. CallView' /\ Anchored' /\ Recoverable' /\ AckedSynced'
  BY <1>1 DEF CallView, Anchored, Recoverable, AckedSynced
<1>6. HeadAhead'
  BY <1>1, <1>2, <1>3 DEF HeadAhead
<1> QED BY <1>4, <1>5, <1>6 DEF Inv, TraceInv

LEMMA TraceNextInv == Inv /\ [Next]_vars => Inv'
<1> SUFFICES ASSUME Inv, [Next]_vars PROVE Inv'
  OBVIOUS
<1>1. CASE UNCHANGED vars
  BY <1>1 DEF vars, Inv, TraceInv, TraceTypeOK, CallView, Anchored, Recoverable, Consistent,
              AckedSynced, HeadAhead
<1>2. CASE Next
  BY <1>2, NewWriterInv, AppendStartInv, RecoverInv, TruncateInv, AnchorInv, PrepareInv,
     WriteInv, SyncInv, CommitInv, StepFailsInv, CrashInv, PowerLossInv, TamperInv DEF Next
<1> QED BY <1>1, <1>2

LEMMA TraceInvariant == Spec => []Inv
BY TraceInitInv, TraceNextInv, PTL DEF Spec

(***************************************************************************)
(* After any failed writes and crashes NewWriter finds the head to be a    *)
(* prefix of the lines, because Append writes a line only when the head    *)
(* covers all whole lines before it (recoverLocked, Append).               *)
(***************************************************************************)
THEOREM TraceInvHolds == Spec => []TraceInv
<1>1. Inv => TraceInv
  BY DEF Inv
<1> QED BY <1>1, TraceInvariant, PTL

(***************************************************************************)
(* An event for which Append returned nil keeps its place, because its     *)
(* line was synced before the head was written and nothing shortens the    *)
(* synced lines (Append).                                                  *)
(***************************************************************************)
THEOREM AckedKeptAlways == Spec => []AckedKept
<1>1. Inv => AckedKept
  <2> SUFFICES ASSUME Inv, ~tampered, NEW a \in acked
               PROVE  a[1] <= Len(lines) /\ lines[a[1]] = a[2]
    BY DEF AckedKept
  <2>1. a[1] <= synced /\ lines[a[1]] = a[2]
    BY DEF Inv, AckedSynced
  <2>2. a[1] \in Nat /\ synced \in 0..Len(lines) /\ Len(lines) \in Nat
    BY DEF Inv, TraceInv, TraceTypeOK
  <2> QED BY <2>1, <2>2
<1> QED BY <1>1, TraceInvariant, PTL

(***************************************************************************)
(* A trace whose last committed line was deleted never verifies again:     *)
(* every call stops in recoverLocked, so the head stays ahead of the lines *)
(* (recoverLocked, VerifyIntegrity).                                       *)
(***************************************************************************)
THEOREM DeletionDetectedAlways == Spec => []DeletionDetected
<1>1. Inv => DeletionDetected
  BY DEF Inv, TraceInv, TraceTypeOK, HeadAhead, DeletionDetected, VerifyIntegrity
<1> QED BY <1>1, TraceInvariant, PTL
=============================================================================
