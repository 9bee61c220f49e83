--------------------------- MODULE UserFilesProofs ---------------------------
(***************************************************************************)
(* About EventFeed and SessionPump, and then SetupTransaction,             *)
(* QuotaWebhooks and RunReaders.                                           *)
(*                                                                         *)
(* The pump, the lock and the subscribe handler implement the feed that    *)
(* EventFeed specifies, for any consumers, any closing threads and any     *)
(* length of log, as long as no host restores a checkpoint and none closes *)
(* a session before its create is answered.  Then, under the conditions    *)
(* each theorem names: the log holds what the adapter said of its runs,    *)
(* whole and in order; it reads as one orderly session; and a restore of a *)
(* checkpoint is honest.  TLC shows what happens without the conditions.   *)
(*                                                                         *)
(* The setup transaction keeps what the user saved and knows the entries   *)
(* it wrote, for any processes that set up or remove, any executables and  *)
(* any number of saves, wherever a process dies.  The webhooks notify once *)
(* of each crossing, for any endpoints and any calls in any processes.     *)
(* Readers of the events of a run miss none they are not told of, for any  *)
(* length of run and any sizes of the buffer and of a page.                *)
(***************************************************************************)
EXTENDS MCUserFiles, FiniteSetTheorems, WellFoundedInduction, TLAPS

Entry == {NotLive} \cup [in : {TRUE}, closed : BOOLEAN, subs : SUBSET Consumers]
CloserState == [at : {"idle", "stopping", "joining", "closing", "done", "rejected"},
                saw : BOOLEAN]

FeedTypeOK ==
    /\ log \in Seq(Facts)
    /\ stream \in Seq(Kinds)
    /\ live \in Entry
    /\ closer \in [Closers -> CloserState]
    /\ base \in [Consumers -> Nat]
    /\ chan \in [Consumers -> Seq(Nat)]

(* Before InsertLive, and once a host closes, there is nobody to tell: what *)
(* is appended without the lock then reaches every subscriber there is.     *)
NobodyAttached ==
    /\ creator # "serving" => live = NotLive
    /\ \A k \in Closers : closer[k].at # "idle" =>
           live = NotLive /\ creator \in {"serving", "failed"}

Handover == FeedTypeOK /\ NobodyAttached

LEMMA EntryShape ==
    /\ NotLive \in Entry /\ NotLive.in = FALSE /\ NotLive.subs = {}
    /\ \A e \in Entry : /\ e.subs \in SUBSET Consumers
                        /\ ~e.in => e = NotLive
                        /\ e.in => e \in [in : {TRUE}, closed : BOOLEAN, subs : SUBSET Consumers]
<1>1. NotLive \in Entry BY DEF Entry
<1>2. NotLive.in = FALSE /\ NotLive.subs = {} BY DEF NotLive
<1>3. ASSUME NEW e \in Entry
      PROVE  /\ e.subs \in SUBSET Consumers
             /\ ~e.in => e = NotLive
             /\ e.in => e \in [in : {TRUE}, closed : BOOLEAN, subs : SUBSET Consumers]
  <2>1. CASE e = NotLive BY <2>1, <1>2
  <2>2. CASE e \in [in : {TRUE}, closed : BOOLEAN, subs : SUBSET Consumers] BY <2>2
  <2>3. QED BY <2>1, <2>2 DEF Entry
<1>4. QED BY <1>1, <1>2, <1>3

LEMMA FactAppended ==
    ASSUME NEW f \in Facts, log \in Seq(Facts), Recorded(f)
    PROVE  log' \in Seq(Facts) /\ Len(log') = Len(log) + 1
BY DEF Recorded

LEMMA StopOutput ==
    ASSUME stream \in Seq(Kinds), Stop
    PROVE  stream' \in Seq(Kinds)
<1> DEFINE last == IF provider = "on"
                   THEN (IF running THEN <<"completed">> ELSE <<>>) \o <<"closed">> ELSE <<>>
<1>1. <<"completed">> \in Seq(Kinds) /\ <<"closed">> \in Seq(Kinds) /\ <<>> \in Seq(Kinds)
    BY DEF Kinds
<1>2. (IF running THEN <<"completed">> ELSE <<>>) \in Seq(Kinds) BY <1>1
<1>3. (IF running THEN <<"completed">> ELSE <<>>) \o <<"closed">> \in Seq(Kinds) BY <1>1, <1>2
<1>4. last \in Seq(Kinds) BY <1>1, <1>3
<1>5. stream' = stream \o last BY DEF Stop
<1> HIDE DEF last
<1>6. QED BY <1>4, <1>5

(* What the adapter emits are facts the log can hold.                       *)
LEMMA EmitOutput ==
    ASSUME NEW kinds \in Seq(Kinds), stream \in Seq(Kinds), Emit(kinds)
    PROVE  stream' \in Seq(Kinds)
BY DEF Emit

(* Delivering a number to the subscribers is what the feed calls Sent.      *)
LEMMA BroadcastIsSent ==
    ASSUME NEW n, Broadcast(n)
    PROVE  chan' = Feed!Sent(live.subs, n)
BY DEF Broadcast, Feed!Sent

LEMMA NobodyToTell ==
    ASSUME NEW n, chan \in [Consumers -> Seq(Nat)]
    PROVE  Feed!Sent({}, n) = chan
BY DEF Feed!Sent

(* Either the fact is in the log and with every subscriber, or neither.     *)
LEMMA RecordAndBroadcastOutput ==
    ASSUME NEW f \in Facts, FeedTypeOK, RecordAndBroadcast(f) \/ UNCHANGED <<log, chan>>
    PROVE  /\ log' \in Seq(Facts)
           /\ chan' \in [Consumers -> Seq(Nat)]
           /\ \/ Len(log') = Len(log) + 1 /\ chan' = Feed!Sent(live.subs, Len(log) + 1)
              \/ UNCHANGED <<log, chan>>
<1> USE DEF FeedTypeOK
<1>1. CASE UNCHANGED <<log, chan>> BY <1>1
<1>2. CASE Recorded(f) /\ Broadcast(Len(log) + 1)
  <2>1. log' \in Seq(Facts) /\ Len(log') = Len(log) + 1 BY <1>2, FactAppended
  <2>2. chan' = Feed!Sent(live.subs, Len(log) + 1) BY <1>2, BroadcastIsSent
  <2>3. Len(log) + 1 \in Nat OBVIOUS
  <2>4. chan' \in [Consumers -> Seq(Nat)] BY <1>2, <2>3 DEF Broadcast
  <2>5. QED BY <2>1, <2>2, <2>4
<1>3. QED BY <1>1, <1>2 DEF RecordAndBroadcast

-----------------------------------------------------------------------------
(* Every step of the threads is a step of the feed, or none.                *)

Told == [Feed!Next]_<<Len(log), base, chan, live.subs>>

(* Steps that leave the log, the entry and the channels alone.              *)
LEMMA QuietStep ==
    ASSUME Handover, UNCHANGED <<log, live, base, chan>>, stream' \in Seq(Kinds),
           closer' \in [Closers -> CloserState], NobodyAttached'
    PROVE  Handover' /\ Told
BY DEF Handover, FeedTypeOK, Told

(* Steps that record a fact while nobody is attached.                       *)
LEMMA UnheardStep ==
    ASSUME Handover, live = NotLive, UNCHANGED <<live, base, chan>>,
           stream' \in Seq(Kinds), closer' \in [Closers -> CloserState], NobodyAttached',
           NEW f \in Facts, Recorded(f)
    PROVE  Handover' /\ Told
<1> USE DEF Handover, FeedTypeOK
<1>1. log' \in Seq(Facts) /\ Len(log') = Len(log) + 1 BY FactAppended
<1>2. live.subs = {} BY EntryShape
<1>3. chan' = Feed!Sent(live.subs, Len(log) + 1) BY <1>2, NobodyToTell
<1>4. Feed!Record BY <1>1, <1>3 DEF Feed!Record
<1>5. QED BY <1>1, <1>4 DEF Told, Feed!Next

(* Steps of the pump: a fact recorded and delivered under the lock.         *)
LEMMA HeardStep ==
    ASSUME Handover, NEW f \in Facts,
           RecordAndBroadcast(f) \/ UNCHANGED <<log, chan>>,
           UNCHANGED base, live' \in Entry, live'.subs = live.subs,
           stream' \in Seq(Kinds), closer' \in [Closers -> CloserState], NobodyAttached'
    PROVE  Handover' /\ Told
<1> USE DEF Handover
<1>1. /\ log' \in Seq(Facts)
      /\ chan' \in [Consumers -> Seq(Nat)]
      /\ \/ Len(log') = Len(log) + 1 /\ chan' = Feed!Sent(live.subs, Len(log) + 1)
         \/ UNCHANGED <<log, chan>>
    BY RecordAndBroadcastOutput
<1>2. Handover' BY <1>1 DEF FeedTypeOK
<1>3. CASE Len(log') = Len(log) + 1 /\ chan' = Feed!Sent(live.subs, Len(log) + 1)
  <2>1. Feed!Record BY <1>3 DEF Feed!Record
  <2>2. QED BY <2>1, <1>2 DEF Told, Feed!Next
<1>4. CASE UNCHANGED <<log, chan>> BY <1>4, <1>2 DEF Told
<1>5. QED BY <1>1, <1>3, <1>4

-----------------------------------------------------------------------------
(* The creating thread.                                                     *)

LEMMA CreateStepTold ==
    ASSUME Handover, CreateStep
    PROVE  Handover' /\ Told
<1> USE DEF Handover, FeedTypeOK, NobodyAttached
<1>1. CASE StartAdapter
  <2>1. UNCHANGED <<log, live, base, chan, closer>> BY <1>1 DEF StartAdapter, hostVars
  <2>2. stream' \in Seq(Kinds)
    <3>1. <<"created", "idle">> \in Seq(Kinds) BY DEF Kinds
    <3>2. stream' = <<"created", "idle">> \/ stream' = stream BY <1>1 DEF StartAdapter
    <3>3. QED BY <3>1, <3>2
  <2>3. live = NotLive /\ \A k \in Closers : closer[k].at = "idle" BY <1>1 DEF StartAdapter
  <2>4. NobodyAttached' BY <2>1, <2>3
  <2>5. QED BY <2>1, <2>2, <2>4, QuietStep
<1>2. CASE RecordRow
  <2>1. UNCHANGED <<log, live, base, chan, closer>> BY <1>2 DEF RecordRow, hostVars
  <2>2. Stop \/ UNCHANGED stream BY <1>2 DEF RecordRow, adapterVars
  <2>3. stream' \in Seq(Kinds) BY <2>2, StopOutput
  <2>4. live = NotLive /\ \A k \in Closers : closer[k].at = "idle" BY <1>2 DEF RecordRow
  <2>5. NobodyAttached' BY <2>1, <2>4
  <2>6. QED BY <2>1, <2>3, <2>5, QuietStep
<1>3. CASE AppendFirst
  <2>1. UNCHANGED <<live, base, chan, closer>> BY <1>3 DEF AppendFirst, hostVars
  <2>2. Stop \/ UNCHANGED stream BY <1>3 DEF AppendFirst, adapterVars
  <2>3. stream' \in Seq(Kinds) BY <2>2, StopOutput
  <2>4. live = NotLive /\ \A k \in Closers : closer[k].at = "idle" BY <1>3 DEF AppendFirst
  <2>5. NobodyAttached' BY <2>1, <2>4
  <2>6. CASE UNCHANGED log BY <2>1, <2>3, <2>5, <2>6, QuietStep
  <2>7. CASE Recorded("working")
    <3>1. "working" \in Facts BY DEF Facts, Kinds
    <3>2. QED BY <3>1, <2>1, <2>3, <2>4, <2>5, <2>7, UnheardStep
  <2>8. CASE Recorded("created")
    <3>1. "created" \in Facts BY DEF Facts, Kinds
    <3>2. QED BY <3>1, <2>1, <2>3, <2>4, <2>5, <2>8, UnheardStep
  <2>9. QED BY <1>3, <2>6, <2>7, <2>8 DEF AppendFirst
<1>4. CASE SpawnPump
  <2>1. UNCHANGED <<live, base, chan, closer>> BY <1>4 DEF SpawnPump, hostVars
  <2>2. Stop \/ UNCHANGED stream BY <1>4 DEF SpawnPump, adapterVars
  <2>3. stream' \in Seq(Kinds) BY <2>2, StopOutput
  <2>4. live = NotLive /\ \A k \in Closers : closer[k].at = "idle" BY <1>4 DEF SpawnPump
  <2>5. NobodyAttached' BY <2>1, <2>4
  <2>6. CASE UNCHANGED log BY <2>1, <2>3, <2>5, <2>6, QuietStep
  <2>7. CASE Recorded("interrupted")
    <3>1. "interrupted" \in Facts BY DEF Facts, Kinds
    <3>2. QED BY <3>1, <2>1, <2>3, <2>4, <2>5, <2>7, UnheardStep
  <2>8. QED BY <1>4, <2>6, <2>7 DEF SpawnPump
<1>5. CASE InsertLive
  <2>1. UNCHANGED <<log, stream, closer, base, chan>> BY <1>5 DEF InsertLive, hostVars, adapterVars
  <2>2. live = NotLive /\ \A k \in Closers : closer[k].at = "idle" BY <1>5 DEF InsertLive
  <2>3. live' = [NotLive EXCEPT !.in = TRUE] /\ creator' = "serving" BY <1>5 DEF InsertLive
  <2>4. live' \in Entry /\ live'.subs = {} BY <2>3 DEF Entry, NotLive
  <2>5. live.subs = {} BY <2>2, EntryShape
  <2>6. Handover' BY <2>1, <2>2, <2>3, <2>4
  <2>7. QED BY <2>1, <2>4, <2>5, <2>6 DEF Told
<1>6. QED BY <1>1, <1>2, <1>3, <1>4, <1>5 DEF CreateStep

(* The adapter.                                                             *)
LEMMA AdapterStepTold ==
    ASSUME Handover, RunStarts \/ RunNotes \/ RunEnds \/ ProviderDies
    PROVE  Handover' /\ Told
<1> USE DEF Handover, FeedTypeOK
<1>1. UNCHANGED <<log, live, base, chan, closer, creator>>
    BY DEF RunStarts, RunNotes, RunEnds, ProviderDies, hostVars
<1>2. NobodyAttached' BY <1>1 DEF NobodyAttached
<1>3. stream' \in Seq(Kinds)
  <2>1. <<"working">> \in Seq(Kinds) /\ <<"note">> \in Seq(Kinds)
        /\ <<"completed", "idle">> \in Seq(Kinds) /\ <<"interrupted", "closed">> \in Seq(Kinds)
      BY DEF Kinds
  <2>2. (IF running THEN <<"completed">> ELSE <<>>) \in Seq(Kinds)
    <3>1. <<"completed">> \in Seq(Kinds) /\ <<>> \in Seq(Kinds) BY DEF Kinds
    <3>2. QED BY <3>1
  <2>3. (IF running THEN <<"completed">> ELSE <<>>) \o <<"interrupted", "closed">> \in Seq(Kinds)
      BY <2>1, <2>2
  <2>4. CASE RunStarts BY <2>1, <2>4, EmitOutput DEF RunStarts
  <2>5. CASE RunNotes BY <2>1, <2>5, EmitOutput DEF RunNotes
  <2>6. CASE RunEnds BY <2>1, <2>6, EmitOutput DEF RunEnds
  <2>7. CASE ProviderDies BY <2>3, <2>7, EmitOutput DEF ProviderDies
  <2>8. QED BY <2>4, <2>5, <2>6, <2>7
<1>4. QED BY <1>1, <1>2, <1>3, QuietStep

(* The pump.                                                                *)
LEMMA PumpStepTold ==
    ASSUME Handover, PumpStep
    PROVE  Handover' /\ Told
<1> USE DEF Handover, FeedTypeOK
<1>1. ASSUME TakeStream \/ PumpEnds PROVE Handover' /\ Told
  <2>1. UNCHANGED <<log, live, base, chan, closer, creator, stream>>
      BY <1>1 DEF TakeStream, PumpEnds, hostVars, adapterVars
  <2>2. NobodyAttached' BY <2>1 DEF NobodyAttached
  <2>3. QED BY <2>1, <2>2, QuietStep
<1>2. CASE Skip
  <2>1. UNCHANGED <<log, live, base, chan, closer, creator>> BY <1>2 DEF Skip, hostVars
  <2>2. NobodyAttached' BY <2>1 DEF NobodyAttached
  <2>3. stream' \in Seq(Kinds) BY <1>2 DEF Skip
  <2>4. QED BY <2>1, <2>2, <2>3, QuietStep
<1>3. CASE Drain
  <2>1. UNCHANGED <<base, closer, creator>> BY <1>3 DEF Drain
  <2>2. Head(stream) \in Kinds /\ stream' \in Seq(Kinds) BY <1>3 DEF Drain
  <2>3. Head(stream) \in Facts BY <2>2 DEF Facts
  <2>4. /\ live' \in Entry /\ live'.subs = live.subs
        /\ live = NotLive => live' = NotLive
    <3>1. CASE Head(stream) = "closed"
      <4>1. live.in BY <1>3, <3>1 DEF Drain, Skipped
      <4>2. live \in [in : {TRUE}, closed : BOOLEAN, subs : SUBSET Consumers]
          BY <4>1, EntryShape
      <4>3. live' = [live EXCEPT !.closed = TRUE] BY <1>3, <3>1 DEF Drain
      <4>4. live' \in [in : {TRUE}, closed : BOOLEAN, subs : SUBSET Consumers]
            /\ live'.subs = live.subs
          BY <4>2, <4>3
      <4>5. live # NotLive BY <4>1 DEF NotLive
      <4>6. QED BY <4>4, <4>5 DEF Entry
    <3>2. CASE Head(stream) # "closed"
      <4>1. live' = live BY <1>3, <3>2 DEF Drain
      <4>2. QED BY <4>1
    <3>3. QED BY <3>1, <3>2
  <2>5. NobodyAttached' BY <2>1, <2>4 DEF NobodyAttached
  <2>6. RecordAndBroadcast(Head(stream)) BY <1>3 DEF Drain
  <2>7. QED BY <2>1, <2>2, <2>3, <2>4, <2>5, <2>6, HeardStep
<1>4. CASE PostRunCheckpoint
  <2>1. UNCHANGED <<base, closer, creator, live, stream>> BY <1>4 DEF PostRunCheckpoint, adapterVars
  <2>2. NobodyAttached' BY <2>1 DEF NobodyAttached
  <2>3. "checkpoint" \in Facts BY DEF Facts
  <2>4. RecordAndBroadcast("checkpoint") \/ UNCHANGED <<log, chan>> BY <1>4 DEF PostRunCheckpoint
  <2>5. QED BY <2>1, <2>2, <2>3, <2>4, HeardStep
<1>5. CASE PostRunQuota
  <2>1. UNCHANGED <<base, closer, creator, live, stream>> BY <1>5 DEF PostRunQuota, adapterVars
  <2>2. NobodyAttached' BY <2>1 DEF NobodyAttached
  <2>3. "quota" \in Facts BY DEF Facts
  <2>4. RecordAndBroadcast("quota") \/ UNCHANGED <<log, chan>> BY <1>5 DEF PostRunQuota
  <2>5. QED BY <2>1, <2>2, <2>3, <2>4, HeardStep
<1>6. QED BY <1>1, <1>2, <1>3, <1>4, <1>5 DEF PumpStep

-----------------------------------------------------------------------------
(* The hosts.                                                               *)

(* The replay and the registration are one subscription of the feed.        *)
LEMMA SubscribeStepTold ==
    ASSUME Handover, NEW c \in Consumers, Subscribe(c)
    PROVE  Handover' /\ Told
<1> USE DEF Handover, FeedTypeOK
<1>1. UNCHANGED <<log, stream, closer, creator>> BY DEF Subscribe, adapterVars
<1>2. /\ live' \in Entry /\ live'.subs \in {live.subs, live.subs \cup {c}}
      /\ live = NotLive => live' = NotLive
  <2>1. CASE live.in
    <3>1. live \in [in : {TRUE}, closed : BOOLEAN, subs : SUBSET Consumers] BY <2>1, EntryShape
    <3>2. live' = [live EXCEPT !.subs = @ \cup {c}] BY <2>1 DEF Subscribe
    <3>3. live' \in [in : {TRUE}, closed : BOOLEAN, subs : SUBSET Consumers]
          /\ live'.subs = live.subs \cup {c}
        BY <3>1, <3>2
    <3>4. live # NotLive BY <2>1, EntryShape
    <3>5. QED BY <3>3, <3>4 DEF Entry
  <2>2. CASE ~live.in
    <3>1. live' = live BY <2>2 DEF Subscribe
    <3>2. QED BY <3>1
  <2>3. QED BY <2>1, <2>2
<1>3. NobodyAttached' BY <1>1, <1>2 DEF NobodyAttached
<1>4. \E n \in 0..Len(log) :
        /\ base' = [base EXCEPT ![c] = n]
        /\ chan' = [chan EXCEPT ![c] = Feed!Span(n, Len(log))]
  <2>1. PICK from \in 0..Len(log), truncated \in BOOLEAN :
          /\ base' = [base EXCEPT ![c] = IF truncated THEN Len(log) ELSE from]
          /\ chan' = [chan EXCEPT ![c] = IF truncated THEN <<>> ELSE Page(from)]
      BY DEF Subscribe
  <2>2. CASE truncated
    <3>1. Feed!Span(Len(log), Len(log)) = <<>> BY DEF Feed!Span
    <3>2. Len(log) \in 0..Len(log) OBVIOUS
    <3>3. QED BY <2>1, <2>2, <3>1, <3>2
  <2>3. CASE ~truncated
    <3>1. Page(from) = Feed!Span(from, Len(log)) BY DEF Page, Feed!Span
    <3>2. QED BY <2>1, <2>3, <3>1
  <2>4. QED BY <2>2, <2>3
<1>5. base' \in [Consumers -> Nat] /\ chan' \in [Consumers -> Seq(Nat)]
  <2>1. PICK n \in 0..Len(log) : /\ base' = [base EXCEPT ![c] = n]
                                 /\ chan' = [chan EXCEPT ![c] = Feed!Span(n, Len(log))]
      BY <1>4
  <2>2. Feed!Span(n, Len(log)) \in Seq(Nat) BY DEF Feed!Span
  <2>3. n \in Nat OBVIOUS
  <2>4. QED BY <2>1, <2>2, <2>3
<1>6. Handover' BY <1>1, <1>2, <1>3, <1>5
<1>7. Feed!Subscribe(c) BY <1>1, <1>2, <1>4 DEF Feed!Subscribe
<1>8. QED BY <1>6, <1>7 DEF Told, Feed!Next

(* A close that no host began early: it takes the subscribers away before   *)
(* the stop and the facade's own session.closed.                            *)
LEMMA CloseStepTold ==
    ASSUME Handover, Eager \cap Closers = {}, NEW k \in Closers,
           CloseBegins(k) \/ CloseStep(k)
    PROVE  Handover' /\ Told
<1> USE DEF Handover, FeedTypeOK
<1>0. closer[k] \in CloserState OBVIOUS
<1>1. CASE CloseBegins(k)
  <2>1. /\ UNCHANGED <<log, stream, base, chan, creator>> /\ live' = NotLive
      BY <1>1 DEF CloseBegins, adapterVars
  <2>2. creator \in {"serving", "failed"} BY <1>1 DEF CloseBegins, Addressable
  <2>3. \E at \in {"stopping", "rejected", "closing"} :
          closer' = [closer EXCEPT ![k] = [at |-> at, saw |-> live.closed]]
      BY <1>1 DEF CloseBegins
  <2>4. live.closed \in BOOLEAN
    <3>1. CASE live = NotLive BY <3>1 DEF NotLive
    <3>2. CASE live \in [in : {TRUE}, closed : BOOLEAN, subs : SUBSET Consumers] BY <3>2
    <3>3. QED BY <3>1, <3>2 DEF Entry
  <2>5. closer' \in [Closers -> CloserState] BY <2>3, <2>4 DEF CloserState
  <2>6. NobodyAttached' BY <2>1, <2>2 DEF NobodyAttached
  <2>7. live' \in Entry /\ live'.subs = {} BY <2>1, EntryShape
  <2>8. Handover' BY <2>1, <2>5, <2>6, <2>7
  <2>9. Feed!Detach BY <2>1, <2>7 DEF Feed!Detach
  <2>10. QED BY <2>8, <2>9 DEF Told, Feed!Next
<1>2. ASSUME CloseStep(k)
      PROVE  /\ UNCHANGED <<live, base, chan, creator>> /\ live = NotLive
             /\ closer' \in [Closers -> CloserState] /\ stream' \in Seq(Kinds)
             /\ NobodyAttached'
  <2>1. UNCHANGED <<live, base, chan, creator>>
      BY <1>2 DEF CloseStep, CloseStops, CloseJoins, CloseRecords
  <2>2. closer[k].at # "idle" BY <1>2 DEF CloseStep, CloseStops, CloseJoins, CloseRecords
  <2>3. live = NotLive /\ creator \in {"serving", "failed"} BY <2>2 DEF NobodyAttached
  <2>4. \E at \in {"joining", "done", "closing", "rejected"} : closer' = [closer EXCEPT ![k].at = at]
      BY <1>2 DEF CloseStep, CloseStops, CloseJoins, CloseRecords
  <2>5. closer' \in [Closers -> CloserState] BY <2>4 DEF CloserState
  <2>6. Stop \/ UNCHANGED stream
      BY <1>2 DEF CloseStep, CloseStops, CloseJoins, CloseRecords, adapterVars
  <2>7. stream' \in Seq(Kinds) BY <2>6, StopOutput
  <2>8. NobodyAttached' BY <2>1, <2>3 DEF NobodyAttached
  <2>9. QED BY <2>1, <2>3, <2>5, <2>7, <2>8
<1>3. CASE CloseStops(k) \/ CloseJoins(k)
  <2>1. UNCHANGED log BY <1>3 DEF CloseStops, CloseJoins
  <2>2. QED BY <1>2, <1>3, <2>1, QuietStep DEF CloseStep
<1>4. CASE CloseRecords(k)
  <2>1. CASE UNCHANGED log BY <1>2, <1>4, <2>1, QuietStep DEF CloseStep
  <2>2. CASE Recorded("closed")
    <3>1. "closed" \in Facts BY DEF Facts, Kinds
    <3>2. QED BY <1>2, <1>4, <2>2, <3>1, UnheardStep DEF CloseStep
  <2>3. QED BY <1>4, <2>1, <2>2 DEF CloseRecords
<1>5. QED BY <1>1, <1>3, <1>4 DEF CloseStep

-----------------------------------------------------------------------------

LEMMA HandoverInit == Init => Handover /\ Feed!Init
<1> SUFFICES ASSUME Init PROVE Handover /\ Feed!Init OBVIOUS
<1>1. log \in Seq(Facts)
  <2>1. <<"created", "working", "interrupted">> \in Seq(Facts) /\ <<>> \in Seq(Facts)
      BY DEF Facts, Kinds
  <2>2. QED BY <2>1 DEF Init
<1>2. live \in Entry /\ live = NotLive /\ live.subs = {} BY EntryShape DEF Init
<1>3. closer \in [Closers -> CloserState] BY DEF Init, CloserState
<1>4. \A k \in Closers : closer[k].at = "idle" BY DEF Init
<1>5. /\ base \in [Consumers -> Nat] /\ chan \in [Consumers -> Seq(Nat)]
      /\ stream \in Seq(Kinds)
    BY DEF Init
<1>6. Handover BY <1>1, <1>2, <1>3, <1>4, <1>5 DEF Handover, FeedTypeOK, NobodyAttached
<1>7. Len(log) \in Nat BY <1>1
<1>8. Feed!Init BY <1>2, <1>7 DEF Init, Feed!Init
<1>9. QED BY <1>6, <1>8

LEMMA HandoverStep ==
    ASSUME Restorers = {}, Eager \cap Closers = {}
    PROVE  Handover /\ [Next]_vars => Handover' /\ Told
<1> SUFFICES ASSUME Handover, [Next]_vars PROVE Handover' /\ Told OBVIOUS
<1>1. CASE UNCHANGED vars
  <2>1. UNCHANGED <<log, live, base, chan, stream, closer, creator>>
      BY <1>1 DEF vars, adapterVars, hostVars
  <2>2. NobodyAttached' BY <2>1 DEF Handover, NobodyAttached
  <2>3. QED BY <2>1, <2>2, QuietStep DEF Handover, FeedTypeOK
<1>2. CASE Next
  <2>1. CASE CreateStep BY <2>1, CreateStepTold
  <2>2. CASE RunStarts \/ RunNotes \/ RunEnds \/ ProviderDies BY <2>2, AdapterStepTold
  <2>3. CASE PumpStep BY <2>3, PumpStepTold
  <2>4. ASSUME NEW c \in Consumers, Subscribe(c) PROVE Handover' /\ Told
      BY <2>4, SubscribeStepTold
  <2>5. ASSUME NEW k \in Closers, CloseBegins(k) \/ CloseStep(k) PROVE Handover' /\ Told
      BY <2>5, CloseStepTold
  <2>6. QED BY <1>2, <2>1, <2>2, <2>3, <2>4, <2>5 DEF Next
<1>3. QED BY <1>1, <1>2

(* A consumer of one session gets the feed of EventFeed: the pump, the      *)
(* subscribe handler and the closing threads implement it.                  *)
THEOREM PumpImplementsFeed ==
    ASSUME Restorers = {}, Eager \cap Closers = {}
    PROVE  Spec => FeedSpec
<1>1. Init => Handover /\ Feed!Init BY HandoverInit
<1>2. Handover /\ [Next]_vars => Handover' /\ [Feed!Next]_<<Len(log), base, chan, live.subs>>
    BY HandoverStep DEF Told
<1>3. QED BY <1>1, <1>2, PTL DEF Spec, FeedSpec

-----------------------------------------------------------------------------
(* The promise of EventFeed, which speaks of the length of the log and of   *)
(* the subscriptions of the session, follows from its steps.                *)

FeedTyped ==
    /\ Len(log) \in Nat
    /\ base \in [Consumers -> Nat]
    /\ chan \in [Consumers -> Seq(Nat)]
    /\ live.subs \subseteq Consumers

FeedPromise == FeedTyped /\ Feed!InOrder /\ Feed!UpToDate

(* A span is a sequence of as many numbers as it spans.                     *)
LEMMA FeedSpanIsSeq ==
    ASSUME NEW n \in Nat, NEW m \in Nat, n <= m
    PROVE  Feed!Span(n, m) \in Seq(Nat) /\ Len(Feed!Span(n, m)) = m - n
BY DEF Feed!Span

(* The next number extends a span.                                          *)
LEMMA FeedSpanGrows ==
    ASSUME NEW n \in Nat, NEW m \in Nat, n <= m
    PROVE  Append(Feed!Span(n, m), m + 1) = Feed!Span(n, m + 1)
<1>1. Feed!Span(n, m) \in Seq(Nat) /\ Len(Feed!Span(n, m)) = m - n BY FeedSpanIsSeq
<1>2. Append(Feed!Span(n, m), m + 1) =
        [i \in 1..(m - n + 1) |-> IF i = m - n + 1 THEN m + 1 ELSE Feed!Span(n, m)[i]]
    BY <1>1
<1>3. ASSUME NEW i \in 1..(m - n + 1)
      PROVE  (IF i = m - n + 1 THEN m + 1 ELSE Feed!Span(n, m)[i]) = n + i
    BY <1>3 DEF Feed!Span
<1>4. m + 1 - n = m - n + 1 OBVIOUS
<1>5. QED BY <1>2, <1>3, <1>4 DEF Feed!Span

(* Initially nobody has been promised anything.                             *)
LEMMA FeedPromiseInit == Feed!Init => FeedPromise
<1> SUFFICES ASSUME Feed!Init PROVE FeedPromise OBVIOUS
<1>1. FeedTyped BY DEF Feed!Init, FeedTyped
<1>2. Feed!UpToDate BY DEF Feed!Init, Feed!UpToDate
<1>3. ASSUME NEW c \in Consumers PROVE chan[c] = Feed!Span(base[c], base[c] + Len(chan[c]))
  <2>1. chan[c] = <<>> /\ base[c] = 0 /\ Len(chan[c]) = 0 BY DEF Feed!Init
  <2>2. Feed!Span(0, 0) = <<>> BY DEF Feed!Span
  <2>3. QED BY <2>1, <2>2
<1>4. QED BY <1>1, <1>2, <1>3 DEF FeedPromise, Feed!InOrder

(* Each step of the feed keeps the promise.                                 *)
LEMMA FeedPromiseStep ==
    FeedPromise /\ [Feed!Next]_<<Len(log), base, chan, live.subs>> => FeedPromise'
<1> SUFFICES ASSUME FeedPromise, [Feed!Next]_<<Len(log), base, chan, live.subs>>
             PROVE  FeedPromise'
  OBVIOUS
<1> USE DEF FeedPromise
<1>1. CASE Feed!Record
  <2>1. ASSUME NEW c \in Consumers
        PROVE  /\ chan'[c] \in Seq(Nat)
               /\ chan'[c] = Feed!Span(base'[c], base'[c] + Len(chan'[c]))
               /\ c \in live.subs' => base'[c] + Len(chan'[c]) = Len(log)'
    <3>1. base'[c] = base[c] /\ live.subs' = live.subs /\ Len(log)' = Len(log) + 1 BY <1>1 DEF Feed!Record
    <3>2. chan'[c] = IF c \in live.subs THEN Append(chan[c], Len(log) + 1) ELSE chan[c]
        BY <1>1 DEF Feed!Record, Feed!Sent
    <3>3. chan[c] \in Seq(Nat) /\ base[c] \in Nat /\ Len(log) \in Nat BY DEF FeedTyped
    <3>4. chan[c] = Feed!Span(base[c], base[c] + Len(chan[c])) BY DEF Feed!InOrder
    <3>5. CASE c \in live.subs
      <4>1. base[c] + Len(chan[c]) = Len(log) BY <3>5 DEF Feed!UpToDate
      <4>2. chan'[c] = Append(chan[c], Len(log) + 1) BY <3>2, <3>5
      <4>3. base[c] <= Len(log) BY <4>1, <3>3
      <4>4. chan'[c] = Feed!Span(base[c], Len(log) + 1) BY <4>1, <4>2, <4>3, <3>3, <3>4, FeedSpanGrows
      <4>5. Len(chan'[c]) = Len(chan[c]) + 1 /\ chan'[c] \in Seq(Nat) BY <4>2, <3>3
      <4>6. base'[c] + Len(chan'[c]) = Len(log)'
        <5>1. Len(chan[c]) \in Nat BY <3>3
        <5>2. base[c] + (Len(chan[c]) + 1) = Len(log) + 1 BY <5>1, <4>1, <3>3
        <5>3. QED BY <5>2, <4>5, <3>1
      <4>7. QED BY <4>4, <4>5, <4>6, <3>1
    <3>6. CASE c \notin live.subs
      <4>1. chan'[c] = chan[c] BY <3>2, <3>6
      <4>2. QED BY <4>1, <3>1, <3>3, <3>4, <3>6
    <3>7. QED BY <3>5, <3>6
  <2>2. chan' = [c \in Consumers |-> IF c \in live.subs THEN Append(chan[c], Len(log) + 1) ELSE chan[c]]
      BY <1>1 DEF Feed!Record, Feed!Sent
  <2>3. chan' \in [Consumers -> Seq(Nat)] BY <2>1, <2>2
  <2>4. FeedTyped' BY <1>1, <2>3 DEF Feed!Record, FeedTyped
  <2>5. live.subs' \subseteq Consumers BY <2>4 DEF FeedTyped
  <2>6. QED BY <2>1, <2>4, <2>5 DEF Feed!InOrder, Feed!UpToDate
<1>2. CASE Feed!Detach
  <2>1. FeedTyped' BY <1>2 DEF Feed!Detach, FeedTyped
  <2>2. Feed!InOrder' BY <1>2 DEF Feed!Detach, Feed!InOrder
  <2>3. Feed!UpToDate' BY <1>2 DEF Feed!Detach, Feed!UpToDate
  <2>4. QED BY <2>1, <2>2, <2>3
<1>3. ASSUME NEW c \in Consumers, Feed!Subscribe(c) PROVE FeedPromise'
  <2>1. PICK n \in 0..Len(log) : base' = [base EXCEPT ![c] = n]
          /\ chan' = [chan EXCEPT ![c] = Feed!Span(n, Len(log))]
      BY <1>3 DEF Feed!Subscribe
  <2>2. Len(log)' = Len(log) /\ Len(log) \in Nat /\ n \in Nat /\ n <= Len(log) BY <1>3, <2>1
          DEF Feed!Subscribe, FeedTyped
  <2>3. Feed!Span(n, Len(log)) \in Seq(Nat)
          /\ Len(Feed!Span(n, Len(log))) = Len(log) - n BY <2>2, FeedSpanIsSeq
  <2>4. live.subs' \subseteq live.subs \cup {c} /\ live.subs' \subseteq Consumers BY <1>3
          DEF Feed!Subscribe, FeedTyped
  <2>5. FeedTyped' BY <2>1, <2>2, <2>3, <2>4 DEF FeedTyped
  <2>6. ASSUME NEW d \in Consumers
        PROVE  /\ chan'[d] = Feed!Span(base'[d], base'[d] + Len(chan'[d]))
               /\ d \in live.subs' => base'[d] + Len(chan'[d]) = Len(log)'
    <3>1. CASE d = c
      <4>1. chan'[d] = Feed!Span(n, Len(log)) /\ base'[d] = n BY <3>1, <2>1 DEF FeedTyped
      <4>2. n + Len(chan'[d]) = Len(log) BY <4>1, <2>2, <2>3
      <4>3. QED BY <4>1, <4>2, <2>2
    <3>2. CASE d # c
      <4>1. chan'[d] = chan[d] /\ base'[d] = base[d] BY <3>2, <2>1 DEF FeedTyped
      <4>2. d \in live.subs' => d \in live.subs BY <2>4, <3>2
      <4>3. QED BY <4>1, <4>2, <2>2 DEF Feed!InOrder, Feed!UpToDate
    <3>3. QED BY <3>1, <3>2
  <2>7. QED BY <2>4, <2>5, <2>6 DEF Feed!InOrder, Feed!UpToDate
<1>4. CASE UNCHANGED <<Len(log), base, chan, live.subs>>
  <2>1. FeedTyped' BY <1>4 DEF FeedTyped
  <2>2. Feed!InOrder' BY <1>4 DEF Feed!InOrder
  <2>3. Feed!UpToDate' BY <1>4 DEF Feed!UpToDate
  <2>4. QED BY <2>1, <2>2, <2>3
<1>5. QED BY <1>1, <1>2, <1>3, <1>4 DEF Feed!Next

(* Every behaviour of the feed keeps every channel consecutive and every    *)
(* attached consumer up to date.                                            *)
THEOREM FeedKeepsPromise == FeedSpec => [](Feed!InOrder /\ Feed!UpToDate)
<1>1. FeedPromise => Feed!InOrder /\ Feed!UpToDate BY DEF FeedPromise
<1>2. QED BY FeedPromiseInit, FeedPromiseStep, <1>1, PTL DEF FeedSpec

(* What a consumer can rely on, from the feed's own theorem: its channel is *)
(* one consecutive run of facts from where its subscription starts, and     *)
(* while it is attached the newest fact is the last one it was sent.        *)
COROLLARY AttachedAreUpToDate ==
    ASSUME Restorers = {}, Eager \cap Closers = {}
    PROVE  Spec => [](Feed!InOrder /\ Feed!UpToDate)
BY PumpImplementsFeed, FeedKeepsPromise, PTL

-----------------------------------------------------------------------------
(* The log is orderly.  First, types, whoever the hosts are.                *)

RestorerState == [at : {"idle", "allowed", "recorded", "done"}, seq : Nat]

PumpTypeOK ==
    /\ FeedTypeOK
    /\ resumed \in BOOLEAN /\ running \in BOOLEAN /\ skipIdle \in BOOLEAN /\ known \in BOOLEAN
    /\ creator \in {"new", "started", "recorded", "appended", "spawned", "serving", "failed"}
    /\ provider \in {"off", "on", "dead", "stopped"}
    /\ sent \in Seq(Kinds)
    /\ pump \in {"none", "spawned", "draining", "checkpoint", "quota", "done"}
    /\ restorer \in [Restorers -> RestorerState]

LEMMA TypeParts == TypeOK <=> PumpTypeOK
BY DEF TypeOK, PumpTypeOK, FeedTypeOK, Entry, CloserState, RestorerState

(* What the adapter puts on its stream, in whichever action it does so: an  *)
(* idle follows the end of a run, and a close is the last word.             *)
Emission(last) ==
    /\ Emit(last) /\ last \in Seq(Kinds)
    /\ \A i \in 1..Len(last) : /\ last[i] = "idle" => i > 1 /\ last[i - 1] = "completed"
                               /\ last[i] = "closed" => i = Len(last) /\ provider' # "on"

LEMMA Words ==
    /\ <<"completed">> \in Seq(Kinds) /\ <<"closed">> \in Seq(Kinds) /\ <<>> \in Seq(Kinds)
    /\ <<"working">> \in Seq(Kinds) /\ <<"note">> \in Seq(Kinds)
    /\ <<"completed", "idle">> \in Seq(Kinds) /\ <<"interrupted", "closed">> \in Seq(Kinds)
    /\ <<"created", "idle">> \in Seq(Kinds)
BY DEF Kinds

LEMMA StopEmits ==
    ASSUME Stop
    PROVE  /\ provider' = "stopped" /\ running' = FALSE
           /\ \E last : Emission(last) /\ (provider # "on" => last = <<>>)
<1> DEFINE finish == IF running THEN <<"completed">> ELSE <<>>
           last == IF provider = "on" THEN finish \o <<"closed">> ELSE <<>>
<1>1. Emit(last) /\ provider' = "stopped" /\ running' = FALSE BY DEF Stop, Emit
<1>2. finish \in Seq(Kinds) /\ \A i \in 1..Len(finish) : finish[i] = "completed"
  <2>1. CASE running BY <2>1, Words
  <2>2. CASE ~running BY <2>2, Words
  <2>3. QED BY <2>1, <2>2
<1> HIDE DEF finish
<1>3. CASE provider = "on"
  <2>1. last = finish \o <<"closed">> BY <1>3
  <2>2. /\ last \in Seq(Kinds)
        /\ \A i \in 1..Len(last) : /\ last[i] = "idle" => i > 1 /\ last[i - 1] = "completed"
                                   /\ last[i] = "closed" => i = Len(last)
      BY <2>1, <1>2, Words
  <2>3. Emission(last) BY <1>1, <2>2 DEF Emission
  <2>4. QED BY <1>1, <1>3, <2>3
<1>4. CASE provider # "on"
  <2>1. last = <<>> BY <1>4
  <2>2. Emission(last) BY <1>1, <2>1, Words DEF Emission
  <2>3. QED BY <1>1, <2>1, <2>2
<1>5. QED BY <1>3, <1>4

LEMMA RunEmits ==
    ASSUME RunStarts \/ RunNotes \/ RunEnds \/ ProviderDies
    PROVE  \E last : Emission(last)
<1>1. CASE RunStarts
  <2>1. Emission(<<"working">>) BY <1>1, Words DEF RunStarts, Emission
  <2>2. QED BY <2>1
<1>2. CASE RunNotes
  <2>1. Emission(<<"note">>) BY <1>2, Words DEF RunNotes, Emission
  <2>2. QED BY <2>1
<1>3. CASE RunEnds
  <2>1. Emission(<<"completed", "idle">>) BY <1>3, Words DEF RunEnds, Emission
  <2>2. QED BY <2>1
<1>4. CASE ProviderDies
  <2> DEFINE finish == IF running THEN <<"completed">> ELSE <<>>
             last == finish \o <<"interrupted", "closed">>
  <2>1. Emit(last) /\ provider' = "dead" BY <1>4 DEF ProviderDies
  <2>2. finish \in Seq(Kinds) /\ \A i \in 1..Len(finish) : finish[i] = "completed"
    <3>1. CASE running BY <3>1, Words
    <3>2. CASE ~running BY <3>2, Words
    <3>3. QED BY <3>1, <3>2
  <2> HIDE DEF finish
  <2>3. /\ last \in Seq(Kinds)
        /\ \A i \in 1..Len(last) : /\ last[i] = "idle" => i > 1 /\ last[i - 1] = "completed"
                                   /\ last[i] = "closed" => i = Len(last)
      BY <2>2, Words
  <2>4. Emission(last) BY <2>1, <2>3 DEF Emission
  <2>5. QED BY <2>4
<1>5. QED BY <1>1, <1>2, <1>3, <1>4

LEMMA EmissionTyped ==
    ASSUME PumpTypeOK, NEW last, Emission(last)
    PROVE  /\ sent' \in Seq(Kinds) /\ stream' \in Seq(Kinds)
           /\ Len(sent') = Len(sent) + Len(last) /\ Len(stream') = Len(stream) + Len(last)
           /\ \A i \in 1..Len(sent) : sent'[i] = sent[i]
           /\ \A i \in 1..Len(stream) : stream'[i] = stream[i]
           /\ \A i \in 1..Len(last) : /\ sent'[Len(sent) + i] = last[i]
                                      /\ stream'[Len(stream) + i] = last[i]
BY DEF PumpTypeOK, FeedTypeOK, Emission, Emit

(* The store and the channels, written to under the lock.                   *)
LEMMA WriteTyped ==
    ASSUME PumpTypeOK, NEW f \in Facts, RecordAndBroadcast(f) \/ UNCHANGED <<log, chan>>
    PROVE  log' \in Seq(Facts) /\ chan' \in [Consumers -> Seq(Nat)]
BY RecordAndBroadcastOutput DEF PumpTypeOK, FeedTypeOK

LEMMA CreateTyped == ASSUME PumpTypeOK, CreateStep PROVE PumpTypeOK'
<1>0. FeedTypeOK /\ Kinds \subseteq Facts BY DEF PumpTypeOK, FeedTypeOK, Facts
<1>1. CASE StartAdapter
  <2>1. <<"created", "idle">> \in Seq(Kinds) BY Words
  <2>2. QED BY <1>1, <2>1 DEF StartAdapter, PumpTypeOK, FeedTypeOK, pumpVars, hostVars
<1>2. CASE RecordRow
  <2>1. CASE Stop
    <3>1. sent' \in Seq(Kinds) /\ stream' \in Seq(Kinds) /\ provider' = "stopped" /\ running' = FALSE
        BY <2>1, StopEmits, EmissionTyped
    <3>2. QED BY <1>2, <3>1 DEF RecordRow, PumpTypeOK, FeedTypeOK, pumpVars, hostVars, adapterVars
  <2>2. CASE UNCHANGED adapterVars
    BY <1>2, <2>2 DEF RecordRow, PumpTypeOK, FeedTypeOK, pumpVars, hostVars, adapterVars
  <2>3. QED BY <1>2, <2>1, <2>2 DEF RecordRow
<1>3. CASE AppendFirst
  <2>1. CASE Stop /\ UNCHANGED log
    <3>1. sent' \in Seq(Kinds) /\ stream' \in Seq(Kinds) /\ provider' = "stopped" /\ running' = FALSE
        BY <2>1, StopEmits, EmissionTyped
    <3>2. QED BY <1>3, <2>1, <3>1 DEF AppendFirst, PumpTypeOK, FeedTypeOK, pumpVars, hostVars, adapterVars
  <2>2. CASE UNCHANGED adapterVars /\ Recorded(IF resumed THEN "working" ELSE "created")
    <3>1. log' \in Seq(Facts)
        BY <2>2, <1>0, FactAppended DEF FeedTypeOK, Kinds
    <3>2. QED BY <1>3, <2>2, <3>1 DEF AppendFirst, PumpTypeOK, FeedTypeOK, pumpVars, hostVars, adapterVars
  <2>3. QED BY <1>3, <2>1, <2>2 DEF AppendFirst
<1>4. CASE SpawnPump
  <2>1. CASE Stop
    <3>1. sent' \in Seq(Kinds) /\ stream' \in Seq(Kinds) /\ provider' = "stopped" /\ running' = FALSE
        BY <2>1, StopEmits, EmissionTyped
    <3>2. log' \in Seq(Facts)
      <4>1. CASE Recorded("interrupted") BY <4>1, <1>0, FactAppended DEF FeedTypeOK, Kinds
      <4>2. CASE UNCHANGED log BY <4>2 DEF PumpTypeOK, FeedTypeOK
      <4>3. QED BY <1>4, <4>1, <4>2 DEF SpawnPump
    <3>3. QED BY <1>4, <3>1, <3>2 DEF SpawnPump, PumpTypeOK, FeedTypeOK, pumpVars, hostVars
  <2>2. CASE UNCHANGED <<adapterVars, log>>
    BY <1>4, <2>2 DEF SpawnPump, PumpTypeOK, FeedTypeOK, pumpVars, hostVars, adapterVars
  <2>3. QED BY <1>4, <2>1, <2>2 DEF SpawnPump
<1>5. CASE InsertLive
  <2>1. [NotLive EXCEPT !.in = TRUE] \in [in : {TRUE}, closed : BOOLEAN, subs : SUBSET Consumers]
      BY DEF NotLive
  <2>2. QED BY <1>5, <2>1 DEF InsertLive, PumpTypeOK, FeedTypeOK, Entry, pumpVars, hostVars, adapterVars
<1>6. QED BY <1>1, <1>2, <1>3, <1>4, <1>5 DEF CreateStep

LEMMA AdapterTyped ==
    ASSUME PumpTypeOK, RunStarts \/ RunNotes \/ RunEnds \/ ProviderDies PROVE PumpTypeOK'
<1>1. sent' \in Seq(Kinds) /\ stream' \in Seq(Kinds) BY RunEmits, EmissionTyped
<1>2. running' \in BOOLEAN /\ provider' \in {"off", "on", "dead", "stopped"}
    BY DEF RunStarts, RunNotes, RunEnds, ProviderDies, PumpTypeOK, FeedTypeOK
<1>3. UNCHANGED <<resumed, creator, pumpVars, known, log, live, hostVars>>
    BY DEF RunStarts, RunNotes, RunEnds, ProviderDies
<1>4. QED BY <1>1, <1>2, <1>3 DEF PumpTypeOK, FeedTypeOK, pumpVars, hostVars

LEMMA PumpTyped == ASSUME PumpTypeOK, PumpStep PROVE PumpTypeOK'
<1>0. /\ FeedTypeOK /\ Kinds \subseteq Facts /\ "checkpoint" \in Facts /\ "quota" \in Facts
      /\ live \in Entry
    BY DEF PumpTypeOK, FeedTypeOK, Facts
<1>1. ASSUME TakeStream \/ PumpEnds PROVE PumpTypeOK'
  BY <1>1 DEF TakeStream, PumpEnds, PumpTypeOK, FeedTypeOK, hostVars, adapterVars
<1>2. CASE Skip BY <1>2 DEF Skip, PumpTypeOK, FeedTypeOK, hostVars
<1>3. CASE Drain
  <2>1. Head(stream) \in Kinds /\ stream' \in Seq(Kinds) BY <1>3 DEF Drain, PumpTypeOK, FeedTypeOK
  <2>2. log' \in Seq(Facts) /\ chan' \in [Consumers -> Seq(Nat)]
      BY <1>0, <1>3, <2>1, WriteTyped DEF Drain
  <2>3. live' \in Entry
    <3>1. CASE Head(stream) = "closed"
      <4>1. live.in BY <1>3, <3>1 DEF Drain, Skipped
      <4>2. live \in [in : {TRUE}, closed : BOOLEAN, subs : SUBSET Consumers]
          BY <1>0, <4>1, EntryShape
      <4>3. QED BY <1>3, <3>1, <4>2 DEF Drain, Entry
    <3>2. CASE Head(stream) # "closed" BY <1>0, <1>3, <3>2 DEF Drain
    <3>3. QED BY <3>1, <3>2
  <2>4. pump' \in {"none", "spawned", "draining", "checkpoint", "quota", "done"} BY <1>3 DEF Drain
  <2>5. QED BY <1>3, <2>1, <2>2, <2>3, <2>4 DEF Drain, PumpTypeOK, FeedTypeOK, Entry
<1>4. CASE PostRunCheckpoint
  <2>1. log' \in Seq(Facts) /\ chan' \in [Consumers -> Seq(Nat)]
      BY <1>0, <1>4, WriteTyped DEF PostRunCheckpoint
  <2>2. QED BY <1>4, <2>1 DEF PostRunCheckpoint, PumpTypeOK, FeedTypeOK, adapterVars
<1>5. CASE PostRunQuota
  <2>1. log' \in Seq(Facts) /\ chan' \in [Consumers -> Seq(Nat)]
      BY <1>0, <1>5, WriteTyped DEF PostRunQuota
  <2>2. QED BY <1>5, <2>1 DEF PostRunQuota, PumpTypeOK, FeedTypeOK, adapterVars
<1>6. QED BY <1>1, <1>2, <1>3, <1>4, <1>5 DEF PumpStep

LEMMA SubscribeTyped == ASSUME PumpTypeOK, NEW c \in Consumers, Subscribe(c) PROVE PumpTypeOK'
<1>0. live \in Entry BY DEF PumpTypeOK, FeedTypeOK
<1>1. live' \in Entry
  <2>1. CASE live.in
    <3>1. live \in [in : {TRUE}, closed : BOOLEAN, subs : SUBSET Consumers]
        BY <1>0, <2>1, EntryShape
    <3>2. QED BY <2>1, <3>1 DEF Subscribe, Entry
  <2>2. CASE ~live.in BY <1>0, <2>2 DEF Subscribe
  <2>3. QED BY <2>1, <2>2
<1>2. PICK from \in 0..Len(log), truncated \in BOOLEAN :
        /\ base' = [base EXCEPT ![c] = IF truncated THEN Len(log) ELSE from]
        /\ chan' = [chan EXCEPT ![c] = IF truncated THEN <<>> ELSE Page(from)]
    BY DEF Subscribe
<1>3. Page(from) \in Seq(Nat) BY DEF Page, PumpTypeOK, FeedTypeOK
<1>4. base' \in [Consumers -> Nat] /\ chan' \in [Consumers -> Seq(Nat)]
    BY <1>2, <1>3 DEF PumpTypeOK, FeedTypeOK
<1>5. QED BY <1>1, <1>4 DEF Subscribe, PumpTypeOK, FeedTypeOK, Entry, pumpVars, adapterVars

LEMMA CloseTyped == ASSUME PumpTypeOK, NEW k \in Closers, CloseBegins(k) \/ CloseStep(k) PROVE PumpTypeOK'
<1>0. FeedTypeOK /\ "closed" \in Facts BY DEF PumpTypeOK, FeedTypeOK, Facts, Kinds
<1>1. CASE CloseBegins(k)
  <2>1. live.closed \in BOOLEAN
    <3>1. CASE live = NotLive BY <3>1 DEF NotLive
    <3>2. CASE live \in [in : {TRUE}, closed : BOOLEAN, subs : SUBSET Consumers] BY <3>2
    <3>3. QED BY <3>1, <3>2 DEF PumpTypeOK, FeedTypeOK, Entry
  <2>2. \E at \in {"stopping", "rejected", "closing"} :
          closer' = [closer EXCEPT ![k] = [at |-> at, saw |-> live.closed]]
      BY <1>1 DEF CloseBegins
  <2>3. closer' \in [Closers -> CloserState]
      BY <2>1, <2>2 DEF PumpTypeOK, FeedTypeOK, CloserState
  <2>4. live' \in Entry BY <1>1, EntryShape DEF CloseBegins
  <2>5. QED BY <1>1, <2>3, <2>4 DEF CloseBegins, PumpTypeOK, FeedTypeOK, pumpVars, adapterVars
<1>2. ASSUME NEW at \in {"joining", "done", "closing", "rejected"},
             closer' = [closer EXCEPT ![k].at = at]
      PROVE  closer' \in [Closers -> CloserState]
  BY <1>2 DEF PumpTypeOK, FeedTypeOK, CloserState
<1>3. CASE CloseStops(k)
  <2>0. closer' \in [Closers -> CloserState] BY <1>2, <1>3 DEF CloseStops
  <2>1. sent' \in Seq(Kinds) /\ stream' \in Seq(Kinds) /\ provider' = "stopped" /\ running' = FALSE
      BY <1>3, StopEmits, EmissionTyped DEF CloseStops
  <2>2. QED BY <1>3, <2>0, <2>1 DEF CloseStops, PumpTypeOK, FeedTypeOK, pumpVars
<1>4. CASE CloseJoins(k)
  <2>0. closer' \in [Closers -> CloserState] BY <1>2, <1>4 DEF CloseJoins
  <2>1. QED BY <1>4, <2>0 DEF CloseJoins, PumpTypeOK, FeedTypeOK, pumpVars, adapterVars
<1>5. CASE CloseRecords(k)
  <2>0. closer' \in [Closers -> CloserState] BY <1>2, <1>5 DEF CloseRecords
  <2>1. log' \in Seq(Facts)
      BY <1>0, <1>5, FactAppended DEF CloseRecords, FeedTypeOK, PumpTypeOK
  <2>2. QED BY <1>5, <2>0, <2>1 DEF CloseRecords, PumpTypeOK, FeedTypeOK, pumpVars, adapterVars
<1>6. QED BY <1>1, <1>3, <1>4, <1>5 DEF CloseStep

LEMMA RestoreTyped ==
    ASSUME PumpTypeOK, NEW x \in Restorers, RestoreBegins(x) \/ RestoreStep(x) PROVE PumpTypeOK'
<1>0. /\ FeedTypeOK /\ "restored" \in Facts /\ restorer[x] \in RestorerState
      /\ restorer[x].seq \in Nat
    BY DEF PumpTypeOK, Facts, RestorerState
<1>1. ASSUME NEW at \in {"allowed", "done"}, restorer' = [restorer EXCEPT ![x].at = at]
      PROVE  restorer' \in [Restorers -> RestorerState]
  BY <1>1 DEF PumpTypeOK, RestorerState
<1>2. CASE RestoreBegins(x)
  <2>0. restorer' \in [Restorers -> RestorerState] BY <1>1, <1>2 DEF RestoreBegins
  <2>1. QED BY <1>2, <2>0 DEF RestoreBegins, PumpTypeOK, FeedTypeOK, pumpVars, adapterVars
<1>3. CASE RestoreRecords(x)
  <2>1. log' \in Seq(Facts)
      BY <1>0, <1>3, FactAppended DEF RestoreRecords, FeedTypeOK
  <2>2. [at |-> "recorded", seq |-> Len(log) + 1] \in RestorerState
      BY <1>0 DEF RestorerState, FeedTypeOK
  <2>3. restorer' \in [Restorers -> RestorerState]
      BY <1>1, <1>3, <2>2 DEF RestoreRecords, PumpTypeOK
  <2>4. QED BY <1>3, <2>1, <2>3 DEF RestoreRecords, PumpTypeOK, FeedTypeOK, pumpVars, adapterVars
<1>4. CASE RestoreTells(x)
  <2>0. restorer' \in [Restorers -> RestorerState] BY <1>1, <1>4 DEF RestoreTells
  <2>1. chan' \in [Consumers -> Seq(Nat)]
      BY <1>0, <1>4 DEF RestoreTells, Broadcast, PumpTypeOK, FeedTypeOK
  <2>2. QED BY <1>4, <2>0, <2>1 DEF RestoreTells, PumpTypeOK, FeedTypeOK, pumpVars, adapterVars
<1>5. QED BY <1>2, <1>3, <1>4 DEF RestoreStep

LEMMA TypeStep == PumpTypeOK /\ [Next]_vars => PumpTypeOK'
<1> SUFFICES ASSUME PumpTypeOK, [Next]_vars PROVE PumpTypeOK' OBVIOUS
<1>1. CASE UNCHANGED vars BY <1>1 DEF vars, adapterVars, hostVars, pumpVars, PumpTypeOK, FeedTypeOK
<1>2. CASE Next
  BY <1>2, CreateTyped, AdapterTyped, PumpTyped, SubscribeTyped, CloseTyped, RestoreTyped DEF Next
<1>3. QED BY <1>1, <1>2

LEMMA TypeInit == Init => PumpTypeOK
<1> SUFFICES ASSUME Init PROVE PumpTypeOK OBVIOUS
<1>1. log \in Seq(Facts)
  <2>1. <<"created", "working", "interrupted">> \in Seq(Facts) /\ <<>> \in Seq(Facts)
      BY DEF Facts, Kinds
  <2>2. QED BY <2>1 DEF Init
<1>2. closer \in [Closers -> CloserState] /\ restorer \in [Restorers -> RestorerState]
    BY DEF Init, CloserState, RestorerState
<1>3. <<>> \in Seq(Kinds) /\ chan \in [Consumers -> Seq(Nat)] /\ base \in [Consumers -> Nat]
    BY DEF Init
<1>4. QED BY <1>1, <1>2, <1>3, EntryShape DEF Init, PumpTypeOK, FeedTypeOK

-----------------------------------------------------------------------------
(* What the adapter said of its runs reaches the log whole and in order.    *)
(* The map from the log's run facts to those taken from the stream grows by *)
(* one pair when the pump drains such a fact, and by nothing else.          *)

RunWords == {"note", "completed"}

(* Writes of other facts, by whichever thread.                              *)
Aside == UNCHANGED log \/ \E f \in Facts \ RunWords : Recorded(f)

LEMMA AsideKeepsRuns ==
    ASSUME PumpTypeOK, Aside
    PROVE  /\ log' \in Seq(Facts) /\ Len(log) <= Len(log')
           /\ \A i \in 1..Len(log) : log'[i] = log[i]
           /\ RunAt(log', Len(log')) = RunAt(log, Len(log))
<1>1. log \in Seq(Facts) BY DEF PumpTypeOK, FeedTypeOK
<1>2. CASE UNCHANGED log BY <1>1, <1>2
<1>3. ASSUME NEW f \in Facts \ RunWords, Recorded(f)
      PROVE  /\ log' \in Seq(Facts) /\ Len(log') = Len(log) + 1
             /\ \A i \in 1..Len(log) : log'[i] = log[i]
             /\ log'[Len(log) + 1] \notin RunWords
  BY <1>1, <1>3 DEF Recorded
<1>4. ASSUME NEW f \in Facts \ RunWords, Recorded(f)
      PROVE  RunAt(log', Len(log')) = RunAt(log, Len(log))
  <2>1. 1..Len(log') = 1..Len(log) \cup {Len(log) + 1} BY <1>1, <1>3, <1>4
  <2>2. QED BY <1>1, <1>3, <1>4, <2>1 DEF RunAt, RunWords
<1>5. QED BY <1>1, <1>2, <1>3, <1>4 DEF Aside

LEMMA OrderKept ==
    ASSUME PumpTypeOK, DrainedInOrder, Aside,
           sent' \in Seq(Kinds), stream' \in Seq(Kinds),
           Len(stream') <= Len(sent'), \A i \in DOMAIN stream' : stream'[i] = sent'[Taken' + i],
           RunAt(sent', Taken') = RunAt(sent, Taken),
           \A i \in 1..Taken : sent'[i] = sent[i]
    PROVE  DrainedInOrder'
<1>1. /\ RunAt(log', Len(log')) = RunAt(log, Len(log))
      /\ \A i \in 1..Len(log) : log'[i] = log[i]
    BY AsideKeepsRuns
<1>2. PICK at \in [RunAt(log, Len(log)) -> RunAt(sent, Taken)] :
        /\ \A i \in RunAt(log, Len(log)) : log[i] = sent[at[i]]
        /\ \A i, j \in RunAt(log, Len(log)) : i < j => at[i] < at[j]
        /\ \A n \in RunAt(sent, Taken) : \E i \in RunAt(log, Len(log)) : at[i] = n
    BY DEF DrainedInOrder
<1>3. \A i \in RunAt(log, Len(log)) : i \in 1..Len(log) /\ at[i] \in 1..Taken
    BY <1>2 DEF RunAt
<1>4. \A i \in RunAt(log, Len(log)) : log'[i] = sent'[at[i]] BY <1>1, <1>2, <1>3
<1>5. at \in [RunAt(log', Len(log')) -> RunAt(sent', Taken')] BY <1>1, <1>2
<1>6. QED BY <1>1, <1>2, <1>4, <1>5 DEF DrainedInOrder

LEMMA EmissionInOrder ==
    ASSUME PumpTypeOK, DrainedInOrder, Aside, NEW last, Emission(last)
    PROVE  DrainedInOrder' /\ Taken' = Taken
<1>1. /\ sent \in Seq(Kinds) /\ stream \in Seq(Kinds)
      /\ Len(stream) <= Len(sent) /\ \A i \in DOMAIN stream : stream[i] = sent[Taken + i]
    BY DEF PumpTypeOK, FeedTypeOK, DrainedInOrder
<1>2. /\ sent' \in Seq(Kinds) /\ stream' \in Seq(Kinds) /\ last \in Seq(Kinds)
      /\ Len(sent') = Len(sent) + Len(last) /\ Len(stream') = Len(stream) + Len(last)
      /\ \A i \in 1..Len(sent) : sent'[i] = sent[i]
      /\ \A i \in 1..Len(stream) : stream'[i] = stream[i]
      /\ \A i \in 1..Len(last) : /\ sent'[Len(sent) + i] = last[i]
                                 /\ stream'[Len(stream) + i] = last[i]
    BY EmissionTyped DEF Emission
<1>3. Taken \in 0..Len(sent) /\ Taken' = Taken BY <1>1, <1>2 DEF Taken
<1>4. \A i \in DOMAIN stream' : stream'[i] = sent'[Taken' + i]
  <2> SUFFICES ASSUME NEW i \in 1..Len(stream') PROVE stream'[i] = sent'[Taken + i]
      BY <1>2, <1>3
  <2>1. CASE i <= Len(stream)
    <3>1. Taken + i \in 1..Len(sent) BY <1>1, <2>1 DEF Taken
    <3>2. i \in DOMAIN stream /\ i \in 1..Len(stream) BY <1>1, <2>1
    <3>3. stream'[i] = stream[i] /\ stream[i] = sent[Taken + i] BY <1>1, <1>2, <3>2
    <3>4. sent'[Taken + i] = sent[Taken + i] BY <1>2, <3>1
    <3>5. QED BY <3>3, <3>4
  <2>2. CASE i > Len(stream)
    <3>1. i - Len(stream) \in 1..Len(last) BY <1>1, <1>2, <2>2
    <3>2. Taken + i = Len(sent) + (i - Len(stream)) BY <1>1 DEF Taken
    <3>3. i = Len(stream) + (i - Len(stream)) BY <1>1
    <3>4. QED BY <1>2, <3>1, <3>2, <3>3
  <2>3. QED BY <1>1, <2>1, <2>2
<1>5. RunAt(sent', Taken') = RunAt(sent, Taken) BY <1>1, <1>2, <1>3 DEF RunAt
<1>6. Len(stream') <= Len(sent') BY <1>1, <1>2
<1>7. \A i \in 1..Taken : sent'[i] = sent[i] BY <1>1, <1>2, <1>3
<1>8. DrainedInOrder' BY <1>2, <1>4, <1>5, <1>6, <1>7, OrderKept
<1>9. QED BY <1>3, <1>8

LEMMA AsideInOrder ==
    ASSUME PumpTypeOK, DrainedInOrder, Aside, UNCHANGED <<sent, stream>>
    PROVE  DrainedInOrder' /\ Taken' = Taken
<1>1. /\ sent \in Seq(Kinds) /\ stream \in Seq(Kinds)
      /\ Len(stream) <= Len(sent) /\ \A i \in DOMAIN stream : stream[i] = sent[Taken + i]
    BY DEF PumpTypeOK, FeedTypeOK, DrainedInOrder
<1>2. Taken' = Taken BY DEF Taken
<1>3. DrainedInOrder' BY <1>1, <1>2, OrderKept
<1>4. QED BY <1>2, <1>3

LEMMA Head1 ==
    ASSUME PumpTypeOK, DrainedInOrder, stream # <<>>
    PROVE  /\ Taken + 1 \in 1..Len(sent) /\ Taken \in Nat
           /\ Head(stream) = sent[Taken + 1] /\ Head(stream) \in Kinds
           /\ Tail(stream) \in Seq(Kinds) /\ Len(Tail(stream)) = Len(stream) - 1
           /\ \A i \in 1..Len(Tail(stream)) : Tail(stream)[i] = sent[Taken + 1 + i]
<1>1. /\ sent \in Seq(Kinds) /\ stream \in Seq(Kinds)
      /\ Len(stream) <= Len(sent) /\ \A i \in DOMAIN stream : stream[i] = sent[Taken + i]
    BY DEF PumpTypeOK, FeedTypeOK, DrainedInOrder
<1>2. /\ Len(stream) \in Nat \ {0} /\ Head(stream) = stream[1] /\ Head(stream) \in Kinds
      /\ Tail(stream) \in Seq(Kinds) /\ Len(Tail(stream)) = Len(stream) - 1
      /\ \A i \in 1..Len(Tail(stream)) : Tail(stream)[i] = stream[i + 1]
    BY <1>1
<1>3. Taken + 1 \in 1..Len(sent) /\ Taken \in Nat BY <1>1, <1>2 DEF Taken
<1>4. \A i \in 1..Len(Tail(stream)) : Tail(stream)[i] = sent[Taken + 1 + i]
  <2> TAKE i \in 1..Len(Tail(stream))
  <2>1. i + 1 \in DOMAIN stream BY <1>1, <1>2
  <2>2. Taken + (i + 1) = Taken + 1 + i BY <1>3
  <2>3. QED BY <1>1, <1>2, <2>1, <2>2
<1>5. QED BY <1>1, <1>2, <1>3, <1>4

LEMMA TakeInOrder ==
    ASSUME PumpTypeOK, DrainedInOrder, stream # <<>>, stream' = Tail(stream), UNCHANGED sent,
           \/ Head(stream) \notin RunWords /\ Aside
           \/ Recorded(Head(stream))
    PROVE  DrainedInOrder' /\ Taken' = Taken + 1
<1>0. /\ log \in Seq(Facts) /\ sent \in Seq(Kinds) /\ stream \in Seq(Kinds)
      /\ Len(stream) <= Len(sent)
    BY DEF PumpTypeOK, FeedTypeOK, DrainedInOrder
<1>1. /\ Taken + 1 \in 1..Len(sent) /\ Taken \in Nat
      /\ Head(stream) = sent[Taken + 1] /\ Head(stream) \in Kinds
      /\ stream' \in Seq(Kinds) /\ Len(stream') = Len(stream) - 1
      /\ \A i \in 1..Len(stream') : stream'[i] = sent[Taken + 1 + i]
    BY Head1
<1>2. Taken' = Taken + 1 /\ Len(stream') <= Len(sent') BY <1>0, <1>1 DEF Taken
<1>3. \A i \in DOMAIN stream' : stream'[i] = sent'[Taken' + i] BY <1>1, <1>2
<1>4. 1..Taken' = 1..Taken \cup {Taken + 1} BY <1>1, <1>2
<1>5. CASE Head(stream) \notin RunWords /\ Aside
  <2>1. RunAt(sent', Taken') = RunAt(sent, Taken) BY <1>1, <1>4, <1>5 DEF RunAt, RunWords
  <2>2. \A i \in 1..Taken : sent'[i] = sent[i] OBVIOUS
  <2>3. DrainedInOrder' BY <1>0, <1>1, <1>2, <1>3, <1>5, <2>1, <2>2, OrderKept
  <2>4. QED BY <1>2, <2>3
<1>6. CASE Recorded(Head(stream)) /\ Head(stream) \notin RunWords
  <2>1. Head(stream) \in Facts BY <1>1 DEF Facts
  <2>2. Aside BY <1>6, <2>1 DEF Aside
  <2>3. QED BY <1>5, <1>6, <2>2
<1>7. CASE Recorded(Head(stream)) /\ Head(stream) \in RunWords
  <2>1. /\ Len(log') = Len(log) + 1 /\ \A i \in 1..Len(log) : log'[i] = log[i]
        /\ log'[Len(log) + 1] = Head(stream) /\ Len(log) \in Nat
      BY <1>0, <1>7 DEF Recorded
  <2>2. 1..Len(log') = 1..Len(log) \cup {Len(log) + 1} BY <2>1
  <2>3. RunAt(log', Len(log')) = RunAt(log, Len(log)) \cup {Len(log) + 1}
      BY <1>7, <2>1, <2>2 DEF RunAt, RunWords
  <2>4. RunAt(sent', Taken') = RunAt(sent, Taken) \cup {Taken + 1}
      BY <1>1, <1>4, <1>7 DEF RunAt, RunWords
  <2>5. PICK at \in [RunAt(log, Len(log)) -> RunAt(sent, Taken)] :
          /\ \A i \in RunAt(log, Len(log)) : log[i] = sent[at[i]]
          /\ \A i, j \in RunAt(log, Len(log)) : i < j => at[i] < at[j]
          /\ \A n \in RunAt(sent, Taken) : \E i \in RunAt(log, Len(log)) : at[i] = n
      BY DEF DrainedInOrder
  <2>6. DEFINE more == [i \in RunAt(log', Len(log')) |->
                          IF i = Len(log) + 1 THEN Taken + 1 ELSE at[i]]
  <2>7. RunAt(log, Len(log)) \subseteq 1..Len(log) /\ RunAt(sent, Taken) \subseteq 1..Taken
      BY DEF RunAt
  <2>8. /\ more \in [RunAt(log', Len(log')) -> RunAt(sent', Taken')]
        /\ more[Len(log) + 1] = Taken + 1
        /\ \A i \in RunAt(log, Len(log)) : more[i] = at[i]
      BY <2>1, <2>3, <2>4, <2>5, <2>7
  <2> HIDE DEF more
  <2>9. \A i \in RunAt(log', Len(log')) : log'[i] = sent'[more[i]]
      BY <1>1, <2>1, <2>3, <2>5, <2>7, <2>8
  <2>10. \A i, j \in RunAt(log', Len(log')) : i < j => more[i] < more[j]
      BY <1>1, <2>1, <2>3, <2>5, <2>7, <2>8
  <2>11. \A n \in RunAt(sent', Taken') : \E i \in RunAt(log', Len(log')) : more[i] = n
      BY <2>3, <2>4, <2>5, <2>8
  <2>12. DrainedInOrder' BY <1>2, <1>3, <2>8, <2>9, <2>10, <2>11 DEF DrainedInOrder
  <2>13. QED BY <1>2, <2>12
<1>8. QED BY <1>5, <1>6, <1>7

-----------------------------------------------------------------------------
(* Whatever the hosts do, as long as the store works: the run facts arrive, *)
(* and a resumed session is not called idle before a run of it ended.       *)

(* A session lives, and is stopped by a host, after its create only.        *)
Startup ==
    /\ creator = "new" => provider = "off"
    /\ running => provider = "on"
    /\ provider = "off" => creator \in {"new", "failed"} /\ pump = "none"
    /\ creator \in {"new", "started", "recorded", "appended", "failed"} => pump = "none"
    /\ live.in => creator = "serving"
    /\ \A k \in Closers : closer[k].at = "stopping" => creator = "serving"

(* The adapter's first two words are its prelude; another idle follows the  *)
(* end of a run.                                                            *)
IdleFollowsRun ==
    /\ provider = "off" => Len(sent) = 0
    /\ provider # "off" => Len(sent) >= 2 /\ sent[1] = "created" /\ sent[2] = "idle"
    /\ \A i \in 1..Len(sent) : sent[i] = "idle" =>
           i = 2 \/ (i > 2 /\ sent[i - 1] = "completed")

(* skip_startup_idle lasts until the prelude is taken.                      *)
PreludeSkipped ==
    /\ pump \in {"none", "spawned"} => Taken = 0
    /\ resumed /\ pump # "none" => (skipIdle <=> Taken < 2)

Drained ==
    /\ PumpTypeOK /\ Startup /\ IdleFollowsRun /\ PreludeSkipped
    /\ DrainedInOrder /\ ContinuationStands

LEMMA ContinuationKept ==
    ASSUME PumpTypeOK, ContinuationStands, UNCHANGED resumed,
           UNCHANGED log \/ \E f \in Facts \ {"idle"} : Recorded(f)
    PROVE  ContinuationStands'
<1>1. log \in Seq(Facts) BY DEF PumpTypeOK, FeedTypeOK
<1>2. CASE UNCHANGED log BY <1>2 DEF ContinuationStands
<1>3. ASSUME NEW f \in Facts \ {"idle"}, Recorded(f) PROVE ContinuationStands'
  <2>1. /\ Len(log') = Len(log) + 1 /\ \A i \in 1..Len(log) : log'[i] = log[i]
        /\ log'[Len(log) + 1] # "idle" /\ DOMAIN log = 1..Len(log) /\ DOMAIN log' = 1..Len(log')
      BY <1>1, <1>3 DEF Recorded
  <2>2. QED BY <1>1, <2>1 DEF ContinuationStands
<1>4. QED BY <1>2, <1>3

LEMMA EmissionFollowsRun ==
    ASSUME PumpTypeOK, IdleFollowsRun, provider # "off", provider' # "off",
           NEW last, Emission(last)
    PROVE  IdleFollowsRun'
<1>1. /\ sent \in Seq(Kinds) /\ sent' \in Seq(Kinds) /\ last \in Seq(Kinds)
      /\ Len(sent') = Len(sent) + Len(last)
      /\ \A i \in 1..Len(sent) : sent'[i] = sent[i]
      /\ \A i \in 1..Len(last) : sent'[Len(sent) + i] = last[i]
    BY EmissionTyped DEF PumpTypeOK, Emission
<1>2. \A i \in 1..Len(last) : last[i] = "idle" => i > 1 /\ last[i - 1] = "completed"
    BY DEF Emission
<1>3. ASSUME NEW i \in 1..Len(sent'), sent'[i] = "idle"
      PROVE  i = 2 \/ (i > 2 /\ sent'[i - 1] = "completed")
  <2>1. CASE i <= Len(sent)
    <3>1. i \in 1..Len(sent) /\ sent[i] = "idle" BY <1>1, <1>3, <2>1
    <3>2. i = 2 \/ (i > 2 /\ sent[i - 1] = "completed") BY <3>1 DEF IdleFollowsRun
    <3>3. i > 2 => i - 1 \in 1..Len(sent) BY <1>1, <3>1
    <3>4. QED BY <1>1, <3>2, <3>3
  <2>2. CASE i > Len(sent)
    <3>1. PICK n \in 1..Len(last) : i = Len(sent) + n
      <4>1. i - Len(sent) \in 1..Len(last) /\ i = Len(sent) + (i - Len(sent)) BY <1>1, <2>2
      <4>2. QED BY <4>1
    <3>2. n > 1 /\ last[n - 1] = "completed" BY <1>1, <1>2, <1>3, <3>1
    <3>3. i - 1 = Len(sent) + (n - 1) /\ n - 1 \in 1..Len(last) BY <1>1, <3>1, <3>2
    <3>4. sent'[i - 1] = "completed" BY <1>1, <3>2, <3>3
    <3>5. QED BY <1>1, <3>1, <3>2, <3>4 DEF IdleFollowsRun
  <2>3. QED BY <1>1, <2>1, <2>2
<1>4. QED BY <1>1, <1>3 DEF IdleFollowsRun

LEMMA CreateDrains == ASSUME Drained, CreateStep PROVE Drained'
<1> USE DEF Drained
<1>0. PumpTypeOK' BY CreateTyped
<1>1. CASE StartAdapter
  <2>1. CASE UNCHANGED <<provider, sent, stream>>
    <3>1. DrainedInOrder' /\ Taken' = Taken
        BY <1>1, <2>1, AsideInOrder DEF StartAdapter, Aside
    <3>2. ContinuationStands' BY <1>1, ContinuationKept DEF StartAdapter
    <3>3. QED BY <1>0, <1>1, <2>1, <3>1, <3>2
              DEF StartAdapter, Startup, IdleFollowsRun, PreludeSkipped, pumpVars, hostVars
  <2>2. CASE provider' = "on" /\ sent' = <<"created", "idle">> /\ stream' = sent'
    <3>1. ContinuationStands' BY <1>1, ContinuationKept DEF StartAdapter
    <3>2. sent = <<>> /\ stream = <<>> /\ Len(sent) = 0 /\ pump = "none"
        BY <1>1 DEF StartAdapter, Startup, IdleFollowsRun, DrainedInOrder, PumpTypeOK, FeedTypeOK
    <3>3. Len(sent') = 2 /\ Taken' = 0 /\ Taken = 0 /\ sent'[1] = "created" /\ sent'[2] = "idle"
        BY <2>2, <3>2 DEF Taken
    <3>4. RunAt(sent', Taken') = RunAt(sent, Taken) BY <3>3 DEF RunAt
    <3>5. \A i \in DOMAIN stream' : stream'[i] = sent'[Taken' + i] BY <2>2, <3>3
    <3>6. DrainedInOrder'
      <4>1. sent' \in Seq(Kinds) /\ stream' \in Seq(Kinds) BY <2>2, Words
      <4>2. Aside BY <1>1 DEF StartAdapter, Aside
      <4>3. QED BY <2>2, <3>3, <3>4, <3>5, <4>1, <4>2, OrderKept
    <3>7. IdleFollowsRun' BY <2>2, <3>3 DEF IdleFollowsRun
    <3>8. QED BY <1>0, <1>1, <2>2, <3>1, <3>2, <3>3, <3>6, <3>7
              DEF StartAdapter, Startup, PreludeSkipped, pumpVars, hostVars
  <2>3. QED BY <1>1, <2>1, <2>2 DEF StartAdapter
<1>2. ASSUME UNCHANGED <<resumed, live, hostVars, pumpVars>>,
             creator \in {"started", "recorded", "appended"}, creator' = "failed",
             Stop, UNCHANGED log \/ Recorded("interrupted")
      PROVE  Drained'
  <2>1. provider # "off" /\ provider' = "stopped" /\ running' = FALSE BY <1>2, StopEmits DEF Startup
  <2>2. PICK last : Emission(last) BY <1>2, StopEmits
  <2>3. Aside /\ ContinuationStands'
    <3>1. "interrupted" \in Facts \ RunWords /\ "interrupted" # "idle"
        BY DEF Facts, Kinds, RunWords
    <3>2. Aside BY <1>2, <3>1 DEF Aside
    <3>3. QED BY <1>2, <3>1, <3>2, ContinuationKept
  <2>4. DrainedInOrder' /\ Taken' = Taken BY <2>2, <2>3, EmissionInOrder
  <2>5. IdleFollowsRun' BY <2>1, <2>2, EmissionFollowsRun
  <2>6. QED BY <1>0, <1>2, <2>1, <2>3, <2>4, <2>5 DEF Startup, PreludeSkipped, pumpVars, hostVars
<1>3. ASSUME UNCHANGED <<resumed, live, hostVars, pumpVars, adapterVars>>,
             creator \in {"started", "recorded"}, creator' \in {"recorded", "appended"},
             UNCHANGED log \/ Recorded("working") \/ Recorded("created")
      PROVE  Drained'
  <2>1. /\ "working" \in Facts \ RunWords /\ "working" # "idle"
        /\ "created" \in Facts \ RunWords /\ "created" # "idle"
      BY DEF Facts, Kinds, RunWords
  <2>2. Aside BY <1>3, <2>1 DEF Aside
  <2>3. ContinuationStands' BY <1>3, <2>1, ContinuationKept
  <2>4. DrainedInOrder' /\ Taken' = Taken BY <1>3, <2>2, AsideInOrder DEF adapterVars
  <2>5. QED BY <1>0, <1>3, <2>3, <2>4
            DEF Startup, IdleFollowsRun, PreludeSkipped, pumpVars, hostVars, adapterVars
<1>4. CASE RecordRow BY <1>2, <1>3, <1>4 DEF RecordRow
<1>5. CASE AppendFirst BY <1>2, <1>3, <1>5 DEF AppendFirst
<1>6. CASE SpawnPump
  <2>1. CASE Stop /\ creator' = "failed" /\ UNCHANGED pumpVars
    BY <1>2, <1>6, <2>1 DEF SpawnPump
  <2>2. CASE pump' = "spawned" /\ skipIdle' = resumed /\ creator' = "spawned"
             /\ UNCHANGED <<adapterVars, log>>
    <3>1. DrainedInOrder' /\ Taken' = Taken BY <2>2, AsideInOrder DEF Aside, adapterVars
    <3>2. ContinuationStands' BY <1>6, <2>2, ContinuationKept DEF SpawnPump
    <3>3. Taken = 0 BY <1>6 DEF SpawnPump, Startup, PreludeSkipped
    <3>4. QED BY <1>0, <1>6, <2>2, <3>1, <3>2, <3>3
              DEF SpawnPump, Startup, IdleFollowsRun, PreludeSkipped, hostVars, adapterVars, PumpTypeOK
  <2>3. QED BY <1>6, <2>1, <2>2 DEF SpawnPump
<1>7. CASE InsertLive
  <2>1. DrainedInOrder' /\ Taken' = Taken BY <1>7, AsideInOrder DEF InsertLive, Aside, adapterVars
  <2>2. ContinuationStands' BY <1>7, ContinuationKept DEF InsertLive
  <2>3. QED BY <1>0, <1>7, <2>1, <2>2
            DEF InsertLive, Startup, IdleFollowsRun, PreludeSkipped, hostVars, adapterVars, pumpVars
<1>8. QED BY <1>1, <1>4, <1>5, <1>6, <1>7 DEF CreateStep

LEMMA AdapterDrains ==
    ASSUME Drained, RunStarts \/ RunNotes \/ RunEnds \/ ProviderDies
    PROVE  Drained'
<1> USE DEF Drained
<1>0. PumpTypeOK' BY AdapterTyped
<1>1. PICK last : Emission(last) BY RunEmits
<1>2. UNCHANGED <<resumed, creator, pumpVars, log, live, hostVars>>
    BY DEF RunStarts, RunNotes, RunEnds, ProviderDies
<1>3. DrainedInOrder' /\ Taken' = Taken BY <1>1, <1>2, EmissionInOrder DEF Aside
<1>4. provider # "off" /\ provider' # "off" /\ (running' => provider' = "on")
    BY DEF RunStarts, RunNotes, RunEnds, ProviderDies, Startup
<1>5. IdleFollowsRun' BY <1>1, <1>4, EmissionFollowsRun
<1>6. ContinuationStands' BY <1>2, ContinuationKept
<1>7. QED BY <1>0, <1>2, <1>3, <1>4, <1>5, <1>6 DEF Startup, PreludeSkipped, pumpVars, hostVars

LEMMA PumpDrains == ASSUME ~StoreFails, Drained, PumpStep PROVE Drained'
<1> USE DEF Drained
<1>0. PumpTypeOK' BY PumpTyped
<1>1. ASSUME TakeStream \/ PumpEnds PROVE Drained'
  <2>1. UNCHANGED <<resumed, creator, adapterVars, skipIdle, log, live, hostVars>>
      BY <1>1 DEF TakeStream, PumpEnds
  <2>2. DrainedInOrder' /\ Taken' = Taken BY <2>1, AsideInOrder DEF Aside, adapterVars
  <2>3. ContinuationStands' BY <2>1, ContinuationKept
  <2>4. pump # "none" /\ pump' \in {"draining", "done"} BY <1>1 DEF TakeStream, PumpEnds
  <2>5. QED BY <1>0, <2>1, <2>2, <2>3, <2>4
            DEF Startup, IdleFollowsRun, PreludeSkipped, adapterVars, hostVars
<1>2. CASE Skip
  <2>1. stream # <<>> /\ stream' = Tail(stream) /\ UNCHANGED sent /\ pump = "draining"
        /\ UNCHANGED <<resumed, creator, provider, pump, log, live, hostVars>>
      BY <1>2 DEF Skip
  <2>2. Head(stream) \in {"created", "idle", "closed"} BY <1>2 DEF Skip, Skipped
  <2>3. Head(stream) \notin RunWords /\ Aside BY <2>1, <2>2 DEF RunWords, Aside
  <2>4. DrainedInOrder' /\ Taken' = Taken + 1 BY <2>1, <2>3, TakeInOrder
  <2>5. ContinuationStands' BY <2>1, ContinuationKept
  <2>6. PreludeSkipped'
    <3>1. Taken + 1 \in 1..Len(sent) /\ Taken \in Nat /\ Head(stream) = sent[Taken + 1]
        BY <2>1, Head1
    <3>2. skipIdle' <=> (skipIdle /\ Head(stream) # "idle") BY <1>2 DEF Skip
    <3>3. ASSUME resumed PROVE skipIdle' <=> Taken' < 2
      <4>1. skipIdle <=> Taken < 2 BY <2>1, <3>3 DEF PreludeSkipped
      <4>2. sent[1] # "idle" /\ sent[2] = "idle"
        <5>1. provider # "off" BY <2>1 DEF Startup
        <5>2. QED BY <5>1 DEF IdleFollowsRun
      <4>3. QED BY <2>4, <3>1, <3>2, <4>1, <4>2
    <3>4. QED BY <2>1, <3>3 DEF PreludeSkipped
  <2>7. running' = running BY <1>2 DEF Skip
  <2>8. QED BY <1>0, <2>1, <2>4, <2>5, <2>6, <2>7 DEF Startup, IdleFollowsRun, hostVars
<1>3. CASE Drain
  <2>1. /\ stream # <<>> /\ stream' = Tail(stream) /\ skipIdle' = FALSE /\ pump = "draining"
        /\ UNCHANGED <<resumed, creator, provider, running, sent, closer>>
        /\ Recorded(Head(stream)) /\ pump' \in {"draining", "quota", "checkpoint"}
        /\ Head(stream) # "created" /\ ~(Head(stream) = "idle" /\ skipIdle)
      BY <1>3 DEF Drain, Skipped, RecordAndBroadcast
  <2>2. DrainedInOrder' /\ Taken' = Taken + 1 BY <2>1, TakeInOrder
  <2>3. /\ Taken + 1 \in 1..Len(sent) /\ Taken \in Nat /\ Head(stream) = sent[Taken + 1]
        /\ Head(stream) \in Facts
      BY <2>1, Head1 DEF Facts
  <2>4. provider # "off" BY <2>1 DEF Startup
  <2>5. sent[1] = "created" /\ sent[2] = "idle" BY <2>4 DEF IdleFollowsRun
  <2>6. resumed => Taken >= 2
    <3>1. resumed => (skipIdle <=> Taken < 2) BY <2>1 DEF PreludeSkipped
    <3>2. QED BY <2>1, <2>3, <2>5, <3>1
  <2>7. PreludeSkipped' BY <2>1, <2>2, <2>3, <2>6 DEF PreludeSkipped
  <2>8. ContinuationStands'
    <3>1. CASE Head(stream) # "idle" BY <2>1, <2>3, <3>1, ContinuationKept
    <3>2. CASE Head(stream) = "idle" /\ resumed
      <4>1. sent[Taken] = "completed" /\ Taken \in 1..Taken BY <2>3, <2>6, <3>2 DEF IdleFollowsRun
      <4>2. Taken \in RunAt(sent, Taken) BY <4>1 DEF RunAt
      <4>3. \E i \in RunAt(log, Len(log)) : log[i] = "completed" BY <4>1, <4>2 DEF DrainedInOrder
      <4>4. PICK c \in 1..Len(log) : log[c] = "completed" BY <4>3 DEF RunAt
      <4>5. /\ Len(log') = Len(log) + 1 /\ \A i \in 1..Len(log) : log'[i] = log[i]
            /\ DOMAIN log = 1..Len(log) /\ DOMAIN log' = 1..Len(log') /\ Len(log) \in Nat
          BY <2>1, <2>3 DEF Recorded, PumpTypeOK, FeedTypeOK
      <4>6. QED BY <4>4, <4>5, <2>1, <3>2 DEF ContinuationStands
    <3>3. CASE ~resumed BY <2>1, <3>3 DEF ContinuationStands
    <3>4. QED BY <3>1, <3>2, <3>3
  <2>9. live'.in => live.in
    <3>1. Head(stream) = "closed" => live.in BY <1>3 DEF Drain, Skipped
    <3>2. Head(stream) # "closed" => live' = live BY <1>3 DEF Drain
    <3>3. QED BY <3>1, <3>2
  <2>10. QED BY <1>0, <2>1, <2>2, <2>7, <2>8, <2>9 DEF Startup, IdleFollowsRun
<1>4. ASSUME PostRunCheckpoint \/ PostRunQuota PROVE Drained'
  <2>1. /\ UNCHANGED <<resumed, creator, adapterVars, skipIdle, live, closer>>
        /\ pump \in {"checkpoint", "quota"} /\ pump' \in {"quota", "draining"}
      BY <1>4 DEF PostRunCheckpoint, PostRunQuota
  <2>2. UNCHANGED log \/ Recorded("checkpoint") \/ Recorded("quota")
      BY <1>4 DEF PostRunCheckpoint, PostRunQuota, RecordAndBroadcast
  <2>3. {"checkpoint", "quota"} \subseteq (Facts \ RunWords) \cap (Facts \ {"idle"})
      BY DEF Facts, Kinds, RunWords
  <2>4. DrainedInOrder' /\ Taken' = Taken BY <2>1, <2>2, <2>3, AsideInOrder DEF Aside, adapterVars
  <2>5. ContinuationStands' BY <2>1, <2>2, <2>3, ContinuationKept
  <2>6. QED BY <1>0, <2>1, <2>4, <2>5 DEF Startup, IdleFollowsRun, PreludeSkipped, adapterVars
<1>5. QED BY <1>1, <1>2, <1>3, <1>4 DEF PumpStep

LEMMA HostDrains ==
    ASSUME Drained,
           \/ \E c \in Consumers : Subscribe(c)
           \/ \E k \in Closers : CloseBegins(k) \/ CloseStep(k)
           \/ \E x \in Restorers : RestoreBegins(x) \/ RestoreStep(x)
    PROVE  Drained'
<1> USE DEF Drained
<1>0. PumpTypeOK' BY SubscribeTyped, CloseTyped, RestoreTyped
<1>1. ASSUME UNCHANGED <<resumed, creator, adapterVars, pumpVars>>, live'.in => live.in,
             \A k \in Closers : closer'[k].at = "stopping" => closer[k].at = "stopping" \/ live.in,
             UNCHANGED log \/ Recorded("closed") \/ Recorded("restored")
      PROVE  Drained'
  <2>1. {"closed", "restored"} \subseteq (Facts \ RunWords) \cap (Facts \ {"idle"})
      BY DEF Facts, Kinds, RunWords
  <2>2. DrainedInOrder' /\ Taken' = Taken BY <1>1, <2>1, AsideInOrder DEF Aside, adapterVars
  <2>3. ContinuationStands' BY <1>1, <2>1, ContinuationKept
  <2>4. QED BY <1>0, <1>1, <2>2, <2>3 DEF Startup, IdleFollowsRun, PreludeSkipped, adapterVars, pumpVars
<1>2. ASSUME NEW c \in Consumers, Subscribe(c) PROVE Drained'
  <2>1. live'.in => live.in
    <3>1. CASE ~live.in BY <1>2, <3>1 DEF Subscribe
    <3>2. QED BY <3>1
  <2>2. UNCHANGED <<resumed, creator, adapterVars, pumpVars, log, closer>> BY <1>2 DEF Subscribe
  <2>3. QED BY <1>1, <2>1, <2>2
<1>3. ASSUME NEW x \in Restorers, RestoreBegins(x) \/ RestoreStep(x) PROVE Drained'
  BY <1>1, <1>3 DEF RestoreBegins, RestoreStep, RestoreRecords, RestoreTells
<1>4. ASSUME NEW k \in Closers, CloseBegins(k) \/ CloseStep(k) PROVE Drained'
  <2>1. closer \in [Closers -> CloserState] BY DEF PumpTypeOK, FeedTypeOK
  <2>2. CASE CloseBegins(k)
    <3>1. UNCHANGED <<resumed, creator, adapterVars, pumpVars, log>> /\ live' = NotLive
        BY <2>2 DEF CloseBegins
    <3>2. \A j \in Closers : closer'[j].at = "stopping" => closer[j].at = "stopping" \/ live.in
        BY <2>1, <2>2 DEF CloseBegins
    <3>3. QED BY <1>1, <3>1, <3>2, EntryShape
  <2>3. ASSUME CloseJoins(k) \/ CloseRecords(k) PROVE Drained'
    <3>1. UNCHANGED <<resumed, creator, adapterVars, pumpVars, live>>
          /\ (UNCHANGED log \/ Recorded("closed"))
        BY <2>3 DEF CloseJoins, CloseRecords
    <3>2. \A j \in Closers : closer'[j].at = "stopping" => closer[j].at = "stopping"
        BY <2>1, <2>3 DEF CloseJoins, CloseRecords, CloserState
    <3>3. QED BY <1>1, <3>1, <3>2
  <2>4. CASE CloseStops(k)
    <3>1. /\ UNCHANGED <<resumed, creator, pumpVars, log, live>> /\ Stop
          /\ closer' = [closer EXCEPT ![k].at = "joining"] /\ closer[k].at = "stopping"
        BY <2>4 DEF CloseStops
    <3>2. \A j \in Closers : closer'[j].at = "stopping" => closer[j].at = "stopping"
        BY <2>1, <3>1 DEF CloserState
    <3>3. provider # "off" /\ provider' = "stopped" /\ running' = FALSE
        BY <3>1, StopEmits DEF Startup
    <3>4. PICK last : Emission(last) BY <3>1, StopEmits
    <3>5. DrainedInOrder' /\ Taken' = Taken BY <3>1, <3>4, EmissionInOrder DEF Aside
    <3>6. IdleFollowsRun' BY <3>3, <3>4, EmissionFollowsRun
    <3>7. ContinuationStands' BY <3>1, ContinuationKept
    <3>8. QED BY <1>0, <3>1, <3>2, <3>3, <3>5, <3>6, <3>7 DEF Startup, PreludeSkipped, pumpVars
  <2>5. QED BY <1>4, <2>2, <2>3, <2>4 DEF CloseStep
<1>5. QED BY <1>2, <1>3, <1>4

LEMMA DrainedInit == Init => Drained
<1> SUFFICES ASSUME Init PROVE Drained OBVIOUS
<1>0. PumpTypeOK BY TypeInit
<1>1. /\ sent = <<>> /\ stream = <<>> /\ Len(sent) = 0 /\ Len(stream) = 0 /\ Taken = 0
    BY DEF Init, Taken
<1>2. /\ \A i \in 1..Len(log) : log[i] \in {"created", "working", "interrupted"}
      /\ DOMAIN log = 1..Len(log)
  <2>1. CASE resumed
    <3>1. log = <<"created", "working", "interrupted">> BY <2>1 DEF Init
    <3>2. QED BY <3>1
  <2>2. CASE ~resumed
    <3>1. log = <<>> BY <2>2 DEF Init
    <3>2. QED BY <3>1
  <2>3. QED BY <2>1, <2>2
<1>3. RunAt(sent, Taken) = {} /\ RunAt(log, Len(log)) = {} BY <1>1, <1>2 DEF RunAt
<1>4. DOMAIN stream = {} /\ [i \in {} |-> 0] \in [RunAt(log, Len(log)) -> RunAt(sent, Taken)]
    BY <1>1, <1>3
<1>5. DrainedInOrder
  <2> DEFINE at == [i \in {} |-> 0]
  <2>1. at \in [RunAt(log, Len(log)) -> RunAt(sent, Taken)] BY <1>4
  <2>2. /\ \A i \in RunAt(log, Len(log)) : log[i] = sent[at[i]]
        /\ \A i, j \in RunAt(log, Len(log)) : i < j => at[i] < at[j]
        /\ \A n \in RunAt(sent, Taken) : \E i \in RunAt(log, Len(log)) : at[i] = n
      BY <1>3
  <2>3. Len(stream) <= Len(sent) /\ \A i \in DOMAIN stream : stream[i] = sent[Taken + i]
      BY <1>1, <1>4
  <2>4. QED BY <2>1, <2>2, <2>3 DEF DrainedInOrder
<1>6. ContinuationStands BY <1>2 DEF ContinuationStands
<1>7. ~live.in BY EntryShape DEF Init
<1>8. QED BY <1>0, <1>1, <1>5, <1>6, <1>7
          DEF Drained, Init, Startup, IdleFollowsRun, PreludeSkipped

LEMMA DrainedStep == ASSUME ~StoreFails PROVE Drained /\ [Next]_vars => Drained'
<1> SUFFICES ASSUME Drained, [Next]_vars PROVE Drained' OBVIOUS
<1>1. CASE UNCHANGED vars
  <2>1. PumpTypeOK' BY <1>1, TypeStep DEF Drained
  <2>2. UNCHANGED <<resumed, creator, provider, running, sent, stream, pump, skipIdle, log, live, closer>>
      BY <1>1 DEF vars, adapterVars, pumpVars, hostVars
  <2>3. DrainedInOrder' /\ Taken' = Taken BY <2>2, AsideInOrder DEF Aside, Drained
  <2>4. ContinuationStands' BY <2>2, ContinuationKept DEF Drained
  <2>5. QED BY <2>1, <2>2, <2>3, <2>4 DEF Drained, Startup, IdleFollowsRun, PreludeSkipped
<1>2. CASE Next BY <1>2, CreateDrains, AdapterDrains, PumpDrains, HostDrains DEF Next
<1>3. QED BY <1>1, <1>2

(* While the store works, whoever closes or restores, and when: the log     *)
(* holds what the adapter said of its runs, whole and in order, and calls a *)
(* resumed session idle only after a run of it ended (pump.rs:67).          *)
THEOREM RunFactsArrive ==
    ASSUME ~StoreFails
    PROVE  Spec => [](DrainedInOrder /\ ContinuationStands)
<1>1. Init => Drained BY DrainedInit
<1>2. Drained /\ [Next]_vars => Drained' BY DrainedStep
<1>3. Drained => DrainedInOrder /\ ContinuationStands BY DEF Drained
<1>4. QED BY <1>1, <1>2, <1>3, PTL DEF Spec

-----------------------------------------------------------------------------
(* One host closes, none before its create is answered, none restores: the  *)
(* close is the last fact, and a checkpoint follows the run it belongs to.  *)

OneCloser == Restorers = {} /\ Eager \cap Closers = {} /\ \A j, k \in Closers : j = k

(* Between a completed run and its follow-up nothing of the adapter's is    *)
(* recorded; a continuation has no follow-up checkpoint.                    *)
AfterRun ==
    pump = "checkpoint" =>
        /\ ~resumed
        /\ \E j \in 1..Len(log) : log[j] = "completed"
                                  /\ \A n \in (j + 1)..Len(log) : log[n] \notin Kinds

(* The adapter's close is its last word; a pump that is done, and a create  *)
(* that failed, leave no provider behind.                                   *)
LastWord ==
    /\ \A i \in 1..Len(sent) : sent[i] = "closed" => i = Len(sent) /\ provider # "on"
    /\ pump = "done" => provider = "stopped"
    /\ creator = "failed" => provider # "on"

(* A host that is about to record the close waits for no pump, and a served *)
(* session without an entry was taken by a host.                            *)
Closing ==
    /\ \A k \in Closers : closer[k].at = "closing" => pump \in {"none", "done"}
    /\ creator = "serving" /\ ~live.in => \E k \in Closers : closer[k].at # "idle"
    /\ creator \in {"spawned", "serving"} => pump # "none"

(* Once the close is recorded nobody is left who would record anything.     *)
NothingLeft ==
    /\ creator \in {"serving", "failed"} /\ provider # "on"
    /\ creator = "failed" => \A k \in Closers : closer[k].at # "idle"
    /\ pump \in {"none", "done"} \/ (pump = "draining" /\ stream = <<>>)
    /\ live.in => live.closed
    /\ \A k \in Closers : /\ closer[k].at # "closing"
                          /\ closer[k].at \in {"stopping", "joining"} => closer[k].saw

AfterClose == Has("closed") => NothingLeft

Ends ==
    /\ Drained /\ NobodyAttached /\ AfterRun /\ LastWord /\ Closing /\ AfterClose
    /\ ClosedIsLast /\ CheckpointFollowsRun

EndFacts == ClosedIsLast /\ CheckpointFollowsRun

LEMMA EntryCases ==
    ASSUME PumpTypeOK
    PROVE  /\ live.in \in BOOLEAN /\ live.closed \in BOOLEAN
           /\ ~live.in => live = NotLive
           /\ live = NotLive => ~live.in /\ ~live.closed
<1>1. live \in Entry BY DEF PumpTypeOK, FeedTypeOK
<1>2. CASE live = NotLive BY <1>2 DEF NotLive
<1>3. CASE live \in [in : {TRUE}, closed : BOOLEAN, subs : SUBSET Consumers]
  <2>1. live.in = TRUE /\ live.closed \in BOOLEAN BY <1>3
  <2>2. live # NotLive BY <2>1, EntryShape
  <2>3. QED BY <2>1, <2>2
<1>4. QED BY <1>1, <1>2, <1>3 DEF Entry

(* What an append does to the log's facts.                                  *)
LEMMA RecordedFacts ==
    ASSUME PumpTypeOK, NEW f \in Facts, Recorded(f)
    PROVE  /\ Len(log') = Len(log) + 1 /\ Len(log) \in Nat
           /\ DOMAIN log = 1..Len(log) /\ DOMAIN log' = 1..Len(log')
           /\ \A i \in 1..Len(log) : log'[i] = log[i]
           /\ log'[Len(log) + 1] = f
BY DEF Recorded, PumpTypeOK, FeedTypeOK

LEMMA QuietEnds ==
    ASSUME EndFacts, UNCHANGED <<resumed, log>>
    PROVE  EndFacts' /\ (Has("closed")' <=> Has("closed"))
BY DEF EndFacts, ClosedIsLast, CheckpointFollowsRun, Has

LEMMA RecordEnds ==
    ASSUME PumpTypeOK, EndFacts, UNCHANGED resumed, ~Has("closed"),
           NEW f \in Facts, Recorded(f), f = "checkpoint" => pump = "checkpoint" /\ AfterRun
    PROVE  EndFacts' /\ (Has("closed")' <=> f = "closed")
<1>1. /\ Len(log') = Len(log) + 1 /\ Len(log) \in Nat
      /\ DOMAIN log = 1..Len(log) /\ DOMAIN log' = 1..Len(log')
      /\ \A i \in 1..Len(log) : log'[i] = log[i]
      /\ log'[Len(log) + 1] = f
    BY RecordedFacts
<1>2. \A i \in 1..Len(log) : log[i] # "closed" BY <1>1 DEF Has
<1>3. ClosedIsLast' BY <1>1, <1>2 DEF ClosedIsLast
<1>4. Has("closed")' <=> f = "closed"
  <2>1. Len(log) + 1 \in DOMAIN log' BY <1>1
  <2>2. \A i \in DOMAIN log' : i # Len(log) + 1 => log'[i] # "closed" BY <1>1, <1>2
  <2>3. QED BY <1>1, <2>1, <2>2 DEF Has
<1>5. ASSUME NEW i \in DOMAIN log', log'[i] = "checkpoint"
      PROVE  /\ ~resumed'
             /\ \E j \in 1..(i - 1) : log'[j] = "completed"
                                      /\ \A n \in (j + 1)..(i - 1) : log'[n] \notin Kinds
  <2>1. CASE i \in 1..Len(log)
    <3>1. ~resumed /\ \E j \in 1..(i - 1) : log[j] = "completed"
                                   /\ \A n \in (j + 1)..(i - 1) : log[n] \notin Kinds
        BY <1>1, <1>5, <2>1 DEF EndFacts, CheckpointFollowsRun
    <3>2. PICK j \in 1..(i - 1) : /\ log[j] = "completed"
                                  /\ \A n \in (j + 1)..(i - 1) : log[n] \notin Kinds
        BY <3>1
    <3>3. log'[j] = "completed" BY <1>1, <2>1, <3>2
    <3>4. \A n \in (j + 1)..(i - 1) : log'[n] \notin Kinds BY <1>1, <2>1, <3>2
    <3>5. QED BY <3>1, <3>3, <3>4
  <2>2. CASE i = Len(log) + 1
    <3>1. pump = "checkpoint" /\ AfterRun BY <1>1, <1>5, <2>2
    <3>2. PICK j \in 1..Len(log) : log[j] = "completed"
                                   /\ \A n \in (j + 1)..Len(log) : log[n] \notin Kinds
        BY <3>1 DEF AfterRun
    <3>3. i - 1 = Len(log) /\ log'[j] = "completed" BY <1>1, <2>2, <3>2
    <3>4. \A n \in (j + 1)..Len(log) : log'[n] \notin Kinds BY <1>1, <3>2
    <3>5. QED BY <3>1, <3>2, <3>3, <3>4 DEF AfterRun
  <2>3. QED BY <1>1, <1>5, <2>1, <2>2
<1>6. QED BY <1>3, <1>4, <1>5 DEF EndFacts, CheckpointFollowsRun

LEMMA EmissionLastWord ==
    ASSUME PumpTypeOK, LastWord, NEW last, Emission(last),
           provider # "on" => last = <<>> /\ provider' # "on"
    PROVE  /\ \A i \in 1..Len(sent') : sent'[i] = "closed" => i = Len(sent') /\ provider' # "on"
           /\ provider # "on" => stream' = stream
<1>1. /\ sent \in Seq(Kinds) /\ sent' \in Seq(Kinds) /\ last \in Seq(Kinds)
      /\ Len(sent') = Len(sent) + Len(last)
      /\ \A i \in 1..Len(sent) : sent'[i] = sent[i]
      /\ \A i \in 1..Len(last) : sent'[Len(sent) + i] = last[i]
      /\ stream \in Seq(Kinds)
    BY EmissionTyped DEF PumpTypeOK, FeedTypeOK, Emission
<1>2. CASE provider # "on"
  <2>1. stream' = stream /\ sent' = sent BY <1>1, <1>2 DEF Emission, Emit
  <2>2. QED BY <1>2, <2>1 DEF LastWord
<1>3. CASE provider = "on"
  <2>1. \A i \in 1..Len(last) : last[i] = "closed" => i = Len(last) /\ provider' # "on"
      BY DEF Emission
  <2>2. ASSUME NEW i \in 1..Len(sent'), sent'[i] = "closed"
        PROVE  i = Len(sent') /\ provider' # "on"
    <3>1. i > Len(sent)
      <4>1. i \in 1..Len(sent) => sent[i] = "closed" BY <1>1, <2>2
      <4>2. i \in 1..Len(sent) => provider # "on" BY <4>1 DEF LastWord
      <4>3. i \notin 1..Len(sent) BY <4>2, <1>3
      <4>4. QED BY <1>1, <4>3
    <3>2. i - Len(sent) \in 1..Len(last) /\ i = Len(sent) + (i - Len(sent)) BY <1>1, <3>1
    <3>3. last[i - Len(sent)] = "closed" BY <1>1, <2>2, <3>2
    <3>4. i - Len(sent) = Len(last) /\ provider' # "on" BY <2>1, <3>2, <3>3
    <3>5. QED BY <1>1, <3>4
  <2>3. QED BY <1>3, <2>2
<1>4. QED BY <1>2, <1>3

LEMMA CreateEnds ==
    ASSUME OneCloser, Ends, CreateStep, Drained', NobodyAttached'
    PROVE  Ends'
<1> USE DEF Ends
<1>0. /\ PumpTypeOK /\ Startup /\ EndFacts /\ creator # "serving" /\ creator # "failed"
      /\ live = NotLive /\ ~live.in /\ \A k \in Closers : closer[k].at = "idle"
  <2>1. creator # "serving" /\ creator # "failed"
      BY DEF CreateStep, StartAdapter, RecordRow, AppendFirst, SpawnPump, InsertLive
  <2>2. QED BY <2>1, EntryCases DEF Drained, EndFacts, NobodyAttached
<1>1. ~Has("closed") BY <1>0 DEF AfterClose, NothingLeft
<1>2. UNCHANGED <<resumed, closer>> /\ EndFacts' /\ ~Has("closed")'
  <2>1. UNCHANGED <<resumed, closer>>
      BY DEF CreateStep, StartAdapter, RecordRow, AppendFirst, SpawnPump, InsertLive, hostVars
  <2>2. UNCHANGED log \/ Recorded("working") \/ Recorded("created") \/ Recorded("interrupted")
      BY DEF CreateStep, StartAdapter, RecordRow, AppendFirst, SpawnPump, InsertLive
  <2>3. {"working", "created", "interrupted"} \subseteq Facts BY DEF Facts, Kinds
  <2>4. CASE UNCHANGED log BY <1>0, <1>1, <2>1, <2>4, QuietEnds
  <2>5. ASSUME NEW f \in {"working", "created", "interrupted"}, Recorded(f)
        PROVE  EndFacts' /\ ~Has("closed")'
    BY <1>0, <1>1, <2>1, <2>3, <2>5, RecordEnds
  <2>6. QED BY <2>1, <2>2, <2>4, <2>5
<1>3. AfterClose' BY <1>2 DEF AfterClose
<1>4. AfterRun' /\ Closing' /\ LastWord'
  <2>1. CASE StartAdapter
    <3>1. CASE UNCHANGED <<provider, sent, stream>>
      BY <1>0, <1>2, <2>1, <3>1 DEF StartAdapter, pumpVars, AfterRun, Closing, LastWord, Startup
    <3>2. CASE provider' = "on" /\ sent' = <<"created", "idle">>
      <4>1. \A i \in 1..Len(sent') : sent'[i] # "closed" BY <3>2
      <4>2. creator' # "failed" /\ UNCHANGED pumpVars
        BY <1>0, <2>1, <3>2 DEF StartAdapter, Startup
      <4>3. QED BY <1>0, <1>2, <2>1, <3>2, <4>1, <4>2
            DEF StartAdapter, pumpVars, AfterRun, Closing, LastWord, Startup
    <3>3. QED BY <2>1, <3>1, <3>2 DEF StartAdapter
  <2>2. CASE InsertLive
    BY <1>0, <1>2, <2>2, EntryShape
       DEF InsertLive, pumpVars, adapterVars, AfterRun, Closing, LastWord, Startup
  <2>3. ASSUME Stop, creator' = "failed", UNCHANGED pumpVars,
               creator \in {"started", "recorded", "appended"}
        PROVE  AfterRun' /\ Closing' /\ LastWord'
    <3>1. PICK last : Emission(last) /\ (provider # "on" => last = <<>>) BY <2>3, StopEmits
    <3>2. provider' = "stopped" BY <2>3, StopEmits
    <3>3. \A i \in 1..Len(sent') : sent'[i] = "closed" => i = Len(sent') /\ provider' # "on"
        BY <1>0, <3>1, <3>2, EmissionLastWord
    <3>4. QED BY <1>0, <1>2, <2>3, <3>2, <3>3
              DEF pumpVars, AfterRun, Closing, LastWord, Startup
  <2>4. ASSUME UNCHANGED adapterVars, creator' \in {"recorded", "appended", "spawned"},
               \/ UNCHANGED pumpVars /\ creator' # "spawned"
               \/ pump' = "spawned"
        PROVE  AfterRun' /\ Closing' /\ LastWord'
    <3>1. pump' # "checkpoint" /\ pump' # "done"
      BY <1>0, <2>4 DEF pumpVars, Startup, CreateStep, StartAdapter, RecordRow, AppendFirst,
         SpawnPump, InsertLive
    <3>2. QED BY <1>0, <1>2, <2>4, <3>1 DEF pumpVars, adapterVars, AfterRun, Closing, LastWord, Startup
  <2>5. CASE RecordRow BY <2>3, <2>4, <2>5 DEF RecordRow
  <2>6. CASE AppendFirst BY <2>3, <2>4, <2>6 DEF AppendFirst
  <2>7. CASE SpawnPump BY <2>3, <2>4, <2>7 DEF SpawnPump
  <2>8. QED BY <2>1, <2>2, <2>5, <2>6, <2>7 DEF CreateStep
<1>5. QED BY <1>2, <1>3, <1>4 DEF EndFacts

LEMMA AdapterEnds ==
    ASSUME Ends, RunStarts \/ RunNotes \/ RunEnds \/ ProviderDies, Drained', NobodyAttached'
    PROVE  Ends'
<1> USE DEF Ends
<1>0. PumpTypeOK /\ Startup /\ EndFacts BY DEF Drained, EndFacts
<1>1. UNCHANGED <<resumed, creator, pumpVars, log, live, hostVars>> /\ provider = "on"
    BY <1>0 DEF RunStarts, RunNotes, RunEnds, ProviderDies, Startup
<1>2. ~Has("closed") BY <1>1 DEF AfterClose, NothingLeft
<1>3. EndFacts' /\ ~Has("closed")' BY <1>0, <1>1, <1>2, QuietEnds
<1>4. PICK last : Emission(last) BY RunEmits
<1>5. \A i \in 1..Len(sent') : sent'[i] = "closed" => i = Len(sent') /\ provider' # "on"
    BY <1>0, <1>1, <1>4, EmissionLastWord
<1>6. AfterRun' /\ Closing' /\ LastWord'
    BY <1>1, <1>5 DEF AfterRun, Closing, LastWord, pumpVars, hostVars
<1>7. QED BY <1>3, <1>6 DEF EndFacts, AfterClose

LEMMA PumpLeavesEnd ==
    ASSUME ~StoreFails, Ends, PumpStep, Drained', NobodyAttached'
    PROVE  Ends'
<1> USE DEF Ends
<1>0. /\ PumpTypeOK /\ Startup /\ EndFacts /\ creator \in {"spawned", "serving"}
      /\ pump \notin {"none", "done"}
  <2>1. pump \notin {"none", "done"}
      BY DEF PumpStep, TakeStream, Skip, Drain, PostRunCheckpoint, PostRunQuota, PumpEnds
  <2>2. QED BY <2>1 DEF Drained, EndFacts, PumpTypeOK, Startup
<1>1. \A k \in Closers : closer[k].at # "closing" BY <1>0 DEF Closing
<1>2. ASSUME TakeStream \/ PumpEnds PROVE Ends'
  <2>1. /\ UNCHANGED <<resumed, creator, adapterVars, log, live, hostVars>>
        /\ pump' = "draining" \/ (pump' = "done" /\ provider = "stopped")
      BY <1>2 DEF TakeStream, PumpEnds
  <2>2. EndFacts' /\ (Has("closed")' <=> Has("closed")) BY <1>0, <2>1, QuietEnds
  <2>3. AfterRun' /\ Closing' /\ LastWord'
      BY <1>0, <1>1, <2>1 DEF AfterRun, Closing, LastWord, adapterVars, hostVars
  <2>4. ASSUME Has("closed") PROVE NothingLeft'
    <3>1. NothingLeft BY <2>4 DEF AfterClose
    <3>2. stream = <<>>
      BY <1>0, <3>1 DEF NothingLeft
    <3>3. QED BY <2>1, <3>1, <3>2 DEF NothingLeft, adapterVars, hostVars
  <2>5. QED BY <2>2, <2>3, <2>4 DEF EndFacts, AfterClose
<1>3. CASE Skip
  <2>1. /\ UNCHANGED <<resumed, creator, provider, running, sent, pump, log, live, hostVars>>
        /\ pump = "draining" /\ stream # <<>>
      BY <1>3 DEF Skip
  <2>2. EndFacts' /\ (Has("closed")' <=> Has("closed")) BY <1>0, <2>1, QuietEnds
  <2>3. ~Has("closed") BY <2>1 DEF AfterClose, NothingLeft
  <2>4. QED BY <2>1, <2>2, <2>3 DEF EndFacts, AfterClose, AfterRun, Closing, LastWord, hostVars
<1>4. CASE Drain
  <2>1. /\ stream # <<>> /\ stream' = Tail(stream) /\ pump = "draining" /\ Recorded(Head(stream))
        /\ UNCHANGED <<resumed, creator, provider, running, sent, closer>>
        /\ Head(stream) = "closed" => live.in /\ live' = [live EXCEPT !.closed = TRUE]
        /\ Head(stream) # "closed" => live' = live
        /\ pump' \in {"draining", "quota", "checkpoint"}
        /\ pump' # "draining" => Head(stream) = "completed"
        /\ pump' = "checkpoint" => ~resumed
      BY <1>4 DEF Drain, Skipped, RecordAndBroadcast
  <2>2. /\ Taken + 1 \in 1..Len(sent) /\ Head(stream) = sent[Taken + 1]
        /\ Head(stream) \in Kinds /\ Head(stream) \in Facts /\ Taken \in Nat
      BY <1>0, <2>1, Head1 DEF Drained, Facts
  <2>3. ~Has("closed") BY <2>1 DEF AfterClose, NothingLeft
  <2>4. EndFacts' /\ (Has("closed")' <=> Head(stream) = "closed")
    <3>1. Head(stream) # "checkpoint" BY <2>2 DEF Kinds
    <3>2. QED BY <1>0, <2>1, <2>2, <2>3, <3>1, RecordEnds
  <2>5. AfterRun'
    <3> SUFFICES ASSUME pump' = "checkpoint"
                 PROVE  /\ ~resumed'
                        /\ \E j \in 1..Len(log') : log'[j] = "completed"
                               /\ \A n \in (j + 1)..Len(log') : log'[n] \notin Kinds
        BY DEF AfterRun
    <3>1. /\ Len(log') = Len(log) + 1 /\ Len(log) \in Nat /\ log'[Len(log) + 1] = "completed"
        BY <1>0, <2>1, <2>2, RecordedFacts
    <3>2. Len(log') \in 1..Len(log') /\ (Len(log') + 1)..Len(log') = {} BY <3>1
    <3>3. QED BY <2>1, <3>1, <3>2
  <2>6. live'.in = live.in
    <3>1. CASE Head(stream) = "closed"
      <4>1. live \in Entry /\ live.in BY <1>0, <2>1, <3>1 DEF PumpTypeOK, FeedTypeOK
      <4>2. live \in [in : {TRUE}, closed : BOOLEAN, subs : SUBSET Consumers] BY <4>1, EntryShape
      <4>3. QED BY <2>1, <3>1, <4>2
    <3>2. CASE Head(stream) # "closed" BY <2>1, <3>2
    <3>3. QED BY <3>1, <3>2
  <2>7. Closing' /\ LastWord' BY <1>0, <1>1, <2>1, <2>6 DEF Closing, LastWord
  <2>8. ASSUME Head(stream) = "closed" PROVE NothingLeft'
    <3>1. Taken + 1 = Len(sent) /\ provider # "on" BY <2>2, <2>8 DEF LastWord
    <3>2. stream' = <<>>
      <4>1. stream \in Seq(Kinds) /\ sent \in Seq(Kinds) BY <1>0 DEF PumpTypeOK, FeedTypeOK
      <4>2. Len(stream) \in Nat /\ Len(sent) \in Nat BY <4>1
      <4>3. Taken = Len(sent) - Len(stream) BY DEF Taken
      <4>4. Len(stream) = 1 BY <2>2, <3>1, <4>2, <4>3
      <4>5. QED BY <2>1, <4>1, <4>4
    <3>3. live.in /\ live # NotLive BY <1>0, <2>1, <2>8, EntryCases
    <3>4. creator = "serving" /\ \A k \in Closers : closer[k].at = "idle"
        BY <3>3 DEF NobodyAttached
    <3>5. pump' = "draining" BY <2>1, <2>8
    <3>6. live'.closed
      <4>1. live \in Entry BY <1>0 DEF PumpTypeOK, FeedTypeOK
      <4>2. live \in [in : {TRUE}, closed : BOOLEAN, subs : SUBSET Consumers]
          BY <3>3, <4>1, EntryShape
      <4>3. QED BY <2>1, <2>8, <4>2
    <3>7. QED BY <2>1, <3>1, <3>2, <3>4, <3>5, <3>6 DEF NothingLeft
  <2>9. QED BY <2>4, <2>5, <2>7, <2>8 DEF EndFacts, AfterClose
<1>5. ASSUME PostRunCheckpoint \/ PostRunQuota PROVE Ends'
  <2>1. /\ UNCHANGED <<resumed, creator, adapterVars, live, closer>>
        /\ pump \in {"checkpoint", "quota"} /\ pump' \in {"quota", "draining"}
        /\ UNCHANGED log \/ (Recorded("checkpoint") /\ pump = "checkpoint") \/ Recorded("quota")
      BY <1>5 DEF PostRunCheckpoint, PostRunQuota, RecordAndBroadcast
  <2>2. ~Has("closed") BY <2>1 DEF AfterClose, NothingLeft
  <2>3. "checkpoint" \in Facts /\ "quota" \in Facts BY DEF Facts
  <2>4. EndFacts' /\ ~Has("closed")'
    <3>1. CASE UNCHANGED log BY <1>0, <2>1, <2>2, <3>1, QuietEnds
    <3>2. CASE Recorded("checkpoint") /\ pump = "checkpoint"
        BY <1>0, <2>1, <2>2, <2>3, <3>2, RecordEnds
    <3>3. CASE Recorded("quota") BY <1>0, <2>1, <2>2, <2>3, <3>3, RecordEnds
    <3>4. QED BY <2>1, <3>1, <3>2, <3>3
  <2>5. AfterRun' /\ Closing' /\ LastWord'
      BY <1>0, <1>1, <2>1 DEF AfterRun, Closing, LastWord, adapterVars
  <2>6. QED BY <2>4, <2>5 DEF EndFacts, AfterClose
<1>6. QED BY <1>2, <1>3, <1>4, <1>5 DEF PumpStep

LEMMA HostEnds ==
    ASSUME OneCloser, Ends, Drained', NobodyAttached',
           \/ \E c \in Consumers : Subscribe(c)
           \/ \E k \in Closers : CloseBegins(k) \/ CloseStep(k)
    PROVE  Ends'
<1> USE DEF Ends
<1>0. /\ PumpTypeOK /\ Startup /\ EndFacts /\ closer \in [Closers -> CloserState]
    BY DEF Drained, EndFacts, PumpTypeOK, FeedTypeOK
<1>1. ASSUME NEW c \in Consumers, Subscribe(c) PROVE Ends'
  <2>1. UNCHANGED <<resumed, creator, adapterVars, pumpVars, log, closer>> BY <1>1 DEF Subscribe
  <2>2. live'.in = live.in /\ live'.closed = live.closed
    <3>1. CASE live.in
      <4>1. live \in Entry BY <1>0 DEF PumpTypeOK, FeedTypeOK
      <4>2. live \in [in : {TRUE}, closed : BOOLEAN, subs : SUBSET Consumers]
          BY <3>1, <4>1, EntryShape
      <4>3. live' = [live EXCEPT !.subs = @ \cup {c}] BY <1>1, <3>1 DEF Subscribe
      <4>4. QED BY <4>2, <4>3
    <3>2. CASE ~live.in BY <1>1, <3>2 DEF Subscribe
    <3>3. QED BY <3>1, <3>2
  <2>3. EndFacts' /\ (Has("closed")' <=> Has("closed")) BY <1>0, <2>1, QuietEnds
  <2>4. QED BY <2>1, <2>2, <2>3
            DEF EndFacts, AfterClose, NothingLeft, AfterRun, Closing, LastWord, adapterVars, pumpVars
<1>2. ASSUME NEW k \in Closers, CloseBegins(k) PROVE Ends'
  <2>1. /\ UNCHANGED <<resumed, creator, adapterVars, pumpVars, log>>
        /\ closer[k].at = "idle" /\ creator \in {"serving", "failed"}
        /\ live' = NotLive
      BY <1>2 DEF CloseBegins, Addressable, OneCloser
  <2>2. /\ closer'[k].saw = live.closed
        /\ live.in => closer'[k].at = "stopping"
        /\ ~live.in => closer'[k].at \in {"rejected", "closing"}
        /\ \A j \in Closers : j = k
      BY <1>0, <1>2 DEF CloseBegins, OneCloser
  <2>3. ~live.in => creator = "failed" /\ pump = "none" BY <1>0, <2>1, <2>2 DEF Closing, Startup
  <2>4. EndFacts' /\ (Has("closed")' <=> Has("closed")) BY <1>0, <2>1, QuietEnds
  <2>5. Closing' /\ AfterRun' /\ LastWord'
      BY <1>0, <2>1, <2>2, <2>3 DEF Closing, AfterRun, LastWord, adapterVars, pumpVars
  <2>6. ASSUME Has("closed") PROVE NothingLeft'
    <3>1. NothingLeft BY <2>6 DEF AfterClose
    <3>2. live.in /\ live.closed BY <2>1, <2>3, <3>1 DEF NothingLeft
    <3>3. ~live'.in BY <2>1, EntryShape
    <3>4. QED BY <2>1, <2>2, <3>1, <3>2, <3>3 DEF NothingLeft, adapterVars, pumpVars
  <2>7. QED BY <2>4, <2>5, <2>6 DEF EndFacts, AfterClose
<1>3. ASSUME NEW k \in Closers, CloseStep(k)
      PROVE  /\ UNCHANGED <<resumed, creator, pumpVars, live>> /\ closer[k].at # "idle"
             /\ live = NotLive /\ ~live.in /\ creator \in {"serving", "failed"}
             /\ \A j \in Closers : j = k
             /\ closer'[k].saw = closer[k].saw
  <2>1. UNCHANGED <<resumed, creator, pumpVars, live>> /\ closer[k].at # "idle"
      BY <1>3 DEF CloseStep, CloseStops, CloseJoins, CloseRecords
  <2>2. \E at \in {"joining", "done", "closing", "rejected"} : closer' = [closer EXCEPT ![k].at = at]
      BY <1>3 DEF CloseStep, CloseStops, CloseJoins, CloseRecords
  <2>3. closer'[k].saw = closer[k].saw BY <1>0, <2>2 DEF CloserState
  <2>4. QED BY <2>1, <2>3, EntryShape DEF NobodyAttached, OneCloser
<1>4. ASSUME NEW k \in Closers, CloseStops(k) PROVE Ends'
  <2>0. /\ UNCHANGED <<resumed, creator, pumpVars, live>> /\ closer[k].at = "stopping"
        /\ \A j \in Closers : j = k
        /\ closer'[k].saw = closer[k].saw /\ UNCHANGED log /\ Stop
      BY <1>3, <1>4 DEF CloseStep, CloseStops
  <2>1. closer'[k].at = "joining" BY <1>0, <1>4 DEF CloseStops, CloserState
  <2>2. PICK last : Emission(last) /\ (provider # "on" => last = <<>>) BY <2>0, StopEmits
  <2>3. provider' = "stopped" BY <2>0, StopEmits
  <2>4. /\ \A i \in 1..Len(sent') : sent'[i] = "closed" => i = Len(sent') /\ provider' # "on"
        /\ provider # "on" => stream' = stream
      BY <1>0, <2>2, <2>3, EmissionLastWord
  <2>5. EndFacts' /\ (Has("closed")' <=> Has("closed")) BY <1>0, <2>0, QuietEnds
  <2>6. Closing' /\ AfterRun' /\ LastWord'
      BY <1>0, <2>0, <2>1, <2>3, <2>4 DEF Closing, AfterRun, LastWord, pumpVars
  <2>7. ASSUME Has("closed") PROVE NothingLeft'
    <3>1. NothingLeft BY <2>7 DEF AfterClose
    <3>2. QED BY <2>0, <2>1, <2>3, <2>4, <3>1 DEF NothingLeft, pumpVars
  <2>8. QED BY <2>5, <2>6, <2>7 DEF EndFacts, AfterClose
<1>5. ASSUME NEW k \in Closers, CloseJoins(k) PROVE Ends'
  <2>0. /\ UNCHANGED <<resumed, creator, adapterVars, pumpVars, live, log>> /\ closer[k].at = "joining"
        /\ \A j \in Closers : j = k
        /\ closer'[k].saw = closer[k].saw /\ pump = "done"
      BY <1>3, <1>5 DEF CloseStep, CloseJoins
  <2>1. closer'[k].at = IF closer[k].saw THEN "done" ELSE "closing"
      BY <1>0, <1>5 DEF CloseJoins, CloserState
  <2>2. EndFacts' /\ (Has("closed")' <=> Has("closed")) BY <1>0, <2>0, QuietEnds
  <2>3. Closing' /\ AfterRun' /\ LastWord'
      BY <1>0, <2>0, <2>1 DEF Closing, AfterRun, LastWord, pumpVars, adapterVars
  <2>4. ASSUME Has("closed") PROVE NothingLeft'
    <3>1. NothingLeft BY <2>4 DEF AfterClose
    <3>2. closer[k].saw BY <2>0, <3>1 DEF NothingLeft
    <3>3. QED BY <2>0, <2>1, <3>1, <3>2 DEF NothingLeft, pumpVars, adapterVars
  <2>5. QED BY <2>2, <2>3, <2>4 DEF EndFacts, AfterClose
<1>6. ASSUME NEW k \in Closers, CloseRecords(k) PROVE Ends'
  <2>0. /\ UNCHANGED <<resumed, creator, adapterVars, pumpVars, live>> /\ closer[k].at = "closing"
        /\ ~live.in /\ creator \in {"serving", "failed"}
        /\ \A j \in Closers : j = k
      BY <1>3, <1>6 DEF CloseStep, CloseRecords
  <2>1. closer'[k].at \in {"done", "rejected"} BY <1>0, <1>6 DEF CloseRecords, CloserState
  <2>2. ~Has("closed") BY <2>0 DEF AfterClose, NothingLeft
  <2>3. EndFacts'
    <3>1. CASE UNCHANGED log BY <1>0, <2>0, <3>1, QuietEnds
    <3>2. CASE Recorded("closed")
      <4>1. "closed" \in Facts BY DEF Facts, Kinds
      <4>2. QED BY <1>0, <2>0, <2>2, <3>2, <4>1, RecordEnds
    <3>3. QED BY <1>6, <3>1, <3>2 DEF CloseRecords
  <2>4. pump \in {"none", "done"} BY <2>0 DEF Closing
  <2>5. provider # "on"
    <3>1. CASE pump = "none" BY <2>0, <3>1 DEF Closing, LastWord
    <3>2. CASE pump = "done" BY <3>2 DEF LastWord
    <3>3. QED BY <2>4, <3>1, <3>2
  <2>6. Closing' /\ LastWord'
      BY <1>0, <2>0, <2>1 DEF Closing, LastWord, pumpVars, adapterVars
  <2>7. AfterRun' BY <2>0, <2>4 DEF AfterRun, pumpVars
  <2>8. NothingLeft' BY <2>0, <2>1, <2>4, <2>5 DEF NothingLeft, pumpVars, adapterVars
  <2>9. QED BY <2>3, <2>6, <2>7, <2>8 DEF EndFacts, AfterClose
<1>7. QED BY <1>1, <1>2, <1>4, <1>5, <1>6 DEF CloseStep

LEMMA EndsInit == ASSUME OneCloser PROVE Init => Ends
<1> SUFFICES ASSUME Init PROVE Ends OBVIOUS
<1>1. Drained BY DrainedInit
<1>2. NobodyAttached BY HandoverInit DEF Handover
<1>3. /\ \A i \in DOMAIN log : log[i] \in {"created", "working", "interrupted"}
      /\ sent = <<>> /\ Len(sent) = 0
  <2>1. CASE resumed
    <3>1. log = <<"created", "working", "interrupted">> BY <2>1 DEF Init
    <3>2. QED BY <3>1 DEF Init
  <2>2. CASE ~resumed
    <3>1. log = <<>> BY <2>2 DEF Init
    <3>2. QED BY <3>1 DEF Init
  <2>3. QED BY <2>1, <2>2
<1>4. ClosedIsLast /\ CheckpointFollowsRun /\ ~Has("closed")
    BY <1>3 DEF ClosedIsLast, CheckpointFollowsRun, Has
<1>5. AfterRun /\ LastWord /\ Closing
    BY <1>3 DEF Init, AfterRun, LastWord, Closing
<1>6. QED BY <1>1, <1>2, <1>4, <1>5 DEF Ends, AfterClose

LEMMA EndsStep == ASSUME OneCloser, ~StoreFails PROVE Ends /\ [Next]_vars => Ends'
<1> SUFFICES ASSUME Ends, [Next]_vars PROVE Ends' OBVIOUS
<1>1. Drained' BY DrainedStep DEF Ends
<1>2. NobodyAttached'
  <2>1. Handover BY DEF Ends, Drained, PumpTypeOK, Handover
  <2>2. QED BY <2>1, HandoverStep DEF Handover, OneCloser
<1>3. CASE UNCHANGED vars
  <2>1. UNCHANGED <<resumed, creator, provider, sent, stream, pump, log, live, closer>>
      BY <1>3 DEF vars, adapterVars, pumpVars, hostVars
  <2>2. QED BY <1>1, <1>2, <2>1
            DEF Ends, AfterRun, LastWord, Closing, AfterClose, NothingLeft, Has, ClosedIsLast,
              CheckpointFollowsRun
<1>4. CASE Next
  <2>1. ~(\E x \in Restorers : RestoreBegins(x) \/ RestoreStep(x)) BY DEF OneCloser
  <2>2. QED BY <1>1, <1>2, <1>4, <2>1, CreateEnds, AdapterEnds, PumpLeavesEnd, HostEnds DEF Next
<1>5. QED BY <1>3, <1>4

(* One host closes, none does before its create is answered, none restores: *)
(* the log reads as one orderly session (commands.rs:289, pump.rs:155).     *)
THEOREM LogStaysOrderly ==
    ASSUME OneCloser, ~StoreFails
    PROVE  Spec => []LogIsOrderly
<1>1. Init => Ends BY EndsInit
<1>2. Ends /\ [Next]_vars => Ends' BY EndsStep
<1>3. Ends => LogIsOrderly BY TypeParts DEF Ends, Drained, LogIsOrderly
<1>4. QED BY <1>1, <1>2, <1>3, PTL DEF Spec

-----------------------------------------------------------------------------
(* Hosts that restore checkpoints, over a store that may fail: nobody       *)
(* attached misses a fact, however late its delivery.                       *)

(* A restore that was allowed has seen a recorded checkpoint.               *)
AllowedKnows == \A x \in Restorers : restorer[x].at = "allowed" => Has("checkpoint")

Restoring ==
    PumpTypeOK /\ NobodyAttached /\ NothingMissed /\ AllowedKnows /\ RestoredWasRecorded

(* Nothing but a restore records that one took place.                       *)
LEMMA OtherFactsKept ==
    ASSUME Restoring, UNCHANGED log \/ \E f \in Facts \ {"restored"} : Recorded(f),
           \A x \in Restorers : restorer'[x].at = "allowed" =>
               restorer[x].at = "allowed" \/ Has("checkpoint")
    PROVE  AllowedKnows' /\ RestoredWasRecorded'
<1>1. ASSUME UNCHANGED log PROVE AllowedKnows' /\ RestoredWasRecorded'
  BY <1>1 DEF Restoring, AllowedKnows, RestoredWasRecorded, Has
<1>2. ASSUME NEW f \in Facts \ {"restored"}, Recorded(f)
      PROVE  AllowedKnows' /\ RestoredWasRecorded'
  <2>1. /\ Len(log') = Len(log) + 1 /\ Len(log) \in Nat
        /\ DOMAIN log = 1..Len(log) /\ DOMAIN log' = 1..Len(log')
        /\ \A i \in 1..Len(log) : log'[i] = log[i]
        /\ log'[Len(log) + 1] # "restored"
      BY <1>2, RecordedFacts DEF Restoring
  <2>2. Has("checkpoint") => Has("checkpoint")' BY <2>1 DEF Has
  <2>3. AllowedKnows' BY <2>2 DEF Restoring, AllowedKnows
  <2>4. RestoredWasRecorded' BY <2>1 DEF Restoring, RestoredWasRecorded
  <2>5. QED BY <2>3, <2>4
<1>3. QED BY <1>1, <1>2

LEMMA NobodyMisses ==
    ASSUME live'.subs = {} PROVE NothingMissed'
BY DEF NothingMissed

LEMMA QuietMisses ==
    ASSUME NothingMissed, UNCHANGED <<log, live, base, chan, restorer>> PROVE NothingMissed'
BY DEF NothingMissed

(* A fact appended and delivered under the lock.                            *)
LEMMA HeardMisses ==
    ASSUME PumpTypeOK, NothingMissed, UNCHANGED <<base, restorer>>, live'.subs = live.subs,
           NEW f \in Facts, RecordAndBroadcast(f) \/ UNCHANGED <<log, chan>>
    PROVE  NothingMissed'
<1>1. CASE UNCHANGED <<log, chan>> BY <1>1 DEF NothingMissed
<1>2. CASE Recorded(f) /\ Broadcast(Len(log) + 1)
  <2>1. Len(log') = Len(log) + 1 /\ Len(log) \in Nat BY <1>2, RecordedFacts
  <2>2. /\ live.subs \subseteq Consumers /\ chan \in [Consumers -> Seq(Nat)]
        /\ base \in [Consumers -> Nat]
      BY EntryShape DEF PumpTypeOK, FeedTypeOK
  <2>3. ASSUME NEW c \in live.subs, NEW n \in (base[c] + 1)..Len(log')
        PROVE  \/ \E i \in DOMAIN chan'[c] : chan'[c][i] = n
               \/ \E x \in Restorers : restorer'[x] = [at |-> "recorded", seq |-> n]
    <3>1. c \in Consumers /\ chan[c] \in Seq(Nat) /\ base[c] \in Nat BY <2>2
    <3>2. chan'[c] = Append(chan[c], Len(log) + 1) BY <1>2, <2>2 DEF Broadcast
    <3>3. CASE n = Len(log) + 1
      <4>1. Len(chan[c]) + 1 \in DOMAIN chan'[c] /\ chan'[c][Len(chan[c]) + 1] = n
          BY <2>1, <3>1, <3>2, <3>3
      <4>2. QED BY <4>1
    <3>4. CASE n # Len(log) + 1
      <4>1. n \in (base[c] + 1)..Len(log) BY <2>1, <3>1, <3>4
      <4>2. \/ \E i \in DOMAIN chan[c] : chan[c][i] = n
            \/ \E x \in Restorers : restorer[x] = [at |-> "recorded", seq |-> n]
          BY <4>1 DEF NothingMissed
      <4>3. \A i \in DOMAIN chan[c] : i \in DOMAIN chan'[c] /\ chan'[c][i] = chan[c][i]
          BY <3>1, <3>2
      <4>4. QED BY <4>2, <4>3
    <3>5. QED BY <3>3, <3>4
  <2>4. QED BY <2>3 DEF NothingMissed
<1>3. QED BY <1>1, <1>2 DEF RecordAndBroadcast

LEMMA CreateRestoring == ASSUME Restoring, CreateStep PROVE Restoring'
<1>1. Handover' BY CreateStepTold DEF Restoring, PumpTypeOK, Handover
<1>2. PumpTypeOK' BY CreateTyped DEF Restoring
<1>3. UNCHANGED restorer /\ (UNCHANGED log \/ \E f \in Facts \ {"restored"} : Recorded(f))
  <2>1. UNCHANGED hostVars /\ (\/ UNCHANGED log \/ Recorded("working") \/ Recorded("created")
                               \/ Recorded("interrupted"))
      BY DEF CreateStep, StartAdapter, RecordRow, AppendFirst, SpawnPump, InsertLive
  <2>2. {"working", "created", "interrupted"} \subseteq Facts \ {"restored"} BY DEF Facts, Kinds
  <2>3. QED BY <2>1, <2>2 DEF hostVars
<1>4. live'.subs = {}
  <2>1. live = NotLive
      BY DEF Restoring, NobodyAttached, CreateStep, StartAdapter, RecordRow, AppendFirst, SpawnPump,
         InsertLive
  <2>2. live' = live \/ live' = [NotLive EXCEPT !.in = TRUE]
      BY DEF CreateStep, StartAdapter, RecordRow, AppendFirst, SpawnPump, InsertLive
  <2>3. QED BY <2>1, <2>2 DEF NotLive
<1>5. NothingMissed' BY <1>4, NobodyMisses
<1>6. AllowedKnows' /\ RestoredWasRecorded' BY <1>3, OtherFactsKept
<1>7. QED BY <1>1, <1>2, <1>5, <1>6 DEF Restoring, Handover

LEMMA AdapterRestoring ==
    ASSUME Restoring, RunStarts \/ RunNotes \/ RunEnds \/ ProviderDies PROVE Restoring'
<1>1. Handover' BY AdapterStepTold DEF Restoring, PumpTypeOK, Handover
<1>2. PumpTypeOK' BY AdapterTyped DEF Restoring
<1>3. UNCHANGED <<log, live, base, chan, restorer>>
    BY DEF RunStarts, RunNotes, RunEnds, ProviderDies, hostVars
<1>4. NothingMissed' BY <1>3, QuietMisses DEF Restoring
<1>5. AllowedKnows' /\ RestoredWasRecorded' BY <1>3, OtherFactsKept
<1>6. QED BY <1>1, <1>2, <1>4, <1>5 DEF Restoring, Handover

LEMMA PumpRestoring == ASSUME Restoring, PumpStep PROVE Restoring'
<1>1. Handover' BY PumpStepTold DEF Restoring, PumpTypeOK, Handover
<1>2. PumpTypeOK' BY PumpTyped DEF Restoring
<1>3. NothingMissed' /\ UNCHANGED restorer
      /\ (UNCHANGED log \/ \E f \in Facts \ {"restored"} : Recorded(f))
  <2>1. ASSUME TakeStream \/ Skip \/ PumpEnds
        PROVE  UNCHANGED <<log, live, base, chan, restorer>>
    BY <2>1 DEF TakeStream, Skip, PumpEnds, hostVars
  <2>2. CASE TakeStream \/ Skip \/ PumpEnds BY <2>1, <2>2, QuietMisses DEF Restoring
  <2>3. CASE Drain
    <3>1. Head(stream) \in Kinds BY <2>3 DEF Drain, Restoring, PumpTypeOK, FeedTypeOK
    <3>2. Head(stream) \in Facts \ {"restored"} BY <3>1 DEF Kinds, Facts
    <3>3. live'.subs = live.subs
      <4>1. CASE Head(stream) = "closed"
        <5>1. live.in BY <2>3, <4>1 DEF Drain, Skipped
        <5>2. live \in [in : {TRUE}, closed : BOOLEAN, subs : SUBSET Consumers]
            BY <5>1, EntryShape DEF Restoring, PumpTypeOK, FeedTypeOK
        <5>3. live' = [live EXCEPT !.closed = TRUE] BY <2>3, <4>1 DEF Drain
        <5>4. QED BY <5>2, <5>3
      <4>2. CASE Head(stream) # "closed" BY <2>3, <4>2 DEF Drain
      <4>3. QED BY <4>1, <4>2
    <3>4. RecordAndBroadcast(Head(stream)) /\ UNCHANGED <<base, restorer>> BY <2>3 DEF Drain
    <3>5. NothingMissed' BY <3>2, <3>3, <3>4, HeardMisses DEF Restoring
    <3>6. QED BY <3>2, <3>4, <3>5 DEF RecordAndBroadcast
  <2>4. ASSUME NEW f \in {"checkpoint", "quota"}, UNCHANGED <<live, restorer, base>>,
               RecordAndBroadcast(f) \/ UNCHANGED <<log, chan>>
        PROVE  /\ NothingMissed' /\ UNCHANGED restorer
               /\ (UNCHANGED log \/ \E g \in Facts \ {"restored"} : Recorded(g))
    <3>1. f \in Facts \ {"restored"} BY DEF Facts
    <3>2. QED BY <2>4, <3>1, HeardMisses DEF Restoring, RecordAndBroadcast
  <2>5. CASE PostRunCheckpoint BY <2>4, <2>5 DEF PostRunCheckpoint
  <2>6. CASE PostRunQuota BY <2>4, <2>6 DEF PostRunQuota
  <2>7. QED BY <2>2, <2>3, <2>5, <2>6 DEF PumpStep
<1>4. AllowedKnows' /\ RestoredWasRecorded' BY <1>3, OtherFactsKept
<1>5. QED BY <1>1, <1>2, <1>3, <1>4 DEF Restoring, Handover

LEMMA SubscribeRestoring == ASSUME Restoring, NEW c \in Consumers, Subscribe(c) PROVE Restoring'
<1>1. Handover' BY SubscribeStepTold DEF Restoring, PumpTypeOK, Handover
<1>2. PumpTypeOK' BY SubscribeTyped DEF Restoring
<1>3. UNCHANGED <<log, restorer>> BY DEF Subscribe
<1>4. PICK from \in 0..Len(log), truncated \in BOOLEAN :
        /\ base' = [base EXCEPT ![c] = IF truncated THEN Len(log) ELSE from]
        /\ chan' = [chan EXCEPT ![c] = IF truncated THEN <<>> ELSE Page(from)]
    BY DEF Subscribe
<1>5. live'.subs \subseteq live.subs \cup {c}
  <2>1. CASE live.in
    <3>1. live \in [in : {TRUE}, closed : BOOLEAN, subs : SUBSET Consumers]
        BY <2>1, EntryShape DEF Restoring, PumpTypeOK, FeedTypeOK
    <3>2. live' = [live EXCEPT !.subs = @ \cup {c}] BY <2>1 DEF Subscribe
    <3>3. QED BY <3>1, <3>2
  <2>2. CASE ~live.in BY <2>2 DEF Subscribe
  <2>3. QED BY <2>1, <2>2
<1>6. /\ base \in [Consumers -> Nat] /\ chan \in [Consumers -> Seq(Nat)] /\ Len(log) \in Nat
      /\ live.subs \subseteq Consumers
  <2>1. live \in Entry /\ log \in Seq(Facts) BY DEF Restoring, PumpTypeOK, FeedTypeOK
  <2>2. live.subs \subseteq Consumers BY <2>1, EntryShape
  <2>3. Len(log) \in Nat BY <2>1
  <2>4. QED BY <2>2, <2>3 DEF Restoring, PumpTypeOK, FeedTypeOK
<1>7. ASSUME NEW n \in (base'[c] + 1)..Len(log) PROVE \E i \in DOMAIN chan'[c] : chan'[c][i] = n
  <2>1. CASE truncated BY <1>4, <1>6, <2>1
  <2>2. CASE ~truncated
    <3>1. base'[c] = from /\ chan'[c] = Page(from) BY <1>4, <1>6, <2>2
    <3>2. n - from \in 1..(Len(log) - from) /\ from + (n - from) = n BY <1>6, <3>1
    <3>3. n - from \in DOMAIN Page(from) /\ Page(from)[n - from] = n BY <3>2 DEF Page
    <3>4. QED BY <3>1, <3>3
  <2>3. QED BY <2>1, <2>2
<1>8. NothingMissed'
  <2> SUFFICES ASSUME NEW d \in live'.subs, NEW n \in (base'[d] + 1)..Len(log)
               PROVE  \/ \E i \in DOMAIN chan'[d] : chan'[d][i] = n
                      \/ \E x \in Restorers : restorer[x] = [at |-> "recorded", seq |-> n]
      BY <1>3 DEF NothingMissed
  <2>1. CASE d = c BY <1>7, <2>1
  <2>2. CASE d # c
    <3>1. d \in live.subs /\ base'[d] = base[d] /\ chan'[d] = chan[d]
        BY <1>4, <1>5, <1>6, <2>2
    <3>2. QED BY <3>1 DEF Restoring, NothingMissed
  <2>3. QED BY <2>1, <2>2
<1>9. AllowedKnows' /\ RestoredWasRecorded' BY <1>3, OtherFactsKept
<1>10. QED BY <1>1, <1>2, <1>8, <1>9 DEF Restoring, Handover

LEMMA CloseRestoring ==
    ASSUME Restoring, Eager \cap Closers = {}, NEW k \in Closers, CloseBegins(k) \/ CloseStep(k)
    PROVE  Restoring'
<1>1. Handover' BY CloseStepTold DEF Restoring, PumpTypeOK, Handover
<1>2. PumpTypeOK' BY CloseTyped DEF Restoring
<1>3. /\ UNCHANGED restorer
      /\ UNCHANGED log \/ Recorded("closed")
    BY DEF CloseBegins, CloseStep, CloseStops, CloseJoins, CloseRecords
<1>4. live' = NotLive
  <2>1. CASE CloseBegins(k) BY <2>1 DEF CloseBegins
  <2>2. CASE CloseStep(k)
      BY <2>2 DEF CloseStep, CloseStops, CloseJoins, CloseRecords, Restoring, NobodyAttached
  <2>3. QED BY <2>1, <2>2
<1>5. NothingMissed' BY <1>4, EntryShape, NobodyMisses
<1>6. "closed" \in Facts \ {"restored"} BY DEF Facts, Kinds
<1>7. AllowedKnows' /\ RestoredWasRecorded' BY <1>3, <1>6, OtherFactsKept
<1>8. QED BY <1>1, <1>2, <1>5, <1>7 DEF Restoring, Handover

(* The restore records its fact without the lock and delivers it later.     *)
LEMMA RestoreRestoring ==
    ASSUME Restoring, NEW x \in Restorers, RestoreBegins(x) \/ RestoreStep(x) PROVE Restoring'
<1>1. PumpTypeOK' BY RestoreTyped DEF Restoring
<1>2. UNCHANGED <<live, creator, closer, base>> /\ NobodyAttached'
  <2>1. UNCHANGED <<live, creator, closer, base>>
      BY DEF RestoreBegins, RestoreStep, RestoreRecords, RestoreTells
  <2>2. QED BY <2>1 DEF Restoring, NobodyAttached
<1>3. /\ restorer \in [Restorers -> RestorerState] /\ live.subs \subseteq Consumers
      /\ base \in [Consumers -> Nat] /\ chan \in [Consumers -> Seq(Nat)] /\ Len(log) \in Nat
      /\ restorer[x] \in RestorerState
  <2>1. live \in Entry /\ log \in Seq(Facts) BY DEF Restoring, PumpTypeOK, FeedTypeOK
  <2>2. live.subs \subseteq Consumers BY <2>1, EntryShape
  <2>3. Len(log) \in Nat BY <2>1
  <2>4. QED BY <2>2, <2>3 DEF Restoring, PumpTypeOK, FeedTypeOK
<1>4. \A y \in Restorers \ {x} : restorer'[y] = restorer[y]
    BY <1>3 DEF RestoreBegins, RestoreStep, RestoreRecords, RestoreTells
<1>5. ASSUME RestoreBegins(x) \/ (RestoreRecords(x) /\ UNCHANGED log) PROVE Restoring'
  <2>1. UNCHANGED <<log, chan>> /\ restorer[x].at \in {"idle", "allowed"}
      BY <1>5 DEF RestoreBegins, RestoreRecords
  <2>2. restorer'[x].at = "allowed" => Has("checkpoint")
    <3>1. CASE RestoreBegins(x)
        BY <1>3, <3>1 DEF RestoreBegins, RestoreAllowed, RestorerState, Has
    <3>2. CASE RestoreRecords(x) /\ UNCHANGED log
      <4>1. Len(log') # Len(log) + 1 BY <1>3, <3>2
      <4>2. ~Recorded("restored")
        <5>1. "restored" \in Facts BY DEF Facts
        <5>2. QED BY <4>1, <5>1, RecordedFacts DEF Restoring
      <4>3. restorer' = [restorer EXCEPT ![x].at = "done"] BY <3>2, <4>2 DEF RestoreRecords
      <4>4. QED BY <1>3, <4>3 DEF RestorerState
    <3>3. QED BY <1>5, <3>1, <3>2
  <2>3. AllowedKnows' /\ RestoredWasRecorded'
      BY <1>4, <2>1, <2>2, OtherFactsKept
  <2>4. \A n : restorer[x] # [at |-> "recorded", seq |-> n] BY <2>1
  <2>5. NothingMissed'
    <3> SUFFICES ASSUME NEW c \in live.subs, NEW n \in (base[c] + 1)..Len(log)
                 PROVE  \/ \E i \in DOMAIN chan[c] : chan[c][i] = n
                        \/ \E y \in Restorers : restorer'[y] = [at |-> "recorded", seq |-> n]
        BY <1>2, <2>1 DEF NothingMissed
    <3>1. \/ \E i \in DOMAIN chan[c] : chan[c][i] = n
          \/ \E y \in Restorers : restorer[y] = [at |-> "recorded", seq |-> n]
        BY DEF Restoring, NothingMissed
    <3>2. QED BY <1>4, <2>4, <3>1
  <2>6. QED BY <1>1, <1>2, <2>3, <2>5 DEF Restoring
<1>6. CASE RestoreRecords(x) /\ Recorded("restored")
  <2>1. "restored" \in Facts BY DEF Facts
  <2>2. /\ Len(log') = Len(log) + 1
        /\ DOMAIN log = 1..Len(log) /\ DOMAIN log' = 1..Len(log')
        /\ \A i \in 1..Len(log) : log'[i] = log[i]
        /\ log'[Len(log) + 1] = "restored"
      BY <1>6, <2>1, RecordedFacts DEF Restoring
  <2>3. /\ restorer[x].at = "allowed" /\ UNCHANGED chan
        /\ restorer'[x] = [at |-> "recorded", seq |-> Len(log) + 1]
    <3>1. log' # log BY <1>3, <2>2
    <3>2. QED BY <1>3, <1>6, <3>1 DEF RestoreRecords
  <2>4. Has("checkpoint") BY <2>3 DEF Restoring, AllowedKnows
  <2>5. Has("checkpoint")' BY <2>2, <2>4 DEF Has
  <2>6. AllowedKnows' BY <2>5 DEF AllowedKnows
  <2>7. RestoredWasRecorded'
    <3> SUFFICES ASSUME NEW i \in DOMAIN log', log'[i] = "restored"
                 PROVE  \E j \in 1..(i - 1) : log'[j] = "checkpoint"
        BY DEF RestoredWasRecorded
    <3>1. CASE i \in 1..Len(log)
      <4>1. PICK j \in 1..(i - 1) : log[j] = "checkpoint"
          BY <2>2, <3>1 DEF Restoring, RestoredWasRecorded
      <4>2. log'[j] = "checkpoint" BY <1>3, <2>2, <3>1, <4>1
      <4>3. QED BY <4>2
    <3>2. CASE i = Len(log) + 1
      <4>1. PICK j \in 1..Len(log) : log[j] = "checkpoint" BY <2>2, <2>4 DEF Has
      <4>2. j \in 1..(i - 1) /\ log'[j] = "checkpoint" BY <1>3, <2>2, <3>2, <4>1
      <4>3. QED BY <4>2
    <3>3. QED BY <1>3, <2>2, <3>1, <3>2
  <2>8. NothingMissed'
    <3> SUFFICES ASSUME NEW c \in live.subs, NEW n \in (base[c] + 1)..Len(log')
                 PROVE  \/ \E i \in DOMAIN chan[c] : chan[c][i] = n
                        \/ \E y \in Restorers : restorer'[y] = [at |-> "recorded", seq |-> n]
        BY <1>2, <2>3 DEF NothingMissed
    <3>1. CASE n = Len(log) + 1 BY <2>3, <3>1
    <3>2. CASE n # Len(log) + 1
      <4>1. n \in (base[c] + 1)..Len(log) BY <1>3, <2>2, <3>2
      <4>2. \/ \E i \in DOMAIN chan[c] : chan[c][i] = n
            \/ \E y \in Restorers : restorer[y] = [at |-> "recorded", seq |-> n]
          BY <4>1 DEF Restoring, NothingMissed
      <4>3. restorer[x] # [at |-> "recorded", seq |-> n] BY <2>3
      <4>4. QED BY <1>4, <4>2, <4>3
    <3>3. QED BY <3>1, <3>2
  <2>9. QED BY <1>1, <1>2, <2>6, <2>7, <2>8 DEF Restoring
<1>7. CASE RestoreTells(x)
  <2>1. /\ UNCHANGED log /\ Broadcast(restorer[x].seq) /\ restorer'[x].at = "done"
      BY <1>3, <1>7 DEF RestoreTells, RestorerState
  <2>2. AllowedKnows' /\ RestoredWasRecorded' BY <1>4, <2>1, OtherFactsKept
  <2>3. NothingMissed'
    <3> SUFFICES ASSUME NEW c \in live.subs, NEW n \in (base[c] + 1)..Len(log)
                 PROVE  \/ \E i \in DOMAIN chan'[c] : chan'[c][i] = n
                        \/ \E y \in Restorers : restorer'[y] = [at |-> "recorded", seq |-> n]
        BY <1>2, <2>1 DEF NothingMissed
    <3>1. chan'[c] = Append(chan[c], restorer[x].seq) /\ chan[c] \in Seq(Nat)
        BY <1>3, <2>1 DEF Broadcast
    <3>2. \/ \E i \in DOMAIN chan[c] : chan[c][i] = n
          \/ \E y \in Restorers : restorer[y] = [at |-> "recorded", seq |-> n]
        BY DEF Restoring, NothingMissed
    <3>3. \A i \in DOMAIN chan[c] : i \in DOMAIN chan'[c] /\ chan'[c][i] = chan[c][i] BY <3>1
    <3>4. CASE restorer[x] = [at |-> "recorded", seq |-> n]
      <4>1. Len(chan[c]) + 1 \in DOMAIN chan'[c] /\ chan'[c][Len(chan[c]) + 1] = n
        <5>1. restorer[x].seq = n BY <3>4
        <5>2. QED BY <3>1, <5>1
      <4>2. QED BY <4>1
    <3>5. CASE restorer[x] # [at |-> "recorded", seq |-> n] BY <1>4, <3>2, <3>3, <3>5
    <3>6. QED BY <3>4, <3>5
  <2>4. QED BY <1>1, <1>2, <2>2, <2>3 DEF Restoring
<1>8. RestoreRecords(x) => UNCHANGED log \/ Recorded("restored") BY DEF RestoreRecords
<1>9. QED BY <1>5, <1>6, <1>7, <1>8 DEF RestoreStep

LEMMA RestoringInit == Init => Restoring
<1> SUFFICES ASSUME Init PROVE Restoring OBVIOUS
<1>1. PumpTypeOK /\ NobodyAttached BY TypeInit, HandoverInit DEF Handover
<1>2. NothingMissed BY EntryShape DEF Init, NothingMissed
<1>3. AllowedKnows BY DEF Init, AllowedKnows
<1>4. RestoredWasRecorded
  <2>1. \A i \in DOMAIN log : log[i] \in {"created", "working", "interrupted"}
    <3>1. CASE resumed
      <4>1. log = <<"created", "working", "interrupted">> BY <3>1 DEF Init
      <4>2. QED BY <4>1
    <3>2. CASE ~resumed
      <4>1. log = <<>> BY <3>2 DEF Init
      <4>2. QED BY <4>1
    <3>3. QED BY <3>1, <3>2
  <2>2. QED BY <2>1 DEF RestoredWasRecorded
<1>5. QED BY <1>1, <1>2, <1>3, <1>4 DEF Restoring

LEMMA RestoringStep == ASSUME Eager \cap Closers = {} PROVE Restoring /\ [Next]_vars => Restoring'
<1> SUFFICES ASSUME Restoring, [Next]_vars PROVE Restoring' OBVIOUS
<1>1. CASE UNCHANGED vars
  <2>1. PumpTypeOK' BY <1>1, TypeStep DEF Restoring
  <2>2. UNCHANGED <<log, live, base, chan, restorer, creator, closer>>
      BY <1>1 DEF vars, hostVars
  <2>3. NothingMissed' BY <2>2, QuietMisses DEF Restoring
  <2>4. AllowedKnows' /\ RestoredWasRecorded' BY <2>2, OtherFactsKept
  <2>5. NobodyAttached' BY <2>2 DEF Restoring, NobodyAttached
  <2>6. QED BY <2>1, <2>3, <2>4, <2>5 DEF Restoring
<1>2. CASE Next
  BY <1>2, CreateRestoring, AdapterRestoring, PumpRestoring, SubscribeRestoring, CloseRestoring,
     RestoreRestoring DEF Next
<1>3. QED BY <1>1, <1>2

(* Whoever restores, closes once its create is answered, or subscribes, and *)
(* whatever the store refuses: a restore is of a checkpoint the log holds,  *)
(* and every fact since a subscription was sent to its consumer or is with  *)
(* a restore that is about to send it (checkpoints.rs:252-311).             *)
THEOREM RestoreStaysHonest ==
    ASSUME Eager \cap Closers = {}
    PROVE  Spec => []RestoreIsHonest
<1>1. Init => Restoring BY RestoringInit
<1>2. Restoring /\ [Next]_vars => Restoring' BY RestoringStep
<1>3. Restoring => RestoreIsHonest BY DEF Restoring, RestoreIsHonest
<1>4. QED BY <1>1, <1>2, <1>3, PTL DEF Spec

-----------------------------------------------------------------------------
(* The setup transaction. *)

(* A journal names an entry of AI Fuel that the file did not have before,   *)
(* and an entry AI Fuel put there is there.                                 *)
JournalIsSound ==
    /\ journal # NoJournal =>
           /\ journal.target.entry = journal.entry /\ journal.base.entry # journal.entry
           /\ journal.entry # ForeignEntry
    /\ receipt # ForeignEntry
    /\ wrote => config.entry # NoEntry

(* What a process has planned: the user's text around another entry, in     *)
(* the place of none or of one of AI Fuel's own.                            *)
PlanIsSound(p) ==
    /\ setup[p].target \in File /\ TextOf(setup[p].target) = TextOf(setup[p].base)
    /\ setup[p].base.entry \in {NoEntry, receipt}
    /\ ~SetupOp[p].remove => /\ setup[p].target.entry = SetupOp[p].exe
                             /\ setup[p].base.entry # SetupOp[p].exe

(* Who holds the lock is alone with the journal and the receipt; what it    *)
(* read of the configuration only a save of the user can make untrue.       *)
StepIsSound(p) ==
    LET at == setup[p].at
    IN /\ at \in {"write backup", "write journal", "check", "rename"} => PlanIsSound(p)
       /\ at \in {"plan", "write backup", "write journal"} => journal = NoJournal
       /\ at \in {"check", "rename"} /\ ~SetupOp[p].remove =>
              journal # NoJournal /\ journal.entry = SetupOp[p].exe
       /\ at \in {"check", "rename"} /\ SetupOp[p].remove => journal = NoJournal
       /\ at \in {"write receipt", "clear journal"} => journal # NoJournal
       /\ at = "write journal" => ~SetupOp[p].remove
       /\ at = "write receipt" /\ wrote => config.entry = journal.entry
       /\ at = "clear journal" /\ wrote => config.entry = receipt
       /\ at = "clear receipt" => ~wrote /\ journal = NoJournal
       /\ at = "write journal" /\ setup[p].base # Missing => backup = setup[p].base
       /\ at = "rename" /\ ~late => config = setup[p].base

OneInLock == \A p, q \in Setups : setup[p].at \in InLock /\ setup[q].at \in InLock => p = q

SetupParts == OneInLock /\ JournalIsSound /\ \A p \in Setups : StepIsSound(p)

SetupInv == RegistrationIsOwned /\ SavesAreKept /\ SetupParts

(* What is a file and what is not.                                          *)
LEMMA FilesAreFiles ==
    /\ Missing \notin File /\ Missing.entry = NoEntry
    /\ NoJournal \notin Journal /\ NoJournal.entry = NoEntry
    /\ \A f \in File : /\ f.entry \in Entries \cup {NoEntry} /\ TextOf(f) = f.text
                       /\ f.text \in Texts \cup {Blank}
    /\ TextOf(Missing) = Blank
    /\ \A f \in File \cup {Missing} : TextOf(f) \in Texts \cup {Blank}
    /\ \A j \in Journal : /\ j.base \in File \cup {Missing} /\ j.target \in File
                          /\ j.entry \in Entries /\ j.previous \in Entries \cup {NoEntry}
<1>1. DOMAIN Missing = {"entry"} /\ Missing.entry = NoEntry /\ DOMAIN NoJournal = {"entry"}
      /\ NoJournal.entry = NoEntry
    BY DEF Missing, NoJournal
<1>2. \A f \in File : "text" \in DOMAIN f /\ f.text \in Texts \cup {Blank}
        /\ f.entry \in Entries \cup {NoEntry}
    BY DEF File
<1>3. \A j \in Journal : "base" \in DOMAIN j BY DEF Journal
<1>4. \A j \in Journal : /\ j.base \in File \cup {Missing} /\ j.target \in File
                         /\ j.entry \in Entries /\ j.previous \in Entries \cup {NoEntry}
    BY DEF Journal
<1>5. Missing \notin File /\ NoJournal \notin Journal BY <1>1, <1>2, <1>3
<1>6. \A f \in File : TextOf(f) = f.text BY <1>5 DEF TextOf
<1>7. TextOf(Missing) = Blank BY DEF TextOf
<1>. QED BY <1>1, <1>2, <1>4, <1>5, <1>6, <1>7

(* An executable's entry is neither the user's nor none.                    *)
LEMMA ExecutablesAreOurs ==
    \A p \in Setups : /\ SetupOp[p].exe \in Entries /\ SetupOp[p].exe \notin {NoEntry, ForeignEntry}
                      /\ SetupOp[p].remove \in BOOLEAN
BY SetupAssumption DEF Entries

(* What a plan writes is a file of the same text.                           *)
LEMMA PlansAreFiles ==
    ASSUME NEW f \in File \cup {Missing}
    PROVE  /\ \A e \in Entries : /\ write_entry(f, e) \in File /\ write_entry(f, e).entry = e
                                 /\ TextOf(write_entry(f, e)) = TextOf(f)
           /\ f # Missing => /\ remove_entry(f) \in File /\ remove_entry(f).entry = NoEntry
                             /\ TextOf(remove_entry(f)) = TextOf(f)
<1>1. TextOf(f) \in Texts \cup {Blank} BY FilesAreFiles
<1>2. ASSUME NEW e \in Entries
      PROVE  /\ write_entry(f, e) \in File /\ write_entry(f, e).entry = e
             /\ TextOf(write_entry(f, e)) = TextOf(f)
    <2>1. /\ write_entry(f, e) \in File /\ write_entry(f, e).entry = e
          /\ write_entry(f, e).text = TextOf(f)
        BY <1>1, <1>2 DEF write_entry, File
    <2>. QED BY <2>1, FilesAreFiles
<1>3. ASSUME f # Missing
      PROVE  /\ remove_entry(f) \in File /\ remove_entry(f).entry = NoEntry
             /\ TextOf(remove_entry(f)) = TextOf(f)
    <2>1. /\ remove_entry(f) \in File /\ remove_entry(f).entry = NoEntry
          /\ remove_entry(f).text = f.text
        BY <1>3 DEF remove_entry, File
    <2>. QED BY <2>1, <1>3, FilesAreFiles
<1>. QED BY <1>2, <1>3

-----------------------------------------------------------------------------

Stops == {"idle"} \cup InLock \cup SetupOver
OthersStay(p) == \A q \in Setups : q # p => setup'[q] = setup[q]

LEMMA ProcessMoves ==
    ASSUME NEW p \in Setups, NEW at \in Stops, SetupTypeOK, SetupMoves(p, at)
    PROVE  /\ setup' \in [Setups -> Process] /\ OthersStay(p)
           /\ setup'[p].at = at /\ setup'[p].base = setup[p].base
           /\ setup'[p].target = setup[p].target /\ setup'[p].finishing = setup[p].finishing
BY DEF SetupMoves, SetupTypeOK, Process, Stops, OthersStay

LEMMA ProcessFields ==
    SetupTypeOK => \A p \in Setups : /\ setup[p].at \in Stops /\ setup[p].finishing \in BOOLEAN
                                     /\ setup[p].base \in File \cup {Missing}
                                     /\ setup[p].target \in File \cup {Missing}
BY DEF SetupTypeOK, Process, Stops

(* The others rest while one holds the lock.                                *)
LEMMA OneStepsAlone ==
    ASSUME NEW p \in Setups, OneInLock, OthersStay(p),
           \A q \in Setups : setup[q].at \in InLock => q = p
    PROVE  /\ OneInLock' /\ \A q \in Setups : q # p => StepIsSound(q)'
<1>1. \A q \in Setups : q # p => setup'[q].at \notin InLock BY DEF OthersStay
<1>2. OneInLock' BY <1>1 DEF OneInLock
<1>3. ASSUME NEW q \in Setups, q # p PROVE StepIsSound(q)'
    BY <1>1, <1>3 DEF StepIsSound, InLock
<1>. QED BY <1>2, <1>3

-----------------------------------------------------------------------------
(* The steps, one by one: what a step does to the files, and what it leaves *)
(* true of the process that takes it.                                       *)

LEMMA AcquireKeeps ==
    ASSUME NEW p \in Setups, SetupInv, acquire_lock(p)
    PROVE  SetupInv'
<1>0. SetupTypeOK BY DEF SetupInv, RegistrationIsOwned
<1>1. StepIsSound(p) /\ OneInLock /\ JournalIsSound BY DEF SetupInv, SetupParts
<1>2. /\ setup' \in [Setups -> Process] /\ OthersStay(p)
      /\ setup'[p].at = "recover" /\ setup'[p].base = setup[p].base /\ setup'[p].target = setup[p].target
    <2>1. "recover" \in Stops BY DEF Stops, InLock, SetupOver
    <2>. QED BY <1>0, <2>1, ProcessMoves DEF acquire_lock
<1>3. SetupTypeOK'
    BY <1>0, <1>2, FilesAreFiles DEF acquire_lock, SetupTypeOK, UserIsQuiet
<1>4. (RegistrationIsOwned /\ SavesAreKept /\ JournalIsSound)'
    BY <1>0, <1>1, <1>2, <1>3, FilesAreFiles
       DEF acquire_lock, SetupInv, RegistrationIsOwned, SavesAreKept, JournalIsSound, UserIsQuiet,
       SetupAt, StepIsSound
<1>5. StepIsSound(p)'
    BY <1>1, <1>2 DEF acquire_lock, StepIsSound, PlanIsSound, UserIsQuiet, SetupAt
<1>6. \A q \in Setups : setup[q].at \in InLock => q = p
    BY DEF acquire_lock
<1>7. OneInLock' /\ \A q \in Setups : q # p => StepIsSound(q)' BY <1>1, <1>2, <1>6, OneStepsAlone
<1>. QED BY <1>4, <1>5, <1>7 DEF SetupInv, SetupParts

LEMMA ReconcileKeeps ==
    ASSUME NEW p \in Setups, SetupInv, reconcile_pending(p)
    PROVE  SetupInv'
<1>0. SetupTypeOK BY DEF SetupInv, RegistrationIsOwned
<1>1. StepIsSound(p) /\ OneInLock /\ JournalIsSound BY DEF SetupInv, SetupParts
<1>2. /\ setup' \in [Setups -> Process] /\ OthersStay(p)
      /\ setup'[p].at
           = IF journal # NoJournal THEN Verdict ELSE IF setup[p].finishing THEN "verify" ELSE "plan"
      /\ setup'[p].base = setup[p].base /\ setup'[p].target = setup[p].target
    <2> DEFINE at == IF journal # NoJournal THEN Verdict ELSE IF setup[p].finishing THEN "verify" ELSE "plan"
    <2>1. at \in Stops BY DEF Verdict, Stops, InLock, SetupOver
    <2>2. SetupMoves(p, at) BY DEF reconcile_pending
    <2>. HIDE DEF at
    <2>3. /\ setup' \in [Setups -> Process] /\ OthersStay(p) /\ setup'[p].at = at
          /\ setup'[p].base = setup[p].base /\ setup'[p].target = setup[p].target
        BY <1>0, <2>1, <2>2, ProcessMoves
    <2>. QED BY <2>3 DEF at
<1>3. SetupTypeOK'
    BY <1>0, <1>2, FilesAreFiles DEF reconcile_pending, SetupTypeOK, UserIsQuiet
<1>4. (RegistrationIsOwned /\ SavesAreKept /\ JournalIsSound)'
    BY <1>0, <1>1, <1>2, <1>3, FilesAreFiles
       DEF reconcile_pending, SetupInv, RegistrationIsOwned, SavesAreKept, JournalIsSound,
       UserIsQuiet, SetupAt, StepIsSound
<1>5. StepIsSound(p)'
    <2>1. CASE journal = NoJournal
        BY <1>0, <1>1, <1>2, <2>1 DEF reconcile_pending, StepIsSound, UserIsQuiet
    <2>2. CASE journal # NoJournal
        <3>1. wrote => config.entry \in {receipt, journal.entry} /\ config.entry # NoEntry
            BY <1>1 DEF SetupInv, RegistrationIsOwned, JournalIsSound
        <3>2. /\ journal.target.entry = journal.entry /\ journal.base.entry # journal.entry
            BY <1>1, <2>2 DEF JournalIsSound
        <3>3. /\ Verdict \in {"write receipt", "clear journal", "refused"}
              /\ Verdict = "write receipt" /\ wrote => config.entry = journal.entry
              /\ Verdict = "clear journal" /\ wrote => config.entry = receipt
            BY <3>1, <3>2 DEF Verdict
        <3>4. setup'[p].at = Verdict BY <1>2, <2>2
        <3>5. UNCHANGED <<config, journal, receipt, wrote>> BY DEF reconcile_pending
        <3>. QED BY <2>2, <3>3, <3>4, <3>5 DEF StepIsSound
    <2>. QED BY <2>1, <2>2
<1>6. \A q \in Setups : setup[q].at \in InLock => q = p
    BY <1>1 DEF reconcile_pending, SetupAt, InLock, OneInLock
<1>7. OneInLock' /\ \A q \in Setups : q # p => StepIsSound(q)' BY <1>1, <1>2, <1>6, OneStepsAlone
<1>. QED BY <1>4, <1>5, <1>7 DEF SetupInv, SetupParts

LEMMA WriteReceiptKeeps ==
    ASSUME NEW p \in Setups, SetupInv, write_receipt(p)
    PROVE  SetupInv'
<1>0. SetupTypeOK BY DEF SetupInv, RegistrationIsOwned
<1>1. StepIsSound(p) /\ OneInLock /\ JournalIsSound BY DEF SetupInv, SetupParts
<1>2. /\ setup' \in [Setups -> Process] /\ OthersStay(p)
      /\ setup'[p].at = "clear journal" /\ setup'[p].base = setup[p].base
      /\ setup'[p].target = setup[p].target
    <2>1. "clear journal" \in Stops BY DEF Stops, InLock, SetupOver
    <2>. QED BY <1>0, <2>1, ProcessMoves DEF write_receipt
<1>3. SetupTypeOK'
    BY <1>0, <1>2, FilesAreFiles DEF write_receipt, SetupTypeOK, UserIsQuiet
<1>4. (RegistrationIsOwned /\ SavesAreKept /\ JournalIsSound)'
    BY <1>0, <1>1, <1>2, <1>3, FilesAreFiles
       DEF write_receipt, SetupInv, RegistrationIsOwned, SavesAreKept, JournalIsSound, UserIsQuiet,
       SetupAt, StepIsSound
<1>5. StepIsSound(p)'
    BY <1>1, <1>2 DEF write_receipt, StepIsSound, PlanIsSound, UserIsQuiet, SetupAt
<1>6. \A q \in Setups : setup[q].at \in InLock => q = p
    BY <1>1 DEF write_receipt, SetupAt, InLock, OneInLock
<1>7. OneInLock' /\ \A q \in Setups : q # p => StepIsSound(q)' BY <1>1, <1>2, <1>6, OneStepsAlone
<1>. QED BY <1>4, <1>5, <1>7 DEF SetupInv, SetupParts

LEMMA ClearJournalKeeps ==
    ASSUME NEW p \in Setups, SetupInv, clear_pending(p)
    PROVE  SetupInv'
<1>0. SetupTypeOK BY DEF SetupInv, RegistrationIsOwned
<1>1. StepIsSound(p) /\ OneInLock /\ JournalIsSound BY DEF SetupInv, SetupParts
<1> DEFINE at == IF setup[p].finishing THEN "verify" ELSE "plan"
<1>2. /\ setup' \in [Setups -> Process] /\ OthersStay(p)
      /\ setup'[p].at = at /\ setup'[p].base = setup[p].base /\ setup'[p].target = setup[p].target
    <2>1. at \in Stops BY DEF Stops, InLock, SetupOver
    <2>2. SetupMoves(p, at) BY DEF clear_pending
    <2>. HIDE DEF at
    <2>. QED BY <1>0, <2>1, <2>2, ProcessMoves
<1>3. SetupTypeOK'
    BY <1>0, <1>2, FilesAreFiles DEF clear_pending, SetupTypeOK, UserIsQuiet
<1>4. (RegistrationIsOwned /\ SavesAreKept /\ JournalIsSound)'
    BY <1>0, <1>1, <1>2, <1>3, FilesAreFiles
       DEF clear_pending, SetupInv, RegistrationIsOwned, SavesAreKept, JournalIsSound, UserIsQuiet,
       SetupAt, StepIsSound
<1>5. StepIsSound(p)'
    BY <1>1, <1>2 DEF clear_pending, StepIsSound, PlanIsSound, UserIsQuiet, SetupAt
<1>6. \A q \in Setups : setup[q].at \in InLock => q = p
    BY <1>1 DEF clear_pending, SetupAt, InLock, OneInLock
<1>7. OneInLock' /\ \A q \in Setups : q # p => StepIsSound(q)' BY <1>1, <1>2, <1>6, OneStepsAlone
<1>. QED BY <1>4, <1>5, <1>7 DEF SetupInv, SetupParts

LEMMA FinalizeKeeps ==
    ASSUME NEW p \in Setups, SetupInv, finalize_pending(p)
    PROVE  SetupInv'
<1>0. SetupTypeOK BY DEF SetupInv, RegistrationIsOwned
<1>1. StepIsSound(p) /\ OneInLock /\ JournalIsSound BY DEF SetupInv, SetupParts
<1> DEFINE at == IF receipt = SetupOp[p].exe THEN "done" ELSE "refused"
<1>2. /\ setup' \in [Setups -> Process] /\ OthersStay(p)
      /\ setup'[p].at = at /\ setup'[p].base = setup[p].base /\ setup'[p].target = setup[p].target
    <2>1. at \in Stops BY DEF Stops, InLock, SetupOver
    <2>2. SetupMoves(p, at) BY DEF finalize_pending
    <2>. HIDE DEF at
    <2>. QED BY <1>0, <2>1, <2>2, ProcessMoves
<1>3. SetupTypeOK'
    BY <1>0, <1>2, FilesAreFiles DEF finalize_pending, SetupTypeOK, UserIsQuiet
<1>4. (RegistrationIsOwned /\ SavesAreKept /\ JournalIsSound)'
    BY <1>0, <1>1, <1>2, <1>3, FilesAreFiles
       DEF finalize_pending, SetupInv, RegistrationIsOwned, SavesAreKept, JournalIsSound,
       UserIsQuiet, SetupAt, StepIsSound
<1>5. StepIsSound(p)'
    BY <1>1, <1>2 DEF finalize_pending, StepIsSound, PlanIsSound, UserIsQuiet, SetupAt
<1>6. \A q \in Setups : setup[q].at \in InLock => q = p
    BY <1>1 DEF finalize_pending, SetupAt, InLock, OneInLock
<1>7. OneInLock' /\ \A q \in Setups : q # p => StepIsSound(q)' BY <1>1, <1>2, <1>6, OneStepsAlone
<1>. QED BY <1>4, <1>5, <1>7 DEF SetupInv, SetupParts

LEMMA PlanKeeps ==
    ASSUME NEW p \in Setups, SetupInv, plan(p)
    PROVE  SetupInv'
<1>0. SetupTypeOK BY DEF SetupInv, RegistrationIsOwned
<1>1. StepIsSound(p) /\ OneInLock /\ JournalIsSound BY DEF SetupInv, SetupParts
<1> DEFINE stop == plan_to_stop(p)
           goal == IF stop # "write backup" THEN Missing
                   ELSE IF SetupOp[p].remove THEN remove_entry(config)
                   ELSE write_entry(config, SetupOp[p].exe)
<1>a. /\ stop \in {"done", "clear receipt", "write backup", "refused"}
      /\ stop = "clear receipt" => config.entry = NoEntry
      /\ stop = "write backup" /\ SetupOp[p].remove => config.entry # NoEntry /\ config.entry = receipt
      /\ stop = "write backup" /\ ~SetupOp[p].remove =>
             config.entry # SetupOp[p].exe /\ config.entry \in {NoEntry, receipt}
    BY ExecutablesAreOurs DEF plan_to_stop
<1>b. setup' = [setup EXCEPT ![p] = [at |-> stop, finishing |-> FALSE, base |-> config, target |-> goal]]
    BY DEF plan
<1>. HIDE DEF stop
<1>c. config \in File \cup {Missing} BY <1>0 DEF SetupTypeOK
<1>d. stop = "write backup" =>
          /\ goal \in File /\ TextOf(goal) = TextOf(config)
          /\ ~SetupOp[p].remove => goal.entry = SetupOp[p].exe
    <2>1. CASE SetupOp[p].remove BY <1>a, <1>c, <2>1, PlansAreFiles, FilesAreFiles
    <2>2. CASE ~SetupOp[p].remove BY <1>a, <1>c, <2>2, PlansAreFiles, ExecutablesAreOurs
    <2>. QED BY <2>1, <2>2
<1>e. goal \in File \cup {Missing} BY <1>d
<1>. HIDE DEF goal
<1>2. /\ setup' \in [Setups -> Process] /\ OthersStay(p)
      /\ setup'[p].at = stop /\ setup'[p].base = config /\ setup'[p].target = goal
    <2>1. stop \in Stops BY <1>a DEF Stops, InLock, SetupOver
    <2>2. [at |-> stop, finishing |-> FALSE, base |-> config, target |-> goal] \in Process
        BY <2>1, <1>c, <1>e DEF Process, Stops
    <2>. QED BY <1>0, <1>b, <2>2 DEF SetupTypeOK, OthersStay
<1>3. SetupTypeOK'
    BY <1>0, <1>2, FilesAreFiles DEF plan, SetupTypeOK, UserIsQuiet
<1>4. (RegistrationIsOwned /\ SavesAreKept /\ JournalIsSound)'
    BY <1>1, <1>3 DEF plan, SetupInv, RegistrationIsOwned, SavesAreKept, JournalIsSound, UserIsQuiet
<1>5. StepIsSound(p)'
    <2>1. UNCHANGED <<config, journal, receipt, wrote>> /\ journal = NoJournal
        BY <1>1 DEF plan, StepIsSound, SetupAt
    <2>2. wrote => config.entry # NoEntry BY <1>1 DEF JournalIsSound
    <2>3. stop = "write backup" => PlanIsSound(p)'
        BY <1>2, <1>a, <1>d, <2>1, ExecutablesAreOurs DEF PlanIsSound
    <2>. QED BY <1>2, <1>a, <2>1, <2>2, <2>3 DEF StepIsSound
<1>6. \A q \in Setups : setup[q].at \in InLock => q = p
    BY <1>1 DEF plan, SetupAt, InLock, OneInLock
<1>7. OneInLock' /\ \A q \in Setups : q # p => StepIsSound(q)' BY <1>1, <1>2, <1>6, OneStepsAlone
<1>. QED BY <1>4, <1>5, <1>7 DEF SetupInv, SetupParts

LEMMA WriteBackupKeeps ==
    ASSUME NEW p \in Setups, SetupInv, write_backup(p)
    PROVE  SetupInv'
<1>0. SetupTypeOK BY DEF SetupInv, RegistrationIsOwned
<1>1. StepIsSound(p) /\ OneInLock /\ JournalIsSound BY DEF SetupInv, SetupParts
<1> DEFINE at == IF SetupOp[p].remove THEN "check" ELSE "write journal"
<1>2. /\ setup' \in [Setups -> Process] /\ OthersStay(p)
      /\ setup'[p].at = at /\ setup'[p].base = setup[p].base /\ setup'[p].target = setup[p].target
    <2>1. at \in Stops BY DEF Stops, InLock, SetupOver
    <2>2. SetupMoves(p, at) BY DEF write_backup
    <2>. HIDE DEF at
    <2>. QED BY <1>0, <2>1, <2>2, ProcessMoves
<1>3. SetupTypeOK'
    <2>1. backup' \in File \cup {Missing} BY <1>0, ProcessFields DEF write_backup, SetupTypeOK
    <2>. QED BY <1>0, <1>2, <2>1 DEF write_backup, SetupTypeOK, UserIsQuiet
<1>4. (RegistrationIsOwned /\ SavesAreKept /\ JournalIsSound)'
    BY <1>0, <1>1, <1>2, <1>3, FilesAreFiles
       DEF write_backup, SetupInv, RegistrationIsOwned, SavesAreKept, JournalIsSound, UserIsQuiet,
       SetupAt, StepIsSound
<1>5. StepIsSound(p)'
    BY <1>1, <1>2 DEF write_backup, StepIsSound, PlanIsSound, UserIsQuiet, SetupAt
<1>6. \A q \in Setups : setup[q].at \in InLock => q = p
    BY <1>1 DEF write_backup, SetupAt, InLock, OneInLock
<1>7. OneInLock' /\ \A q \in Setups : q # p => StepIsSound(q)' BY <1>1, <1>2, <1>6, OneStepsAlone
<1>. QED BY <1>4, <1>5, <1>7 DEF SetupInv, SetupParts

LEMMA WriteJournalKeeps ==
    ASSUME NEW p \in Setups, SetupInv, write_pending(p)
    PROVE  SetupInv'
<1>0. SetupTypeOK BY DEF SetupInv, RegistrationIsOwned
<1>1. StepIsSound(p) /\ OneInLock /\ JournalIsSound BY DEF SetupInv, SetupParts
<1>2. /\ setup' \in [Setups -> Process] /\ OthersStay(p)
      /\ setup'[p].at = "check" /\ setup'[p].base = setup[p].base /\ setup'[p].target = setup[p].target
    <2>1. "check" \in Stops BY DEF Stops, InLock, SetupOver
    <2>. QED BY <1>0, <2>1, ProcessMoves DEF write_pending
<1>3. SetupTypeOK'
    <2>1. PlanIsSound(p) BY <1>1 DEF write_pending, SetupAt, StepIsSound
    <2>2. journal' \in Journal
        BY <1>0, <2>1, ProcessFields, ExecutablesAreOurs
           DEF write_pending, SetupTypeOK, PlanIsSound, Journal
    <2>. QED BY <1>0, <1>2, <2>2 DEF write_pending, SetupTypeOK, UserIsQuiet
<1>4. (RegistrationIsOwned /\ SavesAreKept /\ JournalIsSound)'
    <2>1. /\ PlanIsSound(p) /\ ~SetupOp[p].remove /\ journal = NoJournal
          /\ setup[p].base # Missing => backup = setup[p].base
        BY <1>1 DEF write_pending, SetupAt, StepIsSound
    <2>2. /\ journal'.base = setup[p].base /\ journal'.target = setup[p].target
          /\ journal'.entry = SetupOp[p].exe /\ UNCHANGED <<config, backup, receipt, wrote, saved, late>>
        BY DEF write_pending, UserIsQuiet
    <2>3. wrote => config.entry = receipt
        BY <1>1, <2>1, FilesAreFiles DEF SetupInv, RegistrationIsOwned, JournalIsSound
    <2>4. JournalIsSound' BY <1>1, <2>1, <2>2, ExecutablesAreOurs DEF JournalIsSound, PlanIsSound
    <2>5. RegistrationIsOwned' BY <1>3, <2>1, <2>2, <2>3 DEF RegistrationIsOwned
    <2>6. SavesAreKept' BY <2>2 DEF SetupInv, SavesAreKept
    <2>. QED BY <2>4, <2>5, <2>6
<1>5. StepIsSound(p)'
    <2>1. PlanIsSound(p) /\ ~SetupOp[p].remove BY <1>1 DEF write_pending, SetupAt, StepIsSound
    <2>2. journal' \in Journal /\ journal'.entry = SetupOp[p].exe /\ receipt' = receipt
        BY <1>0, <2>1, ProcessFields, ExecutablesAreOurs
           DEF write_pending, SetupTypeOK, PlanIsSound, Journal
    <2>3. PlanIsSound(p)' BY <1>2, <2>1, <2>2 DEF PlanIsSound
    <2>. QED BY <1>2, <2>1, <2>2, <2>3, FilesAreFiles DEF StepIsSound
<1>6. \A q \in Setups : setup[q].at \in InLock => q = p
    BY <1>1 DEF write_pending, SetupAt, InLock, OneInLock
<1>7. OneInLock' /\ \A q \in Setups : q # p => StepIsSound(q)' BY <1>1, <1>2, <1>6, OneStepsAlone
<1>. QED BY <1>4, <1>5, <1>7 DEF SetupInv, SetupParts

LEMMA CheckKeeps ==
    ASSUME NEW p \in Setups, SetupInv, check_snapshot(p)
    PROVE  SetupInv'
<1>0. SetupTypeOK BY DEF SetupInv, RegistrationIsOwned
<1>1. StepIsSound(p) /\ OneInLock /\ JournalIsSound BY DEF SetupInv, SetupParts
<1> DEFINE at == IF ensure_snapshot_matches(setup[p].base) THEN "rename" ELSE "refused"
<1>2. /\ setup' \in [Setups -> Process] /\ OthersStay(p)
      /\ setup'[p].at = at /\ setup'[p].base = setup[p].base /\ setup'[p].target = setup[p].target
    <2>1. at \in Stops BY DEF Stops, InLock, SetupOver
    <2>2. SetupMoves(p, at) BY DEF check_snapshot
    <2>. HIDE DEF at
    <2>. QED BY <1>0, <2>1, <2>2, ProcessMoves
<1>3. SetupTypeOK'
    BY <1>0, <1>2, FilesAreFiles DEF check_snapshot, SetupTypeOK, UserIsQuiet
<1>4. (RegistrationIsOwned /\ SavesAreKept /\ JournalIsSound)'
    BY <1>0, <1>1, <1>2, <1>3, FilesAreFiles
       DEF check_snapshot, SetupInv, RegistrationIsOwned, SavesAreKept, JournalIsSound, UserIsQuiet,
       SetupAt, StepIsSound
<1>5. StepIsSound(p)'
    BY <1>1, <1>2 DEF check_snapshot, ensure_snapshot_matches, StepIsSound, PlanIsSound, UserIsQuiet,
       SetupAt
<1>6. \A q \in Setups : setup[q].at \in InLock => q = p
    BY <1>1 DEF check_snapshot, SetupAt, InLock, OneInLock
<1>7. OneInLock' /\ \A q \in Setups : q # p => StepIsSound(q)' BY <1>1, <1>2, <1>6, OneStepsAlone
<1>. QED BY <1>4, <1>5, <1>7 DEF SetupInv, SetupParts

LEMMA RenameKeeps ==
    ASSUME NEW p \in Setups, SetupInv, replace_config(p)
    PROVE  SetupInv'
<1>0. SetupTypeOK BY DEF SetupInv, RegistrationIsOwned
<1>1. StepIsSound(p) /\ OneInLock /\ JournalIsSound BY DEF SetupInv, SetupParts
<1> DEFINE at == IF SetupOp[p].remove THEN "clear receipt" ELSE "recover"
<1>2. /\ setup' \in [Setups -> Process] /\ OthersStay(p) /\ setup'[p].at = at
    <2>1. at \in Stops /\ (~SetupOp[p].remove) \in BOOLEAN BY ExecutablesAreOurs
            DEF Stops, InLock, SetupOver
    <2>2. setup' = [setup EXCEPT ![p].at = at, ![p].finishing = ~SetupOp[p].remove] BY DEF replace_config
    <2>. HIDE DEF at
    <2>. QED BY <1>0, <2>1, <2>2 DEF SetupTypeOK, Process, OthersStay, Stops
<1>p. /\ PlanIsSound(p)
      /\ ~late => config = setup[p].base
      /\ ~SetupOp[p].remove => journal # NoJournal /\ journal.entry = SetupOp[p].exe
      /\ SetupOp[p].remove => journal = NoJournal
    BY <1>1 DEF replace_config, SetupAt, StepIsSound
<1>q. /\ config' = setup[p].target /\ wrote' = ~SetupOp[p].remove
      /\ UNCHANGED <<backup, journal, receipt, saved, late>>
    BY DEF replace_config, UserIsQuiet
<1>3. SetupTypeOK'
    BY <1>0, <1>2, <1>p, <1>q, ExecutablesAreOurs DEF SetupTypeOK, PlanIsSound
<1>4. (RegistrationIsOwned /\ SavesAreKept /\ JournalIsSound)'
    <2>1. ~SetupOp[p].remove => /\ config'.entry = SetupOp[p].exe /\ journal.entry = SetupOp[p].exe
                                /\ config'.entry # NoEntry
        BY <1>p, <1>q, ExecutablesAreOurs DEF PlanIsSound
    <2>2. JournalIsSound' BY <1>1, <1>q, <2>1 DEF JournalIsSound
    <2>3. RegistrationIsOwned' BY <1>3, <1>q, <2>1 DEF SetupInv, RegistrationIsOwned
    <2>4. ASSUME ~late' PROVE SavesAreKept'
        <3>1. config = setup[p].base BY <1>p, <1>q, <2>4
        <3>2. /\ TextOf(config) = TextOf(saved.file)
              /\ (saved.file.entry = ForeignEntry => config.entry = ForeignEntry)
            BY <1>q, <2>4 DEF SetupInv, SavesAreKept
        <3>3. config.entry # ForeignEntry
            BY <1>1, <1>p, <3>1, SetupAssumption DEF PlanIsSound, JournalIsSound
        <3>4. TextOf(setup[p].target) = TextOf(config) BY <1>p, <3>1 DEF PlanIsSound
        <3>. QED BY <1>q, <3>2, <3>3, <3>4 DEF SavesAreKept
    <2>5. SavesAreKept' BY <2>4 DEF SavesAreKept
    <2>. QED BY <2>2, <2>3, <2>5
<1>5. StepIsSound(p)'
    BY <1>2, <1>p, <1>q DEF StepIsSound
<1>6. \A q \in Setups : setup[q].at \in InLock => q = p
    BY <1>1 DEF replace_config, SetupAt, InLock, OneInLock
<1>7. OneInLock' /\ \A q \in Setups : q # p => StepIsSound(q)' BY <1>1, <1>2, <1>6, OneStepsAlone
<1>. QED BY <1>4, <1>5, <1>7 DEF SetupInv, SetupParts

LEMMA ClearReceiptKeeps ==
    ASSUME NEW p \in Setups, SetupInv, clear_receipt(p)
    PROVE  SetupInv'
<1>0. SetupTypeOK BY DEF SetupInv, RegistrationIsOwned
<1>1. StepIsSound(p) /\ OneInLock /\ JournalIsSound BY DEF SetupInv, SetupParts
<1>2. /\ setup' \in [Setups -> Process] /\ OthersStay(p)
      /\ setup'[p].at = "done" /\ setup'[p].base = setup[p].base /\ setup'[p].target = setup[p].target
    <2>1. "done" \in Stops BY DEF Stops, InLock, SetupOver
    <2>. QED BY <1>0, <2>1, ProcessMoves DEF clear_receipt
<1>3. SetupTypeOK'
    BY <1>0, <1>2, FilesAreFiles DEF clear_receipt, SetupTypeOK, UserIsQuiet
<1>4. (RegistrationIsOwned /\ SavesAreKept /\ JournalIsSound)'
    <2>1. ~wrote /\ journal = NoJournal BY <1>1 DEF clear_receipt, SetupAt, StepIsSound
    <2>2. UNCHANGED <<config, backup, journal, wrote, saved, late>> /\ receipt' = NoEntry
        BY DEF clear_receipt, UserIsQuiet
    <2>3. JournalIsSound' BY <1>1, <2>1, <2>2, SetupAssumption DEF JournalIsSound
    <2>4. RegistrationIsOwned' BY <1>3, <2>1, <2>2 DEF RegistrationIsOwned
    <2>5. SavesAreKept' BY <2>2 DEF SetupInv, SavesAreKept
    <2>. QED BY <2>3, <2>4, <2>5
<1>5. StepIsSound(p)'
    BY <1>1, <1>2 DEF clear_receipt, StepIsSound, PlanIsSound, UserIsQuiet, SetupAt
<1>6. \A q \in Setups : setup[q].at \in InLock => q = p
    BY <1>1 DEF clear_receipt, SetupAt, InLock, OneInLock
<1>7. OneInLock' /\ \A q \in Setups : q # p => StepIsSound(q)' BY <1>1, <1>2, <1>6, OneStepsAlone
<1>. QED BY <1>4, <1>5, <1>7 DEF SetupInv, SetupParts

LEMMA StopKeeps ==
    ASSUME NEW p \in Setups, SetupInv, SetupStops(p)
    PROVE  SetupInv'
<1>0. SetupTypeOK BY DEF SetupInv, RegistrationIsOwned
<1>1. StepIsSound(p) /\ OneInLock /\ JournalIsSound BY DEF SetupInv, SetupParts
<1>2. /\ setup' \in [Setups -> Process] /\ OthersStay(p)
      /\ setup'[p].at = "dead" /\ setup'[p].base = setup[p].base /\ setup'[p].target = setup[p].target
    <2>1. "dead" \in Stops BY DEF Stops, InLock, SetupOver
    <2>. QED BY <1>0, <2>1, ProcessMoves DEF SetupStops
<1>3. SetupTypeOK'
    BY <1>0, <1>2, FilesAreFiles DEF SetupStops, SetupTypeOK, UserIsQuiet
<1>4. (RegistrationIsOwned /\ SavesAreKept /\ JournalIsSound)'
    BY <1>0, <1>1, <1>2, <1>3, FilesAreFiles
       DEF SetupStops, SetupInv, RegistrationIsOwned, SavesAreKept, JournalIsSound, UserIsQuiet,
       SetupAt, StepIsSound
<1>5. StepIsSound(p)'
    BY <1>1, <1>2 DEF SetupStops, StepIsSound, PlanIsSound, UserIsQuiet, SetupAt
<1>6. \A q \in Setups : setup[q].at \in InLock => q = p
    BY <1>1 DEF SetupStops, SetupAt, InLock, OneInLock
<1>7. OneInLock' /\ \A q \in Setups : q # p => StepIsSound(q)' BY <1>1, <1>2, <1>6, OneStepsAlone
<1>. QED BY <1>4, <1>5, <1>7 DEF SetupInv, SetupParts

LEMMA UserSavesKeeps ==
    ASSUME NEW f \in File \cup {Missing}, SetupInv, UserSaves(f)
    PROVE  SetupInv'
<1>0. SetupTypeOK BY DEF SetupInv, RegistrationIsOwned
<1>1. OneInLock /\ JournalIsSound /\ \A p \in Setups : StepIsSound(p) BY DEF SetupInv, SetupParts
<1>2. /\ config' = f /\ saved'.file = f /\ UNCHANGED <<backup, journal, receipt, setup>>
      /\ late' = \E p \in Setups : setup[p].at = "rename"
      /\ wrote' => wrote /\ f.entry = config.entry
    BY DEF UserSaves, SetupAt
<1>3. SetupTypeOK'
    <2>1. saved.count \in 0 .. MaxSaves /\ saved.count + 1 \in 0 .. MaxSaves
        BY <1>0, SetupAssumption DEF SetupTypeOK, UserSaves
    <2>2. saved' \in [file : File \cup {Missing}, count : 0 .. MaxSaves] BY <2>1 DEF UserSaves
    <2>3. late' \in BOOLEAN /\ wrote' \in BOOLEAN BY DEF UserSaves
    <2>. QED BY <1>0, <1>2, <2>2, <2>3 DEF SetupTypeOK
<1>4. RegistrationIsOwned' /\ SavesAreKept' /\ JournalIsSound'
    BY <1>1, <1>2, <1>3 DEF SetupInv, RegistrationIsOwned, SavesAreKept, JournalIsSound
<1>5. OneInLock' BY <1>1, <1>2 DEF OneInLock
<1>6. ASSUME NEW p \in Setups PROVE StepIsSound(p)'
    <2>1. PlanIsSound(p) => PlanIsSound(p)' BY <1>2 DEF PlanIsSound
    <2>. QED BY <1>1, <1>2, <2>1 DEF StepIsSound
<1>. QED BY <1>4, <1>5, <1>6 DEF SetupInv, SetupParts

LEMMA SetupStarts == SetupInit => SetupInv
<1>. SUFFICES ASSUME SetupInit PROVE SetupInv OBVIOUS
<1>1. \A p \in Setups : setup[p].at = "idle" BY DEF SetupInit
<1>2. SetupTypeOK
    <2>1. [at |-> "idle", finishing |-> FALSE, base |-> Missing, target |-> Missing] \in Process BY
            DEF Process
    <2>2. [file |-> Missing, count |-> 0] \in [file : File \cup {Missing}, count : 0 .. MaxSaves]
        BY SetupAssumption
    <2>. QED BY <2>1, <2>2 DEF SetupInit, SetupTypeOK
<1>3. RegistrationIsOwned /\ SavesAreKept BY <1>2 DEF SetupInit, RegistrationIsOwned, SavesAreKept
<1>4. OneInLock /\ \A p \in Setups : StepIsSound(p) BY <1>1 DEF OneInLock, StepIsSound, InLock
<1>5. JournalIsSound BY SetupAssumption DEF SetupInit, JournalIsSound
<1>. QED BY <1>3, <1>4, <1>5 DEF SetupInv, SetupParts

LEMMA SetupKeeps == SetupInv /\ [SetupNext]_setupVars => SetupInv'
<1>. SUFFICES ASSUME SetupInv, [SetupNext]_setupVars PROVE SetupInv' OBVIOUS
<1>1. ASSUME NEW p \in Setups, SetupStep(p) PROVE SetupInv'
    BY <1>1, AcquireKeeps, ReconcileKeeps, WriteReceiptKeeps, ClearJournalKeeps, FinalizeKeeps, PlanKeeps,
       WriteBackupKeeps, WriteJournalKeeps, CheckKeeps, RenameKeeps, ClearReceiptKeeps DEF SetupStep
<1>2. ASSUME NEW p \in Setups, SetupStops(p) PROVE SetupInv' BY <1>2, StopKeeps
<1>3. ASSUME NEW f \in File \cup {Missing}, UserSaves(f) PROVE SetupInv' BY <1>3, UserSavesKeeps
<1>4. CASE UNCHANGED setupVars
    <2>1. UNCHANGED <<config, backup, journal, receipt, setup, saved, late, wrote>> BY <1>4 DEF setupVars
    <2>2. RegistrationIsOwned' /\ SavesAreKept'
        BY <2>1 DEF SetupInv, RegistrationIsOwned, SavesAreKept, SetupTypeOK
    <2>3. OneInLock' /\ JournalIsSound' BY <2>1 DEF SetupInv, SetupParts, OneInLock, JournalIsSound
    <2>4. ASSUME NEW p \in Setups PROVE StepIsSound(p)'
        BY <2>1 DEF SetupInv, SetupParts, StepIsSound, PlanIsSound
    <2>. QED BY <2>2, <2>3, <2>4 DEF SetupInv, SetupParts
<1>. QED BY <1>1, <1>2, <1>3, <1>4 DEF SetupNext

LEMMA SetupPart == FilesSpec => SetupInit /\ [][SetupNext]_setupVars
<1>1. FilesInit => SetupInit BY DEF FilesInit
<1>2. [FilesNext]_fileVars => [SetupNext]_setupVars BY DEF FilesNext, fileVars
<1>. QED BY <1>1, <1>2, PTL DEF FilesSpec

(* Wherever a setup or a removal died, and whatever the user saved around   *)
(* it, an entry AI Fuel wrote is one that the receipt or the journal knows, *)
(* and the backup is the file the journal speaks of: for any number of      *)
(* processes, any executables and any bound on the saves.                   *)
THEOREM RegistrationStaysOwned == FilesSpec => []RegistrationIsOwned
<1>1. SetupInv => RegistrationIsOwned BY DEF SetupInv
<1>. QED BY <1>1, SetupPart, SetupStarts, SetupKeeps, PTL

(* What the user saved last is still there, and an entry of the user's own  *)
(* is neither replaced nor removed, unless the save fell between the last   *)
(* look at the file and the rename.                                         *)
THEOREM SavesStayKept == FilesSpec => []SavesAreKept
<1>1. SetupInv => SavesAreKept BY DEF SetupInv
<1>. QED BY <1>1, SetupPart, SetupStarts, SetupKeeps, PTL

-----------------------------------------------------------------------------
(* The quota webhooks.                                                      *)

CollectorState ==
    [at : {"idle", "collected", "post", "cache", "save", "done", "dead"}, report : Usage \cup {NoReport},
     marks : Marks, dirty : BOOLEAN, pending : HookEvents]

HooksTyped ==
    /\ marks \in Marks /\ unsure \in BOOLEAN
    /\ cache \subseteq {Reporter[c] : c \in Collectors}
    /\ collector \in [Collectors -> CollectorState]
    /\ told \in [Targets -> Seq(HookKinds)] /\ posted \in [Targets -> Seq(HookKinds)]

(* What was decided for an endpoint is posted or with a call that posts.     *)
Owing(i, k) ==
    {c \in Collectors : /\ HookAt(c, "post") /\ i \in DOMAIN collector[c].pending
                        /\ collector[c].pending[i] = k}
PostsAreOwed ==
    \A i \in Targets, k \in HookKinds :
        /\ IsFiniteSet(Owing(i, k))
        /\ CountOf(posted[i], k) + Cardinality(Owing(i, k)) <= CountOf(told[i], k)

(* One call at a time has compared and not saved; what it is about to tell   *)
(* an endpoint that hears of everything is how its marks differ.             *)
Hears(i) == Endpoints[i].events = HookKinds
Differs(c, i) == (Endpoints[i].threshold \in collector[c].marks) # (Endpoints[i].threshold \in marks)
ComparisonHolds(c) ==
    /\ ~collector[c].dirty => collector[c].marks = marks
    /\ \A i \in Targets : Hears(i) =>
           /\ i \in DOMAIN collector[c].pending <=> FirstOf(i) /\ Differs(c, i)
           /\ i \in DOMAIN collector[c].pending =>
                  collector[c].pending[i] = IF Endpoints[i].threshold \in collector[c].marks
                                            THEN "threshold_crossed" ELSE "quota_reset"

SavesAreExclusive ==
    \A c, d \in Collectors : HookAt(c, "save") /\ HookAt(d, "save") => c = d

(* The last word an endpoint was told is what the mark says.                 *)
MarkIsTold(i) ==
    /\ \A j \in 1 .. Len(told[i]) : told[i][j] = IF j % 2 = 1 THEN "threshold_crossed" ELSE "quota_reset"
    /\ FirstOf(i) => (Endpoints[i].threshold \in marks <=> Len(told[i]) % 2 = 1)

MarksAreTold ==
    ~unsure => /\ SavesAreExclusive
               /\ \A c \in Collectors : HookAt(c, "save") => ComparisonHolds(c)
               /\ \A i \in Targets : Hears(i) => MarkIsTold(i)

HooksInv == HooksTyped /\ PostsAreOwed /\ MarksAreTold

-----------------------------------------------------------------------------
LEMMA CountOfAppend ==
    ASSUME NEW s \in Seq(HookKinds), NEW e \in HookKinds, NEW k \in HookKinds
    PROVE  /\ CountOf(s, k) \in Nat
           /\ CountOf(Append(s, e), k) = CountOf(s, k) + (IF e = k THEN 1 ELSE 0)
<1> DEFINE At(u) == {j \in 1 .. Len(u) : u[j] = k}
<1>1. IsFiniteSet(1 .. Len(s)) BY FS_Interval
<1>2. IsFiniteSet(At(s)) /\ Cardinality(At(s)) \in Nat BY <1>1, FS_Subset, FS_CardinalityType
<1>3. CountOf(s, k) = Cardinality(At(s)) /\ CountOf(Append(s, e), k) = Cardinality(At(Append(s, e)))
    BY DEF CountOf
<1>4. CASE e = k
    <2>1. At(Append(s, e)) = At(s) \cup {Len(s) + 1} BY <1>4
    <2>2. Len(s) + 1 \notin At(s) OBVIOUS
    <2>. HIDE DEF At
    <2>3. Cardinality(At(Append(s, e))) = Cardinality(At(s)) + 1 BY <1>2, <2>1, <2>2, FS_AddElement
    <2>. QED BY <1>2, <1>3, <1>4, <2>3
<1>5. CASE e # k
    <2>1. At(Append(s, e)) = At(s) BY <1>5
    <2>. HIDE DEF At
    <2>. QED BY <1>2, <1>3, <1>5, <2>1
<1>. QED BY <1>4, <1>5

LEMMA NoneOwed == IsFiniteSet({}) /\ Cardinality({}) = 0 /\ \A k : CountOf(<< >>, k) = 0
<1>1. \A k : {j \in 1 .. Len(<< >>) : << >>[j] = k} = {} OBVIOUS
<1>. QED BY <1>1, FS_EmptySet DEF CountOf

LEMMA EndpointIsTyped ==
    ASSUME NEW i \in Targets
    PROVE  /\ Endpoints[i].threshold \in Nat /\ Endpoints[i].threshold \in Thresholds
           /\ Endpoints[i].events \in SUBSET HookKinds
<1> DEFINE T == [threshold : Nat, events : SUBSET HookKinds]
<1>1. i \in 1 .. Len(Endpoints) /\ Endpoints \in Seq(T) BY HooksAssumption DEF Targets
<1>2. Endpoints[i] \in T
    <2>. HIDE DEF T
    <2>. QED BY <1>1
<1>. QED BY <1>2 DEF Targets, Thresholds

LEMMA NoEventsAreEvents == NoEvents \in HookEvents /\ DOMAIN NoEvents = {}
<1>1. NoEvents \in [{} -> HookKinds] BY DEF NoEvents, HookKinds
<1>2. {} \in SUBSET Targets OBVIOUS
<1>3. [{} -> HookKinds] \in {[S -> HookKinds] : S \in SUBSET Targets} BY <1>2
<1>. QED BY <1>1, <1>3 DEF HookEvents, NoEvents

LEMMA EventsHaveTargets ==
    ASSUME NEW q \in HookEvents
    PROVE  DOMAIN q \in SUBSET Targets /\ \A i \in DOMAIN q : q[i] \in HookKinds
BY DEF HookEvents

LEMMA FewerOwed ==
    ASSUME HooksTyped, PostsAreOwed, UNCHANGED <<told, posted>>, \A i, k :
             Owing(i, k)' \in SUBSET Owing(i, k)
    PROVE  PostsAreOwed'
<1>1. ASSUME NEW i \in Targets, NEW k \in HookKinds
      PROVE  /\ IsFiniteSet(Owing(i, k)')
             /\ CountOf(posted'[i], k) + Cardinality(Owing(i, k)') <= CountOf(told'[i], k)
    <2>1. /\ IsFiniteSet(Owing(i, k))
          /\ CountOf(posted[i], k) + Cardinality(Owing(i, k)) <= CountOf(told[i], k)
          /\ CountOf(posted[i], k) \in Nat /\ CountOf(told[i], k) \in Nat
        BY CountOfAppend DEF PostsAreOwed, HooksTyped
    <2>2. /\ IsFiniteSet(Owing(i, k)') /\ Cardinality(Owing(i, k)') <= Cardinality(Owing(i, k))
        BY <2>1, FS_Subset
    <2>3. Cardinality(Owing(i, k)') \in Nat /\ Cardinality(Owing(i, k)) \in Nat
        BY <2>1, <2>2, FS_CardinalityType
    <2>. QED BY <2>1, <2>2, <2>3
<1>. QED BY <1>1 DEF PostsAreOwed

LEMMA MarksStay ==
    ASSUME MarksAreTold, UNCHANGED <<marks, told, unsure>>,
           \A d \in Collectors : HookAt(d, "save")' => HookAt(d, "save") /\ collector'[d] = collector[d]
    PROVE  MarksAreTold'
<1>1. ASSUME ~unsure PROVE MarksAreTold'
    <2>1. SavesAreExclusive' BY <1>1 DEF MarksAreTold, SavesAreExclusive
    <2>2. ASSUME NEW d \in Collectors, HookAt(d, "save")' PROVE ComparisonHolds(d)'
        <3>1. ComparisonHolds(d) /\ collector'[d] = collector[d] BY <1>1, <2>2 DEF MarksAreTold
        <3>. QED BY <3>1 DEF ComparisonHolds, Differs
    <2>3. ASSUME NEW i \in Targets, Hears(i) PROVE MarkIsTold(i)'
        BY <1>1, <2>3 DEF MarksAreTold, MarkIsTold
    <2>. QED BY <2>1, <2>2, <2>3 DEF MarksAreTold
<1>. QED BY <1>1 DEF MarksAreTold

(* A move that changes no marks and tells nobody, of a call that is not      *)
(* about to save and owes no more than it did.                               *)
LEMMA MoveKeeps ==
    ASSUME HooksInv, NEW c \in Collectors, NEW x \in CollectorState,
           collector' = [collector EXCEPT ![c] = x], x.at \notin {"save", "post"},
           UNCHANGED <<marks, told, posted, unsure>>, cache' \subseteq {Reporter[d] : d \in Collectors}
    PROVE  HooksInv'
<1>1. HooksTyped' BY DEF HooksInv, HooksTyped
<1>2. \A d \in Collectors : collector'[d] = IF d = c THEN x ELSE collector[d] BY DEF HooksInv, HooksTyped
<1>3. ASSUME NEW i, NEW k PROVE Owing(i, k)' \in SUBSET Owing(i, k) BY <1>2 DEF Owing, HookAt
<1>4. PostsAreOwed' BY <1>3, FewerOwed DEF HooksInv
<1>5. \A d \in Collectors : HookAt(d, "save")' => HookAt(d, "save") /\ collector'[d] = collector[d]
    BY <1>2 DEF HookAt
<1>6. MarksAreTold' BY <1>5, MarksStay DEF HooksInv
<1>. QED BY <1>1, <1>4, <1>6 DEF HooksInv

LEMMA ServeHonest == ASSUME HooksInv, NEW c \in Collectors, Serve(c) \/ StoreReport(c) PROVE HooksInv'
<1> DEFINE x == [collector[c] EXCEPT !.at = "done"]
<1>1. /\ collector' = [collector EXCEPT ![c] = x] /\ UNCHANGED <<marks, told, posted, unsure>>
      /\ cache' = cache \/ cache' = cache \cup {Reporter[c]}
    BY DEF Serve, StoreReport, HookMoves
<1>2. x \in CollectorState /\ x.at = "done" BY DEF HooksInv, HooksTyped, CollectorState
<1>3. cache' \subseteq {Reporter[d] : d \in Collectors} BY <1>1 DEF HooksInv, HooksTyped
<1>. HIDE DEF x
<1>. QED BY <1>1, <1>2, <1>3, MoveKeeps

LEMMA CollectHonest ==
    ASSUME HooksInv, NEW c \in Collectors, NEW used \in Usage, Collect(c, used) PROVE HooksInv'
<1> DEFINE x == [collector[c] EXCEPT !.at = "collected", !.report = used]
<1>1. /\ collector' = [collector EXCEPT ![c] = x] /\ UNCHANGED <<marks, told, posted, unsure>>
      /\ cache' = cache
    BY DEF Collect
<1>2. x \in CollectorState /\ x.at = "collected" BY DEF HooksInv, HooksTyped, CollectorState
<1>3. cache' \subseteq {Reporter[d] : d \in Collectors} BY <1>1 DEF HooksInv, HooksTyped
<1>. HIDE DEF x
<1>. QED BY <1>1, <1>2, <1>3, MoveKeeps

LEMMA LoadHonest == ASSUME HooksInv, NEW c \in Collectors, LoadMarks(c) PROVE HooksInv'
<1>0. PICK found \in {marks, {}} :
         /\ LET left == Compared(collector[c].report, found)
            IN collector' = [collector EXCEPT ![c] =
                   [at |-> "save", report |-> NoReport, marks |-> left.marks,
                    dirty |-> left.marks # found, pending |-> left.pending]]
         /\ unsure' = (unsure \/ found # marks \/ \E d \in Collectors : HookAt(d, "save"))
    BY DEF LoadMarks
<1> DEFINE used == collector[c].report
           left == Compared(used, found)
           x == [at |-> "save", report |-> NoReport, marks |-> left.marks,
                 dirty |-> left.marks # found, pending |-> left.pending]
           above(i) == used >= Endpoints[i].threshold
           kind(i) == IF above(i) THEN "threshold_crossed" ELSE "quota_reset"
           S == {i \in Targets : /\ FirstOf(i) /\ above(i) # (Endpoints[i].threshold \in found)
                                 /\ kind(i) \in Endpoints[i].events}
<1>1. /\ collector' = [collector EXCEPT ![c] = x] /\ HookAt(c, "collected")
      /\ unsure' = (unsure \/ found # marks \/ \E d \in Collectors : HookAt(d, "save"))
      /\ UNCHANGED <<cache, marks, told, posted>>
    BY <1>0 DEF LoadMarks
<1>2. /\ left.marks = {t \in Thresholds : t \in Marked(found, t, used >= t)}
      /\ left.pending = [i \in S |-> kind(i)]
    BY DEF Compared
<1>3. \A i \in Targets : above(i) \in BOOLEAN /\ (Endpoints[i].threshold \in left.marks <=> above(i))
    <2>1. ASSUME NEW i \in Targets PROVE Endpoints[i].threshold \in left.marks <=> above(i)
        <3>1. Endpoints[i].threshold \in Thresholds BY EndpointIsTyped
        <3>2. Endpoints[i].threshold \in left.marks
                <=> Endpoints[i].threshold \in Marked(found, Endpoints[i].threshold, above(i))
            BY <1>2, <3>1
        <3>. QED BY <3>2 DEF Marked
    <2>. QED BY <2>1
<1>4. left.marks \in Marks BY <1>2 DEF Marks
<1>5. /\ left.pending \in HookEvents /\ DOMAIN left.pending = S
      /\ \A i \in S : left.pending[i] = kind(i)
    <2>1. \A i \in S : kind(i) \in HookKinds BY DEF HookKinds
    <2>2. S \in SUBSET Targets OBVIOUS
    <2>. HIDE DEF S, kind
    <2>3. [i \in S |-> kind(i)] \in [S -> HookKinds] BY <2>1
    <2>. QED BY <1>2, <2>2, <2>3 DEF HookEvents
<1> DEFINE differs == left.marks # found
<1>6. /\ x \in CollectorState /\ x.at = "save" /\ x.marks = left.marks /\ x.pending = left.pending
      /\ x.dirty = differs
    <2>1. NoReport \in Usage \cup {NoReport} /\ differs \in BOOLEAN OBVIOUS
    <2>2. x = [at |-> "save", report |-> NoReport, marks |-> left.marks, dirty |-> differs,
               pending |-> left.pending]
        OBVIOUS
    <2>. HIDE DEF x, left, differs
    <2>. QED BY <1>4, <1>5, <2>1, <2>2 DEF CollectorState
<1>. HIDE DEF x, left, S, kind, above, differs, used
<1>7. \A d \in Collectors : collector'[d] = IF d = c THEN x ELSE collector[d]
    BY <1>1 DEF HooksInv, HooksTyped
<1>8. HooksTyped' BY <1>1, <1>6 DEF HooksInv, HooksTyped
<1>9. PostsAreOwed'
    <2>1. ASSUME NEW i, NEW k PROVE Owing(i, k)' = Owing(i, k) BY <1>1, <1>6, <1>7 DEF Owing, HookAt
    <2>. QED BY <1>1, <2>1 DEF HooksInv, PostsAreOwed
<1>10. ASSUME ~unsure' PROVE MarksAreTold'
    <2>1. ~unsure /\ found = marks /\ \A d \in Collectors : ~HookAt(d, "save") BY <1>1, <1>10
    <2>2. \A d \in Collectors : HookAt(d, "save")' => d = c BY <1>7, <2>1 DEF HookAt
    <2>3. ComparisonHolds(c)'
        <3>1. collector'[c] = x BY <1>7
        <3>2. ~x.dirty => x.marks = marks BY <1>6, <2>1 DEF differs
        <3>3. ASSUME NEW i \in Targets, Hears(i)
              PROVE  /\ i \in DOMAIN x.pending <=> FirstOf(i) /\ Differs(c, i)'
                     /\ i \in DOMAIN x.pending =>
                            x.pending[i] = IF Endpoints[i].threshold \in x.marks
                                           THEN "threshold_crossed" ELSE "quota_reset"
            <4>1. kind(i) \in Endpoints[i].events BY <3>3 DEF kind, Hears, HookKinds
            <4>2. i \in S <=> FirstOf(i) /\ above(i) # (Endpoints[i].threshold \in marks)
                BY <2>1, <4>1 DEF S
            <4>3. Differs(c, i)' <=> above(i) # (Endpoints[i].threshold \in marks)
                <5>1. Differs(c,
                        i)' <=> ((Endpoints[i].threshold \in left.marks) # (Endpoints[i].threshold \in marks))
                    BY <1>1, <1>6, <3>1 DEF Differs
                <5>2. above(i) \in BOOLEAN /\ (Endpoints[i].threshold \in left.marks <=> above(i)) BY <1>3
                <5>3. CASE above(i) = TRUE BY <5>1, <5>2, <5>3
                <5>4. CASE above(i) = FALSE BY <5>1, <5>2, <5>4
                <5>. QED BY <5>2, <5>3, <5>4
            <4>. QED BY <1>3, <1>5, <1>6, <4>2, <4>3 DEF kind
        <3>. QED BY <1>1, <3>1, <3>2, <3>3 DEF ComparisonHolds
    <2>4. ASSUME NEW i \in Targets, Hears(i) PROVE MarkIsTold(i)'
        BY <1>1, <2>1, <2>4 DEF HooksInv, MarksAreTold, MarkIsTold
    <2>. QED BY <2>2, <2>3, <2>4 DEF MarksAreTold, SavesAreExclusive
<1>11. MarksAreTold' BY <1>10 DEF MarksAreTold
<1>. QED BY <1>8, <1>9, <1>11 DEF HooksInv

LEMMA SaveHonest == ASSUME HooksInv, NEW c \in Collectors, SaveMarks(c) PROVE HooksInv'
<1> DEFINE queue == collector[c].pending
           x == [collector[c] EXCEPT !.at = "post", !.marks = {}, !.dirty = FALSE]
<1>1. /\ collector' = [collector EXCEPT ![c] = x] /\ HookAt(c, "save") /\ UNCHANGED <<cache, posted>>
      /\ told' = [i \in Targets |-> IF i \in DOMAIN queue THEN Append(told[i], queue[i]) ELSE told[i]]
      /\ \/ collector[c].dirty /\ marks' = collector[c].marks /\ UNCHANGED unsure
         \/ collector[c].dirty /\ UNCHANGED marks /\ unsure' = TRUE
         \/ ~collector[c].dirty /\ UNCHANGED <<marks, unsure>>
    BY DEF SaveMarks
<1>2. /\ collector[c] \in CollectorState /\ queue \in HookEvents
      /\ DOMAIN queue \in SUBSET Targets /\ \A i \in DOMAIN queue : queue[i] \in HookKinds
    BY EventsHaveTargets DEF HooksInv, HooksTyped, CollectorState
<1>3. x \in CollectorState /\ x.at = "post" /\ x.pending = queue
    <2>1. {} \in Marks BY DEF Marks
    <2>. QED BY <1>2, <2>1 DEF CollectorState
<1>. HIDE DEF x
<1>4. \A d \in Collectors : collector'[d] = IF d = c THEN x ELSE collector[d]
    BY <1>1 DEF HooksInv, HooksTyped
<1>5. \A i \in Targets : /\ told[i] \in Seq(HookKinds) /\ posted[i] \in Seq(HookKinds)
                         /\ told'[i] = IF i \in DOMAIN queue THEN Append(told[i], queue[i]) ELSE told[i]
                         /\ told'[i] \in Seq(HookKinds)
    <2>1. told \in [Targets -> Seq(HookKinds)] /\ posted \in [Targets -> Seq(HookKinds)]
        BY DEF HooksInv, HooksTyped
    <2>2. ASSUME NEW i \in Targets
          PROVE  /\ told[i] \in Seq(HookKinds) /\ posted[i] \in Seq(HookKinds)
                 /\ told'[i] = IF i \in DOMAIN queue THEN Append(told[i], queue[i]) ELSE told[i]
        BY <1>1, <2>1
    <2>3. ASSUME NEW i \in Targets PROVE told'[i] \in Seq(HookKinds)
        <3>. HIDE DEF queue
        <3>1. CASE i \in DOMAIN queue
            <4>1. queue[i] \in HookKinds BY <1>2, <3>1
            <4>2. told'[i] = Append(told[i], queue[i]) /\ told[i] \in Seq(HookKinds) BY <2>2, <3>1
            <4>. QED BY <4>1, <4>2
        <3>2. CASE i \notin DOMAIN queue BY <2>2, <3>2
        <3>. QED BY <3>1, <3>2
    <2>. QED BY <2>2, <2>3
<1>. HIDE DEF queue
<1>6. HooksTyped'
    <2>1. marks' \in Marks /\ unsure' \in BOOLEAN BY <1>1, <1>2 DEF HooksInv, HooksTyped, CollectorState
    <2>2. collector' \in [Collectors -> CollectorState] BY <1>1, <1>3 DEF HooksInv, HooksTyped
    <2>3. told' = [i \in Targets |-> told'[i]] BY <1>1
    <2>4. told' \in [Targets -> Seq(HookKinds)] BY <1>5, <2>3
    <2>. QED BY <1>1, <2>1, <2>2, <2>4 DEF HooksInv, HooksTyped
<1>7. ASSUME NEW i \in Targets, NEW k \in HookKinds
      PROVE  /\ IsFiniteSet(Owing(i, k)')
             /\ CountOf(posted'[i], k) + Cardinality(Owing(i, k)') <= CountOf(told'[i], k)
    <2>1. /\ IsFiniteSet(Owing(i, k))
          /\ CountOf(posted[i], k) + Cardinality(Owing(i, k)) <= CountOf(told[i], k)
          /\ Cardinality(Owing(i, k)) \in Nat /\ CountOf(posted[i], k) \in Nat
          /\ CountOf(told[i], k) \in Nat
        BY <1>5, CountOfAppend, FS_CardinalityType DEF HooksInv, PostsAreOwed
    <2>2. c \notin Owing(i, k) BY <1>1 DEF Owing, HookAt
    <2>3. CASE i \in DOMAIN queue /\ queue[i] = k
        <3>1. Owing(i, k)' = Owing(i, k) \cup {c} BY <1>3, <1>4, <2>3 DEF Owing, HookAt
        <3>2. /\ IsFiniteSet(Owing(i, k)') /\ Cardinality(Owing(i, k)') = Cardinality(Owing(i, k)) + 1
            BY <2>1, <2>2, <3>1, FS_AddElement
        <3>3. CountOf(told'[i], k) = CountOf(told[i], k) + 1 BY <1>5, <2>3, CountOfAppend
        <3>. QED BY <1>1, <2>1, <3>2, <3>3
    <2>4. CASE ~(i \in DOMAIN queue /\ queue[i] = k)
        <3>1. Owing(i, k)' = Owing(i, k) BY <1>1, <1>3, <1>4, <2>4 DEF Owing, HookAt
        <3>2. CountOf(told'[i], k) = CountOf(told[i], k)
            <4>1. CASE i \in DOMAIN queue
                <5>1. queue[i] \in HookKinds /\ queue[i] # k BY <1>2, <2>4, <4>1
                <5>2. CountOf(Append(told[i], queue[i]), k) = CountOf(told[i], k) + 0
                    BY <1>5, <5>1, CountOfAppend
                <5>. QED BY <1>5, <2>1, <4>1, <5>2
            <4>2. CASE i \notin DOMAIN queue BY <1>5, <4>2
            <4>. QED BY <4>1, <4>2
        <3>. QED BY <1>1, <2>1, <3>1, <3>2
    <2>. QED BY <2>3, <2>4
<1>8. ASSUME ~unsure' PROVE MarksAreTold'
    <2>1. /\ ~unsure /\ ComparisonHolds(c) /\ marks' = collector[c].marks
          /\ \A d \in Collectors : HookAt(d, "save") => d = c
        <3>1. ~unsure BY <1>1, <1>8
        <3>2. ComparisonHolds(c) /\ \A d \in Collectors : HookAt(d, "save") => d = c
            BY <1>1, <3>1 DEF HooksInv, MarksAreTold, SavesAreExclusive
        <3>3. marks' = collector[c].marks BY <1>1, <1>8, <3>2 DEF ComparisonHolds
        <3>. QED BY <3>1, <3>2, <3>3
    <2>2. \A d \in Collectors : ~HookAt(d, "save")' BY <1>3, <1>4, <2>1 DEF HookAt
    <2>3. ASSUME NEW i \in Targets, Hears(i) PROVE MarkIsTold(i)'
        <3> DEFINE t == Endpoints[i].threshold
                   kind == IF t \in marks' THEN "threshold_crossed" ELSE "quota_reset"
                   n == Len(told[i])
        <3>1. /\ n \in Nat /\ told[i] \in Seq(HookKinds)
              /\ \A j \in 1 .. n : told[i][j] = IF j % 2 = 1 THEN "threshold_crossed" ELSE "quota_reset"
              /\ FirstOf(i) => (t \in marks <=> n % 2 = 1)
            <4>1. MarkIsTold(i) BY <2>1, <2>3 DEF HooksInv, MarksAreTold
            <4>2. n \in Nat /\ told[i] \in Seq(HookKinds) BY <1>5
            <4>. QED BY <4>1, <4>2 DEF MarkIsTold
        <3>2. /\ i \in DOMAIN queue <=> FirstOf(i) /\ ((t \in marks') # (t \in marks))
              /\ i \in DOMAIN queue => queue[i] = kind
            BY <2>1, <2>3 DEF ComparisonHolds, Differs, queue
        <3>. HIDE DEF t, n
        <3>3. CASE i \in DOMAIN queue
            <4>1. told'[i] = Append(told[i], kind) /\ kind \in HookKinds
                BY <1>5, <3>2, <3>3 DEF HookKinds
            <4>2. /\ Len(told'[i]) = n + 1 /\ told'[i][n + 1] = kind
                  /\ \A j \in 1 .. n : told'[i][j] = told[i][j]
                BY <3>1, <4>1 DEF n
            <4>3. t \in marks' <=> (n + 1) % 2 = 1
                <5>1. FirstOf(i) /\ (t \in marks' <=> ~(t \in marks)) BY <3>2, <3>3
                <5>2. n % 2 = 1 <=> ~((n + 1) % 2 = 1) BY <3>1
                <5>. QED BY <3>1, <5>1, <5>2
            <4>4. ASSUME NEW j \in 1 .. Len(told'[i])
                  PROVE  told'[i][j] = IF j % 2 = 1 THEN "threshold_crossed" ELSE "quota_reset"
                <5>1. CASE j = n + 1 BY <4>2, <4>3, <5>1
                <5>2. CASE j # n + 1
                    <6>1. j \in 1 .. n BY <3>1, <4>2, <5>2
                    <6>. QED BY <3>1, <4>2, <6>1
                <5>. QED BY <5>1, <5>2
            <4>. QED BY <4>2, <4>3, <4>4 DEF MarkIsTold, t
        <3>4. CASE i \notin DOMAIN queue
            <4>1. told'[i] = told[i] BY <1>5, <3>4
            <4>2. FirstOf(i) => (t \in marks' <=> t \in marks) BY <3>2, <3>4
            <4>. QED BY <3>1, <4>1, <4>2 DEF MarkIsTold, t, n
        <3>. QED BY <3>3, <3>4
    <2>. QED BY <2>2, <2>3 DEF MarksAreTold, SavesAreExclusive
<1>9. MarksAreTold' BY <1>8 DEF MarksAreTold
<1>. QED BY <1>6, <1>7, <1>9 DEF HooksInv, PostsAreOwed

LEMMA PostHonest == ASSUME HooksInv, NEW c \in Collectors, Post(c) PROVE HooksInv'
<1> DEFINE queue == collector[c].pending
<1>1. /\ collector[c] \in CollectorState /\ queue \in HookEvents /\ HookAt(c, "post")
      /\ DOMAIN queue \in SUBSET Targets /\ \A i \in DOMAIN queue : queue[i] \in HookKinds
      /\ UNCHANGED <<cache, marks, told, unsure>>
    BY EventsHaveTargets DEF HooksInv, HooksTyped, CollectorState, Post
<1>2. CASE HookMoves(c, "cache") /\ UNCHANGED posted
    <2> DEFINE x == [collector[c] EXCEPT !.at = "cache"]
    <2>1. collector' = [collector EXCEPT ![c] = x] BY <1>2 DEF HookMoves
    <2>2. x \in CollectorState /\ x.at = "cache" BY <1>1 DEF CollectorState
    <2>3. cache' \subseteq {Reporter[d] : d \in Collectors} BY <1>1 DEF HooksInv, HooksTyped
    <2>. HIDE DEF x
    <2>. QED BY <1>1, <1>2, <2>1, <2>2, <2>3, MoveKeeps
<1>3. ASSUME NEW t \in DOMAIN queue, posted' = [posted EXCEPT ![t] = Append(@, queue[t])],
             collector' = [collector EXCEPT ![c].pending = [j \in DOMAIN queue \ {t} |-> queue[j]]]
      PROVE  HooksInv'
    <2> DEFINE rest == [j \in DOMAIN queue \ {t} |-> queue[j]]
               x == [collector[c] EXCEPT !.pending = rest]
    <2>1. collector' = [collector EXCEPT ![c] = x] BY <1>3
    <2>2. rest \in HookEvents /\ DOMAIN rest = DOMAIN queue \ {t} /\ \A j \in DOMAIN rest :
            rest[j] = queue[j]
        <3> DEFINE S == DOMAIN queue \ {t}
        <3>1. rest \in [S -> HookKinds] /\ S \in SUBSET Targets BY <1>1
        <3>. HIDE DEF S, rest
        <3>2. rest \in HookEvents BY <3>1 DEF HookEvents
        <3>. QED BY <3>2 DEF S, rest
    <2>. HIDE DEF rest
    <2>3. x \in CollectorState /\ x.at = "post" /\ x.pending = rest
        BY <1>1, <2>2 DEF CollectorState, HookAt
    <2>. HIDE DEF x
    <2>4. \A d \in Collectors : collector'[d] = IF d = c THEN x ELSE collector[d]
        BY <2>1 DEF HooksInv, HooksTyped
    <2>5. /\ t \in Targets /\ queue[t] \in HookKinds
          /\ \A i \in Targets : told[i] \in Seq(HookKinds) /\ posted[i] \in Seq(HookKinds)
          /\ posted'[t] = Append(posted[t], queue[t]) /\ posted'[t] \in Seq(HookKinds)
          /\ \A i \in Targets : i # t => posted'[i] = posted[i]
        <3>1. t \in Targets /\ queue[t] \in HookKinds BY <1>1, <1>3
        <3>2. told \in [Targets -> Seq(HookKinds)] /\ posted \in [Targets -> Seq(HookKinds)]
            BY DEF HooksInv, HooksTyped
        <3>. HIDE DEF queue
        <3>3. posted'[t] = Append(posted[t], queue[t]) BY <1>3, <3>1, <3>2
        <3>4. \A i \in Targets : told[i] \in Seq(HookKinds) /\ posted[i] \in Seq(HookKinds) BY <3>2
        <3>5. Append(posted[t], queue[t]) \in Seq(HookKinds) BY <3>1, <3>4
        <3>6. \A i \in Targets : i # t => posted'[i] = posted[i] BY <1>3, <3>2
        <3>. QED BY <3>1, <3>3, <3>4, <3>5, <3>6
    <2>6. HooksTyped'
        <3>1. posted' = [i \in Targets |-> posted'[i]] BY <1>3 DEF HooksInv, HooksTyped
        <3>2. \A i \in Targets : posted'[i] \in Seq(HookKinds) BY <2>5
        <3>3. posted' \in [Targets -> Seq(HookKinds)] BY <3>1, <3>2
        <3>4. collector' \in [Collectors -> CollectorState] BY <2>1, <2>3 DEF HooksInv, HooksTyped
        <3>. QED BY <1>1, <3>3, <3>4 DEF HooksInv, HooksTyped
    <2>7. ASSUME NEW i \in Targets, NEW k \in HookKinds
          PROVE  /\ IsFiniteSet(Owing(i, k)')
                 /\ CountOf(posted'[i], k) + Cardinality(Owing(i, k)') <= CountOf(told'[i], k)
        <3>1. /\ IsFiniteSet(Owing(i, k))
              /\ CountOf(posted[i], k) + Cardinality(Owing(i, k)) <= CountOf(told[i], k)
              /\ Cardinality(Owing(i, k)) \in Nat /\ CountOf(posted[i], k) \in Nat
              /\ CountOf(told[i], k) \in Nat
            BY <2>5, CountOfAppend, FS_CardinalityType DEF HooksInv, PostsAreOwed
        <3>2. CASE i = t /\ queue[t] = k
            <4>1. c \in Owing(i, k) BY <1>1, <1>3, <3>2 DEF Owing
            <4>2. Owing(i, k)' = Owing(i, k) \ {c} BY <2>2, <2>3, <2>4, <3>2 DEF Owing, HookAt
            <4>3. IsFiniteSet(Owing(i, k)') /\ Cardinality(Owing(i, k)') = Cardinality(Owing(i, k)) - 1
                BY <3>1, <4>1, <4>2, FS_RemoveElement
            <4>4. CountOf(posted'[i], k) = CountOf(posted[i], k) + 1
                <5>1. posted[t] \in Seq(HookKinds) /\ queue[t] \in HookKinds BY <2>5
                <5>2. CountOf(Append(posted[t], queue[t]), k) = CountOf(posted[t], k) + 1
                    BY <3>2, <5>1, CountOfAppend
                <5>. HIDE DEF queue
                <5>. QED BY <2>5, <3>2, <5>2
            <4>. QED BY <1>1, <3>1, <4>3, <4>4
        <3>3. CASE ~(i = t /\ queue[t] = k)
            <4>1. Owing(i, k)' = Owing(i, k) BY <1>1, <1>3, <2>2, <2>3, <2>4, <3>3 DEF Owing, HookAt
            <4>2. CountOf(posted'[i], k) = CountOf(posted[i], k)
                <5>1. CASE i = t
                    <6>1. queue[t] # k BY <3>3, <5>1
                    <6>2. CountOf(Append(posted[t], queue[t]), k) = CountOf(posted[t], k) + 0
                        BY <2>5, <6>1, CountOfAppend
                    <6>3. posted'[i] = Append(posted[t], queue[t]) BY <2>5, <5>1
                    <6>. HIDE DEF queue
                    <6>. QED BY <3>1, <5>1, <6>2, <6>3
                <5>2. CASE i # t BY <2>5, <5>2
                <5>. QED BY <5>1, <5>2
            <4>. QED BY <1>1, <3>1, <4>1, <4>2
        <3>. QED BY <3>2, <3>3
    <2>8. \A d \in Collectors : HookAt(d, "save")' => HookAt(d, "save") /\ collector'[d] = collector[d]
        BY <1>1, <2>3, <2>4 DEF HookAt
    <2>9. MarksAreTold' BY <1>1, <2>8, MarksStay DEF HooksInv
    <2>. QED BY <2>6, <2>7, <2>9 DEF HooksInv, PostsAreOwed
<1>4. \/ HookMoves(c, "cache") /\ UNCHANGED posted
      \/ \E i \in DOMAIN queue :
             /\ posted' = [posted EXCEPT ![i] = Append(@, queue[i])]
             /\ collector' = [collector EXCEPT ![c].pending = [j \in DOMAIN queue \ {i} |-> queue[j]]]
    BY DEF Post
<1>. QED BY <1>2, <1>3, <1>4

LEMMA DeathHonest == ASSUME HooksInv, NEW p, ReporterDies(p) PROVE HooksInv'
<1>1. /\ collector' = [d \in Collectors |-> IF Reporter[d] = p /\ collector[d].at \notin {"idle", "done"}
                                            THEN [collector[d] EXCEPT !.at = "dead"] ELSE collector[d]]
      /\ cache' = cache \ {p} /\ UNCHANGED <<marks, told, posted, unsure>>
    BY DEF ReporterDies
<1>2. ASSUME NEW d \in Collectors
      PROVE  /\ collector'[d] \in CollectorState
             /\ (collector'[d] = collector[d] \/ collector'[d].at = "dead")
    BY <1>1 DEF HooksInv, HooksTyped, CollectorState
<1>3. HooksTyped'
    <2>1. collector' = [d \in Collectors |-> collector'[d]] BY <1>1
    <2>2. collector' \in [Collectors -> CollectorState] BY <1>2, <2>1
    <2>. QED BY <1>1, <2>2 DEF HooksInv, HooksTyped
<1>4. PostsAreOwed'
    <2>1. ASSUME NEW i, NEW k PROVE Owing(i, k)' \in SUBSET Owing(i, k) BY <1>2 DEF Owing, HookAt
    <2>. QED BY <1>1, <2>1, FewerOwed DEF HooksInv
<1>5. \A d \in Collectors : HookAt(d, "save")' => HookAt(d, "save") /\ collector'[d] = collector[d]
    BY <1>2 DEF HookAt
<1>6. MarksAreTold' BY <1>1, <1>5, MarksStay DEF HooksInv
<1>. QED BY <1>3, <1>4, <1>6 DEF HooksInv

LEMMA HooksStart == HooksInit => HooksInv
<1>. SUFFICES ASSUME HooksInit PROVE HooksInv OBVIOUS
<1> DEFINE x == [at |-> "idle", report |-> NoReport, marks |-> {}, dirty |-> FALSE, pending |-> NoEvents]
<1>1. /\ marks = {} /\ unsure = FALSE /\ cache = {} /\ collector = [c \in Collectors |-> x]
      /\ told = [i \in Targets |-> << >>] /\ posted = [i \in Targets |-> << >>]
    BY DEF HooksInit
<1>2. x \in CollectorState /\ x.at = "idle"
    BY NoEventsAreEvents DEF CollectorState, Marks
<1>. HIDE DEF x
<1>3. << >> \in Seq(HookKinds) OBVIOUS
<1>4. HooksTyped BY <1>1, <1>2, <1>3 DEF HooksTyped, Marks
<1>5. PostsAreOwed
    <2>1. ASSUME NEW i \in Targets, NEW k PROVE Owing(i, k) = {} /\ told[i] = << >> /\ posted[i] = << >>
        BY <1>1, <1>2 DEF Owing, HookAt
    <2>2. ASSUME NEW i \in Targets, NEW k \in HookKinds
          PROVE  /\ IsFiniteSet(Owing(i, k))
                 /\ CountOf(posted[i], k) + Cardinality(Owing(i, k)) <= CountOf(told[i], k)
        <3>1. Cardinality(Owing(i, k)) = 0 /\ CountOf(posted[i], k) = 0 /\ CountOf(told[i], k) = 0
            BY <2>1, NoneOwed
        <3>2. IsFiniteSet(Owing(i, k)) BY <2>1, NoneOwed
        <3>3. CountOf(posted[i], k) + Cardinality(Owing(i, k)) <= CountOf(told[i], k) BY <3>1
        <3>. QED BY <3>2, <3>3
    <2>. QED BY <2>2 DEF PostsAreOwed
<1>6. MarksAreTold
    <2>1. \A c \in Collectors : ~HookAt(c, "save") BY <1>1, <1>2 DEF HookAt
    <2>2. ASSUME NEW i \in Targets PROVE MarkIsTold(i)
        <3>1. told[i] = << >> /\ Len(told[i]) = 0 /\ marks = {} BY <1>1
        <3>. QED BY <3>1 DEF MarkIsTold
    <2>. QED BY <2>1, <2>2 DEF MarksAreTold, SavesAreExclusive
<1>. QED BY <1>4, <1>5, <1>6 DEF HooksInv

LEMMA HooksKeep == HooksInv /\ [HooksNext]_hookVars => HooksInv'
<1>. SUFFICES ASSUME HooksInv, [HooksNext]_hookVars PROVE HooksInv' OBVIOUS
<1>1. ASSUME NEW c \in Collectors, CollectorStep(c) PROVE HooksInv'
    BY <1>1, ServeHonest, CollectHonest, LoadHonest, SaveHonest, PostHonest DEF CollectorStep
<1>2. ASSUME NEW c \in Collectors, ReporterDies(Reporter[c]) PROVE HooksInv' BY <1>2, DeathHonest
<1>3. CASE UNCHANGED hookVars
    <2>1. UNCHANGED <<cache, marks, collector, told, posted, unsure>> BY <1>3 DEF hookVars
    <2>2. HooksTyped' BY <2>1 DEF HooksInv, HooksTyped
    <2>3. ASSUME NEW i, NEW k PROVE Owing(i, k)' \in SUBSET Owing(i, k) BY <2>1 DEF Owing, HookAt
    <2>4. PostsAreOwed' BY <2>1, <2>3, FewerOwed DEF HooksInv
    <2>5. \A d \in Collectors : HookAt(d, "save")' => HookAt(d, "save") /\ collector'[d] = collector[d]
        BY <2>1 DEF HookAt
    <2>6. MarksAreTold' BY <2>1, <2>5, MarksStay DEF HooksInv
    <2>. QED BY <2>2, <2>4, <2>6 DEF HooksInv
<1>. QED BY <1>1, <1>2, <1>3 DEF HooksNext

LEMMA HooksAreHonest == HooksInv => CrossingsNotifyOnce
<1>. SUFFICES ASSUME HooksInv PROVE CrossingsNotifyOnce OBVIOUS
<1>1. HooksTypeOK BY DEF HooksInv, HooksTyped, HooksTypeOK, CollectorState
<1>2. ASSUME NEW i \in Targets, NEW k \in HookKinds PROVE CountOf(posted[i], k) <= CountOf(told[i], k)
    <2>1. /\ CountOf(posted[i], k) + Cardinality(Owing(i, k)) <= CountOf(told[i], k)
          /\ Cardinality(Owing(i, k)) \in Nat
        BY FS_CardinalityType DEF HooksInv, PostsAreOwed
    <2>2. CountOf(posted[i], k) \in Nat /\ CountOf(told[i], k) \in Nat
        BY CountOfAppend DEF HooksInv, HooksTyped
    <2>. QED BY <2>1, <2>2
<1>3. ASSUME ~unsure, NEW i \in Targets PROVE Alternate(told[i], Endpoints[i].events)
    BY <1>3 DEF HooksInv, MarksAreTold, MarkIsTold, Hears, Alternate
<1>. QED BY <1>1, <1>2, <1>3 DEF CrossingsNotifyOnce

LEMMA HooksPart == FilesSpec => HooksInit /\ [][HooksNext]_hookVars
<1>1. FilesInit => HooksInit BY DEF FilesInit
<1>2. [FilesNext]_fileVars => [HooksNext]_hookVars BY DEF FilesNext, fileVars
<1>. QED BY <1>1, <1>2, PTL DEF FilesSpec

(* Each crossing notifies once, unless a save failed or two processes held   *)
(* the marks at once: for any endpoints and thresholds, any number of calls  *)
(* in any processes, however they overlap and wherever one dies.             *)
THEOREM CrossingsStayOnce == FilesSpec => []CrossingsNotifyOnce
<1>. QED BY HooksPart, HooksStart, HooksKeep, HooksAreHonest, PTL

-----------------------------------------------------------------------------
(* The readers of a run's events.                                           *)

ReaderState ==
    [at : {"idle", "reading", "dead"}, from : {"memory", "store"},
     cursor : 0 .. MaxEvents + 1, seen : SUBSET (1 .. MaxEvents + 1), terminal : BOOLEAN, last : BOOLEAN,
     warned : BOOLEAN, turnedDown : BOOLEAN]

(* The buffer ends with the last event pushed, and what it lacks of the run  *)
(* is a gap.                                                                *)
BufferIsWhole ==
    /\ buffer \in [events : Seq(EventSeq), next : 1 .. MaxEvents + 1, gap : BOOLEAN]
    /\ Bytes(buffer.events) <= BufferBytes
    /\ Len(buffer.events) < buffer.next
    /\ \A i \in 1 .. Len(buffer.events) :
           buffer.events[i].seq = (buffer.next - 1 - Len(buffer.events)) + i
    /\ buffer.next > 1 => buffer.events # << >>
    /\ Len(buffer.events) < buffer.next - 1 => buffer.gap

(* The store has a part of what was pushed, all of it if it refused nothing, *)
(* until the stream of a dead owner is ended.                                *)
HistoryIsOrderly ==
    /\ history \in Seq(EventSeq) /\ Payload(history) <= BufferBytes
    /\ ended \in BOOLEAN /\ closedRow \in BOOLEAN /\ refused \in BOOLEAN
    /\ manager \in {"up", "exited", "reconciling"}
    /\ manager = "reconciling" => closedRow
    /\ manager # "exited" \/ ~closedRow => \A i \in 1 .. Len(history) : history[i].seq < buffer.next
    /\ ~refused => \A i \in 1 .. Len(history) : history[i].seq = i
    /\ ~refused /\ manager = "up" => Len(history) = buffer.next - 1

ReaderIsTold(r) ==
    \/ reader[r].warned
    \/ reader[r].from = "store" /\ refused
    \/ \E m \in Nat : reader[r].seen = 1 .. m /\ reader[r].cursor <= m

ReaderIsServed(r) ==
    /\ ~reader[r].turnedDown
    /\ reader[r].at = "reading" => reader[r].from = "memory"
    /\ reader[r].from = "memory" => reader[r].cursor < buffer.next
    /\ reader[r].from = "store" => reader[r].cursor \in {0} \cup Seqs(history)
    /\ ReaderIsTold(r)

ReadersInv ==
    /\ BufferIsWhole /\ HistoryIsOrderly
    /\ reader \in [EventReaders -> ReaderState]
    /\ \A r \in EventReaders : ReaderIsServed(r)

-----------------------------------------------------------------------------
(* A set of naturals has a least member, and a greatest if it is bounded.    *)
LEMMA LeastExists ==
    ASSUME NEW S \in SUBSET Nat, S # {}
    PROVE  \E m \in S : \A n \in S : m <= n
<1>1. PICK R : R = OpToRel(<, Nat) BY Zenon
<1>2. IsWellFoundedOn(R, Nat) BY <1>1, NatLessThanWellFounded, Zenon
<1>3. PICK m \in S : \A n \in S : <<n, m>> \notin R BY <1>2, WFMin
<1>4. \A x, y \in Nat : <<x, y>> \in R <=> x < y BY <1>1 DEF OpToRel
<1>5. ASSUME NEW n \in S PROVE m <= n
    <2>1. m \in Nat /\ n \in Nat /\ ~(n < m) BY <1>3, <1>4
    <2>. QED BY <2>1
<1>. QED BY <1>5

LEMMA GreatestExists ==
    ASSUME NEW b \in Nat, NEW S \in SUBSET (0 .. b), S # {}
    PROVE  MaxSeq(S) \in S /\ \A y \in S : y <= MaxSeq(S)
<1> DEFINE T == {b - x : x \in S}
<1>1. \A x \in S : x \in Nat /\ x <= b /\ b - x \in Nat OBVIOUS
<1>2. T \in SUBSET Nat /\ T # {} BY <1>1
<1>3. PICK m \in T : \A n \in T : m <= n BY <1>2, LeastExists
<1>4. PICK x \in S : m = b - x BY <1>3
<1>5. ASSUME NEW y \in S PROVE y <= x
    <2>1. b - y \in T OBVIOUS
    <2>2. b - x <= b - y BY <1>3, <1>4, <2>1
    <2>. QED BY <1>1, <2>2
<1>. QED BY <1>5 DEF MaxSeq

(* The bytes of some positions of a stream.                                  *)
LEMMA BytesAreNaturals ==
    ASSUME NEW s \in Seq(EventSeq), NEW T \in SUBSET (1 .. Len(s)), NEW S \in SUBSET T
    PROVE  BytesAt(s, S) \in Nat /\ BytesAt(s, T) \in Nat /\ BytesAt(s, S) <= BytesAt(s, T)
<1> DEFINE Sized(U, z) == {i \in U : s[i].size = z}
<1>1. ASSUME NEW z
      PROVE  /\ Cardinality(Sized(S, z)) \in Nat /\ Cardinality(Sized(T, z)) \in Nat
             /\ Cardinality(Sized(S, z)) <= Cardinality(Sized(T, z))
    <2>1. IsFiniteSet(1 .. Len(s)) BY FS_Interval
    <2>2. IsFiniteSet(Sized(T, z)) BY <2>1, FS_Subset
    <2>3. Sized(S, z) \in SUBSET Sized(T, z) OBVIOUS
    <2>4. IsFiniteSet(Sized(S, z)) /\ Cardinality(Sized(S, z)) <= Cardinality(Sized(T, z))
        BY <2>2, <2>3, FS_Subset
    <2>. QED BY <2>2, <2>4, FS_CardinalityType
<1>2. BytesAt(s, S) = Cardinality(Sized(S, 1)) + 2 * Cardinality(Sized(S, 2)) BY DEF BytesAt
<1>3. BytesAt(s, T) = Cardinality(Sized(T, 1)) + 2 * Cardinality(Sized(T, 2)) BY DEF BytesAt
<1>. HIDE DEF Sized
<1>. QED BY <1>1, <1>2, <1>3

LEMMA BytesAddUp ==
    ASSUME NEW s \in Seq(EventSeq), NEW e \in EventSeq
    PROVE  /\ Bytes(s) \in Nat /\ Bytes(Append(s, e)) = Bytes(s) + e.size
           /\ Payload(s) \in Nat
           /\ Payload(Append(s, e)) = Payload(s) + (IF e.size = 2 THEN 1 ELSE 0)
<1> DEFINE Sized(u, z) == {i \in 1 .. Len(u) : u[i].size = z}
<1>1. ASSUME NEW z
      PROVE  /\ Cardinality(Sized(s, z)) \in Nat
             /\ Cardinality(Sized(Append(s, e), z)) = Cardinality(Sized(s,
                  z)) + (IF e.size = z THEN 1 ELSE 0)
    <2>1. IsFiniteSet(1 .. Len(s)) BY FS_Interval
    <2>2. IsFiniteSet(Sized(s, z)) /\ Cardinality(Sized(s, z)) \in Nat BY <2>1, FS_Subset,
            FS_CardinalityType
    <2>3. CASE e.size = z
        <3>1. Sized(Append(s, e), z) = Sized(s, z) \cup {Len(s) + 1} BY <2>3
        <3>2. Len(s) + 1 \notin Sized(s, z) OBVIOUS
        <3>. QED BY <2>2, <2>3, <3>1, <3>2, FS_AddElement
    <2>4. CASE e.size # z
        <3>1. Sized(Append(s, e), z) = Sized(s, z) BY <2>4
        <3>. HIDE DEF Sized
        <3>. QED BY <2>2, <2>4, <3>1
    <2>. QED BY <2>3, <2>4
<1>2. /\ Bytes(s) = Cardinality(Sized(s, 1)) + 2 * Cardinality(Sized(s, 2))
      /\ Bytes(Append(s, e)) = Cardinality(Sized(Append(s, e),
           1)) + 2 * Cardinality(Sized(Append(s, e), 2))
      /\ Payload(s) = Cardinality(Sized(s, 2))
      /\ Payload(Append(s, e)) = Cardinality(Sized(Append(s, e), 2))
    BY DEF Bytes, BytesAt, Payload
<1>3. e.size \in {1, 2} BY DEF EventSeq, Sizes
<1>. HIDE DEF Sized
<1>. QED BY <1>1, <1>2, <1>3

LEMMA EmptyStream == Bytes(<< >>) = 0 /\ Payload(<< >>) = 0 /\ << >> \in Seq(EventSeq)
<1>1. \A z : {i \in 1 .. Len(<< >>) : << >>[i].size = z} = {} OBVIOUS
<1>2. Cardinality({}) = 0 BY FS_EmptySet
<1>. QED BY <1>1, <1>2 DEF Bytes, BytesAt, Payload

(* A page of a stream without holes that begins no later than the cursor     *)
(* goes on from the cursor without holes.                                    *)
LEMMA PageGoesOn ==
    ASSUME NEW s \in Seq(EventSeq), NEW k \in Nat, NEW after \in Nat, k <= after,
           \A i \in 1 .. Len(s) : s[i].seq = k + i
    PROVE  LET got == {s[i].seq : i \in page(s, after)}
           IN got = {} \/ got = (after + 1) .. MaxSeq(got)
<1> DEFINE rest == {i \in 1 .. Len(s) : s[i].seq > after}
           upto(n) == {i \in rest : i <= n}
           got == {s[i].seq : i \in page(s, after)}
<1>1. page(s, after) = {n \in rest : upto(n) = {n} \/ BytesAt(s, upto(n)) <= PageBytes} BY DEF page
<1>2. ASSUME NEW n \in page(s, after), NEW m \in rest, m <= n PROVE m \in page(s, after)
    <2>1. CASE m = n BY <2>1
    <2>2. CASE m # n
        <3>1. n \in rest BY <1>1
        <3>2. m \in upto(n) BY <1>2
        <3>3. BytesAt(s, upto(n)) <= PageBytes BY <1>1, <2>2, <3>2
        <3>4. upto(m) \in SUBSET upto(n) /\ upto(n) \in SUBSET (1 .. Len(s))
            <4>1. m \in Nat /\ n \in Nat /\ m <= n /\ rest \subseteq 1 .. Len(s) BY <1>2, <3>1
            <4>2. \A i \in rest : i \in Nat BY <4>1
            <4>3. \A i \in rest : i <= m => i <= n BY <4>1, <4>2
            <4>. QED BY <4>1, <4>3
        <3>5. /\ BytesAt(s, upto(m)) \in Nat /\ BytesAt(s, upto(n)) \in Nat
              /\ BytesAt(s, upto(m)) <= BytesAt(s, upto(n))
            BY <3>4, BytesAreNaturals
        <3>6. BytesAt(s, upto(m)) <= PageBytes
            <4>. HIDE DEF upto
            <4>. QED BY <3>3, <3>5, ReadersAssumption
        <3>. QED BY <1>1, <3>6
    <2>. QED BY <2>1, <2>2
<1>3. page(s, after) \subseteq rest BY <1>1
<1>4. ASSUME got # {} PROVE got = (after + 1) .. MaxSeq(got)
    <2>1. got \in SUBSET (0 .. (k + Len(s))) BY <1>3
    <2>2. \A y \in got : y > after /\ y \in Nat BY <1>3, <2>1
    <2>3. MaxSeq(got) \in got /\ \A y \in got : y <= MaxSeq(got)
        <3>1. k + Len(s) \in Nat OBVIOUS
        <3>. HIDE DEF got
        <3>. QED BY <1>4, <2>1, <3>1, GreatestExists
    <2>4. PICK n \in page(s, after) : MaxSeq(got) = s[n].seq BY <2>3
    <2>5. n \in 1 .. Len(s) /\ MaxSeq(got) = k + n BY <1>3, <2>4
    <2>6. ASSUME NEW x \in (after + 1) .. MaxSeq(got) PROVE x \in got
        <3>1. x - k \in 1 .. Len(s) /\ x - k <= n /\ x = k + (x - k) BY <2>3, <2>5
        <3>2. s[x - k].seq = x BY <3>1
        <3>3. x - k \in rest BY <3>1, <3>2
        <3>4. x - k \in page(s, after) BY <1>2, <3>1, <3>3
        <3>. QED BY <3>2, <3>4
    <2>7. ASSUME NEW y \in got PROVE y \in (after + 1) .. MaxSeq(got)
        <3>1. y \in Nat /\ MaxSeq(got) \in Nat /\ y > after /\ y <= MaxSeq(got) BY <2>2, <2>3
        <3>. QED BY <3>1
    <2>. QED BY <2>6, <2>7
<1>. QED BY <1>4

LEMMA SeenInARow == ASSUME NEW m \in Nat PROVE MaxSeq(1 .. m) = m
<1>1. CASE m = 0 BY <1>1 DEF MaxSeq
<1>2. CASE m # 0
    <2>1. 1 .. m \in SUBSET (0 .. m) /\ 1 .. m # {} /\ m \in 1 .. m BY <1>2
    <2>2. MaxSeq(1 .. m) \in 1 .. m /\ \A y \in 1 .. m : y <= MaxSeq(1 .. m) BY <2>1, GreatestExists
    <2>. QED BY <2>1, <2>2
<1>. QED BY <1>1, <1>2

LEMMA SeqsAreBounded ==
    ASSUME NEW s \in Seq(EventSeq)
    PROVE  /\ Seqs(s) \in SUBSET (1 .. MaxEvents + 1)
           /\ s # << >> => MaxSeq(Seqs(s)) \in Seqs(s) /\ \A y \in Seqs(s) : y <= MaxSeq(Seqs(s))
           /\ MaxSeq(Seqs(s)) \in 0 .. MaxEvents + 1
<1>1. Seqs(s) \in SUBSET (1 .. MaxEvents + 1)
    <2>1. \A i \in 1 .. Len(s) : s[i] \in EventSeq OBVIOUS
    <2>2. \A i \in 1 .. Len(s) : s[i].seq \in 1 .. MaxEvents + 1 BY <2>1 DEF EventSeq
    <2>. QED BY <2>2 DEF Seqs
<1>2. MaxEvents + 1 \in Nat /\ 1 .. MaxEvents + 1 \subseteq 0 .. MaxEvents + 1 BY ReadersAssumption
<1>3. ASSUME s # << >> PROVE Seqs(s) # {}
    <2>1. 1 \in 1 .. Len(s) BY <1>3
    <2>. QED BY <2>1 DEF Seqs
<1>4. Seqs(s) # {} => MaxSeq(Seqs(s)) \in Seqs(s) /\ \A y \in Seqs(s) : y <= MaxSeq(Seqs(s))
    BY <1>1, <1>2, GreatestExists
<1>5. Seqs(s) = {} => MaxSeq(Seqs(s)) = 0 BY DEF MaxSeq
<1>. QED BY <1>1, <1>2, <1>3, <1>4, <1>5

-----------------------------------------------------------------------------
(* What is kept of a served reader when the buffer only grows, or the store. *)
LEMMA ServedStays ==
    ASSUME NEW r \in EventReaders, ReaderIsServed(r), reader'[r] = reader[r], buffer.next \in Nat,
             buffer'.next \in Nat,
           reader[r].cursor \in Nat, buffer.next <= buffer'.next, refused
             => refused', Seqs(history) \subseteq Seqs(history)'
    PROVE  ReaderIsServed(r)'
<1>1. ReaderIsTold(r)' BY DEF ReaderIsServed, ReaderIsTold
<1>. QED BY <1>1 DEF ReaderIsServed

LEMMA SeqsGrow ==
    ASSUME NEW s \in Seq(EventSeq), NEW e \in EventSeq
    PROVE  Seqs(s) \subseteq Seqs(Append(s, e))
<1>1. \A i \in 1 .. Len(s) : i \in 1 .. Len(Append(s, e)) /\ Append(s, e)[i] = s[i] OBVIOUS
<1>. QED BY <1>1 DEF Seqs

LEMMA WhatIsLeft ==
    ASSUME NEW s \in Seq(EventSeq), NEW c \in 0 .. Len(s)
    PROVE  LET l == SubSeq(s, c + 1, Len(s))
           IN /\ l \in Seq(EventSeq) /\ Len(l) = Len(s) - c
              /\ \A i \in 1 .. Len(s) - c : l[i] = s[c + i]
<1>1. c \in Nat /\ c <= Len(s) /\ Len(s) \in Nat OBVIOUS
<1>2. SubSeq(s, c + 1, Len(s)) \in Seq(EventSeq) BY <1>1
<1>3. Len(SubSeq(s, c + 1, Len(s))) = Len(s) - c BY <1>1
<1>4. \A i \in 1 .. Len(s) - c : SubSeq(s, c + 1, Len(s))[i] = s[c + i] BY <1>1
<1>. QED BY <1>2, <1>3, <1>4

LEMMA PushIsWhole ==
    ASSUME BufferIsWhole, NEW e \in EventSeq, e.seq = buffer.next, buffer.next <= MaxEvents,
           buffer' = push(e)
    PROVE  BufferIsWhole'
<1> DEFINE n == Len(buffer.events)
           left(i) == SubSeq(buffer.events, i + 1, n)
           room == {i \in 0 .. n : Fits(left(i), e)}
<1>1. /\ buffer.events \in Seq(EventSeq) /\ n \in Nat /\ buffer.next \in Nat /\ n < buffer.next
      /\ \A i \in 1 .. n : buffer.events[i].seq = (buffer.next - 1 - n) + i
      /\ n < buffer.next - 1 => buffer.gap
      /\ MaxEvents \in Nat /\ buffer.gap \in BOOLEAN
    BY ReadersAssumption DEF BufferIsWhole
<1>2. PICK d \in room : \A j \in room : d <= j
    <2>1. left(n) = << >> BY <1>1
    <2>2. n \in room BY <1>1, <2>1 DEF Fits
    <2>. HIDE DEF room
    <2>3. room \in SUBSET Nat BY <1>1 DEF room
    <2>. QED BY <2>2, <2>3, LeastExists
<1>3. d \in 0 .. n /\ Fits(left(d), e) /\ \A j \in 0 .. d - 1 : ~Fits(left(j), e)
    <2>1. \A j \in 0 .. d - 1 : j \in 0 .. n /\ ~(d <= j) BY <1>1, <1>2
    <2>. QED BY <1>2, <2>1
<1>4. PICK c \in 0 .. n :
        /\ Fits(left(c), e)
        /\ buffer' = [events |-> Append(left(c), e), next |-> buffer.next + 1, gap |-> gap_after(c)]
    <2>1. \E c \in 0 .. n : Fits(left(c), e) /\ \A j \in 0 .. c - 1 : ~Fits(left(j), e) BY <1>3
    <2> DEFINE c == CHOOSE i \in 0 .. n : Fits(left(i), e) /\ \A j \in 0 .. i - 1 : ~Fits(left(j), e)
    <2>2. c \in 0 .. n /\ Fits(left(c), e) BY <2>1
    <2>3. buffer' = [events |-> Append(left(c), e), next |-> buffer.next + 1, gap |-> gap_after(c)]
        BY DEF push
    <2>. QED BY <2>2, <2>3
<1>5. /\ left(c) \in Seq(EventSeq) /\ Len(left(c)) = n - c
      /\ \A i \in 1 .. n - c : left(c)[i] = buffer.events[c + i]
    BY <1>1, <1>4, WhatIsLeft
<1>6. /\ buffer'.events = Append(left(c), e) /\ buffer'.next = buffer.next + 1
      /\ buffer'.gap = gap_after(c)
    <2> DEFINE x == Append(left(c), e)
               y == buffer.next + 1
               z == gap_after(c)
    <2>1. buffer' = [events |-> x, next |-> y, gap |-> z] BY <1>4
    <2>. HIDE DEF x, y, z
    <2>2. buffer'.events = x /\ buffer'.next = y /\ buffer'.gap = z BY <2>1
    <2>. QED BY <2>2 DEF x, y, z
<1>7. c \in Nat /\ c <= n
    <2>1. c \in 0 .. n BY <1>4
    <2>. QED BY <1>1, <2>1
<1>8. /\ gap_after(c) \in BOOLEAN /\ buffer'.gap \in BOOLEAN
      /\ buffer.gap => buffer'.gap
      /\ c > 0 => buffer'.gap
    <2>1. gap_after(c) = (buffer.gap \/ c > 0) BY DEF gap_after
    <2>. QED BY <1>6, <2>1, Zenon
<1>9. /\ buffer'.events \in Seq(EventSeq) /\ Len(buffer'.events) = n - c + 1
      /\ buffer'.events # << >>
      /\ \A i \in 1 .. n - c : buffer'.events[i] = buffer.events[c + i]
      /\ buffer'.events[n - c + 1] = e
    <2> DEFINE l == left(c)
    <2>1. /\ l \in Seq(EventSeq) /\ Len(l) = n - c /\ n \in Nat
          /\ \A i \in 1 .. n - c : l[i] = buffer.events[c + i]
          /\ buffer'.events = Append(l, e)
        BY <1>1, <1>5, <1>6, <1>7
    <2>. HIDE DEF l, n
    <2>2. Append(l, e) \in Seq(EventSeq) /\ Len(Append(l, e)) = Len(l) + 1 /\ Append(l, e)[Len(l) + 1] = e
          /\ \A i \in 1 .. Len(l) : Append(l, e)[i] = l[i]
        BY <2>1
    <2>. QED BY <2>1, <2>2
<1>10. Bytes(buffer'.events) <= BufferBytes
    <2>1. /\ Bytes(left(c)) \in Nat /\ Bytes(buffer'.events) = Bytes(left(c)) + e.size
          /\ e.size \in {1, 2}
        <3>. HIDE DEF left
        <3>. QED BY <1>5, <1>6, BytesAddUp DEF EventSeq, Sizes
    <2>2. left(c) = << >> \/ Bytes(left(c)) + e.size <= BufferBytes BY <1>4 DEF Fits
    <2>. HIDE DEF left
    <2>. QED BY <2>1, <2>2, EmptyStream, ReadersAssumption
<1>11. ASSUME NEW i \in 1 .. Len(buffer'.events)
      PROVE  buffer'.events[i].seq = (buffer'.next - 1 - Len(buffer'.events)) + i
    <2>. HIDE DEF left, n
    <2>1. CASE i = n - c + 1 BY <1>1, <1>6, <1>9, <1>7, <2>1
    <2>2. CASE i # n - c + 1
        <3>1. i \in 1 .. n - c /\ c + i \in 1 .. n BY <1>1, <1>6, <1>9, <1>7, <2>2
        <3>2. buffer'.events[i].seq = (buffer.next - 1 - n) + (c + i) BY <1>1, <1>9, <3>1
        <3>. QED BY <1>1, <1>6, <1>9, <1>7, <3>1, <3>2
    <2>. QED BY <2>1, <2>2
<1>12. buffer' \in [events : Seq(EventSeq), next : 1 .. MaxEvents + 1, gap : BOOLEAN]
    <2>1. Append(left(c), e) \in Seq(EventSeq) BY <1>6, <1>9
    <2>2. buffer.next + 1 \in 1 .. MaxEvents + 1 BY <1>1
    <2>. HIDE DEF left, n
    <2>. QED BY <1>4, <1>8, <2>1, <2>2
<1>13. /\ Len(buffer'.events) < buffer'.next
       /\ Len(buffer'.events) < buffer'.next - 1 => buffer'.gap
    <2>. HIDE DEF left, n
    <2>1. Len(buffer'.events) < buffer'.next BY <1>1, <1>6, <1>9, <1>7
    <2>2. ASSUME Len(buffer'.events) < buffer'.next - 1 PROVE n < buffer.next - 1 \/ c > 0
        BY <1>1, <1>6, <1>9, <1>7, <2>2
    <2>. QED BY <1>1, <1>8, <2>1, <2>2, Zenon
<1>. QED BY <1>9, <1>10, <1>11, <1>12, <1>13 DEF BufferIsWhole

LEMMA PushHonest == ASSUME ReadersInv, NEW size \in Sizes, push_event(size) PROVE ReadersInv'
<1> DEFINE e == [seq |-> buffer.next, size |-> size]
           kept == [seq |-> e.seq, size |-> IF payload_budget_allows(e.size) THEN e.size ELSE 1]
<1>1. /\ manager = "up" /\ ~closedRow /\ buffer.next <= MaxEvents /\ buffer' = push(e)
      /\ \/ history' = Append(history, kept) /\ UNCHANGED refused
         \/ refused' = TRUE /\ UNCHANGED history
      /\ UNCHANGED <<manager, ended, closedRow, reader>>
    BY DEF push_event, append_event
<1>2. buffer.next \in 1 .. MaxEvents + 1 /\ buffer.next \in Nat /\ MaxEvents \in Nat
    BY ReadersAssumption DEF ReadersInv, BufferIsWhole
<1>3. e \in EventSeq /\ kept \in EventSeq /\ kept.seq = buffer.next
    BY <1>1, <1>2 DEF EventSeq, Sizes
<1>4. BufferIsWhole' /\ buffer'.next = buffer.next + 1
    <2>1. BufferIsWhole' BY <1>1, <1>3, PushIsWhole DEF ReadersInv
    <2>2. buffer'.next = buffer.next + 1 BY <1>1 DEF push
    <2>. QED BY <2>1, <2>2
<1>5. /\ history \in Seq(EventSeq) /\ Payload(history) <= BufferBytes /\ Payload(history) \in Nat
      /\ ended \in BOOLEAN /\ closedRow \in BOOLEAN /\ refused \in BOOLEAN
      /\ \A i \in 1 .. Len(history) : history[i].seq < buffer.next /\ history[i].seq \in Nat
      /\ ~refused => Len(history) = buffer.next - 1 /\ \A i \in 1 .. Len(history) : history[i].seq = i
    <2>1. \A i \in 1 .. Len(history) : history[i] \in EventSeq BY DEF ReadersInv, HistoryIsOrderly
    <2>2. \A i \in 1 .. Len(history) : history[i].seq \in Nat BY <2>1 DEF EventSeq
    <2>3. Payload(history) \in Nat BY <1>3, BytesAddUp DEF ReadersInv, HistoryIsOrderly
    <2>. QED BY <1>1, <2>2, <2>3 DEF ReadersInv, HistoryIsOrderly
<1>6. CASE history' = Append(history, kept) /\ UNCHANGED refused
    <2>1. Payload(history') <= BufferBytes
        <3>1. Payload(history') = Payload(history) + (IF kept.size = 2 THEN 1 ELSE 0)
            <4>. HIDE DEF kept
            <4>. QED BY <1>3, <1>5, <1>6, BytesAddUp
        <3>2. CASE kept.size = 2
            <4>1. payload_budget_allows(2) /\ size = 2 BY <3>2
            <4>. QED BY <1>5, <3>1, <3>2, <4>1, ReadersAssumption DEF payload_budget_allows
        <3>3. CASE kept.size # 2 BY <1>5, <3>1, <3>3
        <3>. QED BY <3>2, <3>3
    <2>. HIDE DEF kept
    <2>2. /\ history' \in Seq(EventSeq) /\ Len(history') = Len(history) + 1
          /\ \A i \in 1 .. Len(history) : history'[i] = history[i]
          /\ history'[Len(history) + 1] = kept
        BY <1>3, <1>5, <1>6
    <2>3. \A i \in 1 .. Len(history') : history'[i].seq < buffer'.next
        BY <1>2, <1>3, <1>4, <1>5, <2>2
    <2>4. ASSUME ~refused, NEW i \in 1 .. Len(history') PROVE history'[i].seq = i
        <3>1. Len(history) \in Nat BY <1>5
        <3>2. CASE i = Len(history) + 1 BY <1>2, <1>3, <1>5, <2>2, <2>4, <3>2
        <3>3. CASE i # Len(history) + 1
            <4>1. i \in 1 .. Len(history) BY <2>2, <3>1, <3>3
            <4>. QED BY <1>5, <2>2, <2>4, <4>1
        <3>. QED BY <3>2, <3>3
    <2>5. HistoryIsOrderly'
        BY <1>1, <1>2, <1>4, <1>5, <1>6, <2>1, <2>2, <2>3, <2>4 DEF HistoryIsOrderly
    <2>6. Seqs(history) \subseteq Seqs(history)' BY <1>3, <1>5, <1>6, SeqsGrow
    <2>7. ASSUME NEW r \in EventReaders PROVE ReaderIsServed(r)'
        BY <1>1, <1>2, <1>4, <1>6, <2>6, ServedStays, ReadersAssumption DEF ReadersInv, ReaderState
    <2>. QED BY <1>1, <1>4, <2>5, <2>7 DEF ReadersInv
<1>7. CASE refused' = TRUE /\ UNCHANGED history
    <2>1. \A i \in 1 .. Len(history) : history[i].seq < buffer'.next BY <1>2, <1>4, <1>5
    <2>2. HistoryIsOrderly' BY <1>1, <1>5, <1>7, <2>1 DEF HistoryIsOrderly
    <2>3. ASSUME NEW r \in EventReaders PROVE ReaderIsServed(r)'
        <3>1. Seqs(history) \subseteq Seqs(history)' BY <1>7
        <3>. QED BY <1>1, <1>2, <1>4, <1>7, <3>1, ServedStays, ReadersAssumption
           DEF ReadersInv, ReaderState
    <2>. QED BY <1>1, <1>4, <2>2, <2>3 DEF ReadersInv
<1>. QED BY <1>1, <1>6, <1>7

(* What a reader has after a page it is not turned down for.                 *)
LEMMA PageTaken ==
    ASSUME NEW r \in EventReaders, reader[r] \in ReaderState, NEW s \in Seq(EventSeq),
             NEW gap \in BOOLEAN,
           s # << >> => reader[r].cursor <= MaxSeq(Seqs(s))
    PROVE  LET me == reader[r]
               got == {s[i].seq : i \in page(s, me.cursor)}
               after == TakesPage(r, s, gap)
           IN /\ after \in ReaderState
              /\ after.turnedDown = me.turnedDown /\ after.from = me.from /\ after.at = "idle"
              /\ me.warned \/ gap => after.warned
              /\ after.seen = me.seen \cup got
              /\ got \subseteq Seqs(s)
              /\ after.cursor = me.cursor
                 \/ (got # {} /\ after.cursor = MaxSeq(got) /\ after.cursor \in Seqs(s))
<1> DEFINE me == reader[r]
           got == {s[i].seq : i \in page(s, me.cursor)}
           more == got # {} /\ \E x \in Seqs(s) : x > MaxSeq(got)
           after == TakesPage(r, s, gap)
<1>1. got \subseteq Seqs(s) BY DEF page, Seqs
<1>2. Seqs(s) \in SUBSET (1 .. MaxEvents + 1) BY SeqsAreBounded
<1>3. got # {} => MaxSeq(got) \in got
    <2>1. MaxEvents + 1 \in Nat /\ got \in SUBSET (0 .. MaxEvents + 1) BY <1>1, <1>2, ReadersAssumption
    <2>. HIDE DEF got
    <2>. QED BY <2>1, GreatestExists
<1>4. ~(s # << >> /\ me.cursor > MaxSeq(Seqs(s)))
    <2>1. me.cursor \in Nat /\ MaxSeq(Seqs(s)) \in Nat
        BY SeqsAreBounded, ReadersAssumption DEF ReaderState
    <2>. QED BY <2>1
<1>5. after = [me EXCEPT !.at = "idle", !.seen = @ \cup got, !.warned = @ \/ gap,
                         !.last = ~more, !.cursor = IF more THEN MaxSeq(got) ELSE @]
    BY <1>4, Zenon DEF TakesPage
<1> DEFINE no_more == ~more
           informed == me.warned \/ gap
           now_at == IF more THEN MaxSeq(got) ELSE me.cursor
<1>6. after = [me EXCEPT !.at = "idle", !.seen = me.seen \cup got, !.warned = informed,
                         !.last = no_more, !.cursor = now_at]
    BY <1>5 DEF ReaderState
<1>7. /\ no_more \in BOOLEAN /\ informed \in BOOLEAN /\ (me.warned \/ gap => informed)
      /\ me.seen \cup got \in SUBSET (1 .. MaxEvents + 1)
    BY <1>1, <1>2 DEF ReaderState
<1>8. now_at = me.cursor \/ (got # {} /\ now_at = MaxSeq(got) /\ now_at \in Seqs(s)) BY <1>1, <1>3
<1>9. now_at \in 0 .. MaxEvents + 1
    <2>1. me.cursor \in 0 .. MaxEvents + 1 BY DEF ReaderState
    <2>2. Seqs(s) \subseteq 0 .. MaxEvents + 1 BY <1>2, ReadersAssumption
    <2>. HIDE DEF now_at, me
    <2>. QED BY <1>8, <2>1, <2>2
<1>. HIDE DEF got, no_more, informed, now_at, after
<1>10. /\ after \in ReaderState /\ after.turnedDown = me.turnedDown /\ after.from = me.from
       /\ after.at = "idle"
       /\ after.warned = informed /\ after.seen = me.seen \cup got /\ after.cursor = now_at
    BY <1>6, <1>7, <1>9 DEF ReaderState
<1>. QED BY <1>1, <1>7, <1>8, <1>10 DEF got, after

PageIsTold(r, after) ==
    \/ after.warned
    \/ after.from = "store" /\ refused
    \/ \E m \in Nat : after.seen = 1 .. m /\ after.cursor <= m

LEMMA PageTold ==
    ASSUME NEW r \in EventReaders, reader[r] \in ReaderState, NEW s \in Seq(EventSeq),
             NEW gap \in BOOLEAN,
           s # << >> => reader[r].cursor <= MaxSeq(Seqs(s)),
           ReaderIsTold(r), NEW k \in Nat,
           \/ gap
           \/ reader[r].from = "store" /\ refused
           \/ k <= reader[r].cursor /\ \A i \in 1 .. Len(s) : s[i].seq = k + i
    PROVE  PageIsTold(r, TakesPage(r, s, gap))
<1> DEFINE me == reader[r]
           got == {s[i].seq : i \in page(s, me.cursor)}
           after == TakesPage(r, s, gap)
<1>1. /\ after.from = me.from /\ (me.warned \/ gap => after.warned) /\ after.seen = me.seen \cup got
      /\ after.cursor = me.cursor \/ (got # {} /\ after.cursor = MaxSeq(got))
    BY PageTaken
<1>2. CASE gap BY <1>1, <1>2 DEF PageIsTold
<1>3. CASE me.from = "store" /\ refused BY <1>1, <1>3 DEF PageIsTold
<1>4. CASE me.warned BY <1>1, <1>4 DEF PageIsTold
<1>5. CASE k <= me.cursor /\ (\A i \in 1 .. Len(s) : s[i].seq = k + i)
           /\ \E m \in Nat : me.seen = 1 .. m /\ me.cursor <= m
    <2>1. PICK m \in Nat : me.seen = 1 .. m /\ me.cursor <= m BY <1>5
    <2>2. me.cursor \in Nat BY ReadersAssumption DEF ReaderState
    <2>3. got = {} \/ got = (me.cursor + 1) .. MaxSeq(got) BY <1>5, <2>2, PageGoesOn
    <2>. HIDE DEF got, me, after
    <2>4. CASE got = {} BY <1>1, <2>1, <2>4 DEF PageIsTold, me, after
    <2>5. CASE got # {}
        <3> DEFINE x == MaxSeq(got)
        <3>1. got \in SUBSET (1 .. MaxEvents + 1)
            <4>1. got \subseteq Seqs(s) BY PageTaken DEF got, me
            <4>. QED BY <4>1, SeqsAreBounded
        <3>2. x \in got
            <4>1. MaxEvents + 1 \in Nat /\ got \in SUBSET (0 .. MaxEvents + 1) BY <3>1, ReadersAssumption
            <4>. QED BY <2>5, <4>1, GreatestExists
        <3>3. x \in Nat
            <4>1. x \in 1 .. MaxEvents + 1 BY <3>1, <3>2, Zenon
            <4>. HIDE DEF x
            <4>. QED BY <4>1, ReadersAssumption
        <3>4. x \in (me.cursor + 1) .. x BY <2>3, <2>5, <3>2
        <3>5. x \in Nat /\ me.cursor < x
            <4>. HIDE DEF x
            <4>. QED BY <2>2, <3>3, <3>4
        <3>6. PICK n \in Nat : n = IF x <= m THEN m ELSE x BY <3>5
        <3>7. got = (me.cursor + 1) .. x BY <2>3, <2>5
        <3>. HIDE DEF x
        <3>8. (1 .. m) \cup ((me.cursor + 1) .. x) = 1 .. n BY <2>1, <2>2, <3>5, <3>6
        <3>9. after.seen = 1 .. n BY <1>1, <2>1, <3>7, <3>8
        <3>10. after.cursor <= n
            <4>1. after.cursor = me.cursor \/ after.cursor = x BY <1>1 DEF x
            <4>. QED BY <2>1, <2>2, <3>5, <3>6, <4>1
        <3>. QED BY <3>9, <3>10 DEF PageIsTold, after
    <2>. QED BY <2>4, <2>5
<1>. QED BY <1>2, <1>3, <1>4, <1>5 DEF ReaderIsTold

LEMMA OthersAreServed ==
    ASSUME ReadersInv, NEW r \in EventReaders, NEW x \in ReaderState, reader' = [reader EXCEPT ![r] = x],
           UNCHANGED <<buffer, manager, ended, history, closedRow, refused>>, ReaderIsServed(r)'
    PROVE  ReadersInv'
<1>1. BufferIsWhole' BY DEF ReadersInv, BufferIsWhole
<1>2. HistoryIsOrderly' BY DEF ReadersInv, HistoryIsOrderly
<1>3. reader' \in [EventReaders -> ReaderState] BY DEF ReadersInv
<1>4. ASSUME NEW q \in EventReaders, q # r PROVE ReaderIsServed(q)'
    <2>1. reader'[q] = reader[q] BY <1>4 DEF ReadersInv
    <2>. QED BY <2>1 DEF ReadersInv, ReaderIsServed, ReaderIsTold, Seqs
<1>. QED BY <1>1, <1>2, <1>3, <1>4 DEF ReadersInv

LEMMA MetadataHonest == ASSUME ReadersInv, NEW r \in EventReaders, ReadMetadata(r) PROVE ReadersInv'
<1> DEFINE x == [reader[r] EXCEPT !.at = "reading", !.terminal = ended]
<1>1. /\ reader' = [reader EXCEPT ![r] = x]
      /\ UNCHANGED <<buffer, manager, ended, history, closedRow, refused>>
    BY DEF ReadMetadata
<1>2. reader[r] \in ReaderState /\ ended \in BOOLEAN /\ ReaderIsServed(r) BY
        DEF ReadersInv, HistoryIsOrderly
<1>3. x \in ReaderState BY <1>2 DEF ReaderState
<1>4. reader'[r] = x BY <1>1 DEF ReadersInv
<1>5. /\ x.turnedDown = reader[r].turnedDown /\ x.from = reader[r].from /\ x.cursor = reader[r].cursor
      /\ x.warned = reader[r].warned /\ x.seen = reader[r].seen
    BY <1>2 DEF ReaderState
<1>. HIDE DEF x
<1>6. ReaderIsTold(r)' BY <1>1, <1>2, <1>4, <1>5 DEF ReaderIsServed, ReaderIsTold
<1>7. ReaderIsServed(r)'
    <2>1. reader[r].from = "memory" BY DEF ReadMetadata
    <2>. QED BY <1>1, <1>2, <1>4, <1>5, <1>6, <2>1 DEF ReaderIsServed
<1>. QED BY <1>1, <1>3, <1>7, OthersAreServed

LEMMA BufferHonest == ASSUME ReadersInv, NEW r \in EventReaders, ReadBuffer(r) PROVE ReadersInv'
<1> DEFINE s == buffer.events
           first == IF buffer.events = << >> THEN 0 ELSE Head(buffer.events).seq
           gap == buffer.gap \/ (reader[r].cursor # 0 /\ reader[r].cursor + 1 < first)
           k == buffer.next - 1 - Len(s)
<1>1. /\ reader' = [reader EXCEPT ![r] = TakesPage(r, s, gap)]
      /\ UNCHANGED <<buffer, manager, ended, history, closedRow, refused>>
    BY DEF ReadBuffer
<1>2. /\ reader[r] \in ReaderState /\ ReaderIsServed(r) /\ s \in Seq(EventSeq) /\ gap \in BOOLEAN
      /\ k \in Nat /\ \A i \in 1 .. Len(s) : s[i].seq = k + i
      /\ buffer.next \in Nat /\ reader[r].cursor \in Nat
      /\ buffer.next > 1 => s # << >>
      /\ k > 0 => buffer.gap
    BY ReadersAssumption DEF ReadersInv, BufferIsWhole, ReaderState
<1>. HIDE DEF gap
<1>3. reader[r].from = "memory" BY <1>2 DEF ReadBuffer, ReaderIsServed
<1>4. Len(s) \in Nat /\ k + Len(s) = buffer.next - 1 BY <1>2
<1>5. Seqs(s) \subseteq 1 .. buffer.next - 1
    <2>. HIDE DEF k, s
    <2>1. \A i \in 1 .. Len(s) : s[i].seq = k + i BY <1>2
    <2>2. \A i \in 1 .. Len(s) : k + i \in 1 .. buffer.next - 1 BY <1>2, <1>4
    <2>. QED BY <2>1, <2>2 DEF Seqs
<1>6. s # << >> => reader[r].cursor <= MaxSeq(Seqs(s))
    <2>1. ASSUME s # << >> PROVE buffer.next - 1 \in Seqs(s)
        <3>1. Len(s) \in 1 .. Len(s)
            <4>. HIDE DEF s
            <4>. QED BY <1>2, <2>1
        <3>2. s[Len(s)].seq = buffer.next - 1
            <4>. HIDE DEF s, k
            <4>. QED BY <1>2, <1>4, <3>1
        <3>. QED BY <3>1, <3>2 DEF Seqs
    <2>2. ASSUME s # << >> PROVE MaxSeq(Seqs(s)) \in Nat /\ buffer.next - 1 <= MaxSeq(Seqs(s))
        <3>1. MaxSeq(Seqs(s)) \in Seqs(s) /\ \A y \in Seqs(s) : y <= MaxSeq(Seqs(s))
            BY <1>2, <2>2, SeqsAreBounded
        <3>. QED BY <1>5, <2>1, <2>2, <3>1
    <2>3. reader[r].cursor <= buffer.next - 1 BY <1>2, <1>3 DEF ReaderIsServed
    <2>. QED BY <1>2, <2>2, <2>3
<1>7. gap \/ k <= reader[r].cursor
    <2>1. ASSUME ~gap PROVE k = 0 \/ k <= reader[r].cursor
        <3>1. ~buffer.gap /\ ~(reader[r].cursor # 0 /\ reader[r].cursor + 1 < first) BY <2>1 DEF gap
        <3>2. k = 0 BY <1>2, <3>1
        <3>. QED BY <3>2
    <2>. HIDE DEF k
    <2>. QED BY <1>2, <2>1
<1> DEFINE x == TakesPage(r, s, gap)
<1>8. reader'[r] = x BY <1>1 DEF ReadersInv
<1>9. ReaderIsTold(r)'
    <2>1. ReaderIsTold(r) BY <1>2 DEF ReaderIsServed
    <2>2. \/ gap
          \/ reader[r].from = "store" /\ refused
          \/ k <= reader[r].cursor /\ \A i \in 1 .. Len(s) : s[i].seq = k + i
        BY <1>2, <1>7
    <2>. HIDE DEF k, s
    <2>3. PageIsTold(r, x) BY <1>2, <1>6, <2>1, <2>2, PageTold
    <2>. HIDE DEF x
    <2>. QED BY <1>1, <1>8, <2>3 DEF PageIsTold, ReaderIsTold
<1>10. /\ x \in ReaderState /\ x.turnedDown = reader[r].turnedDown /\ x.from = reader[r].from
       /\ x.at = "idle"
       /\ x.cursor = reader[r].cursor \/ x.cursor \in Seqs(s)
    <2>. HIDE DEF s
    <2>. QED BY <1>2, <1>6, PageTaken
<1>. HIDE DEF x
<1>11. ReaderIsServed(r)'
    <2>1. x.cursor < buffer.next BY <1>2, <1>3, <1>5, <1>10 DEF ReaderIsServed
    <2>. QED BY <1>1, <1>2, <1>3, <1>8, <1>9, <1>10, <2>1 DEF ReaderIsServed
<1>. QED BY <1>1, <1>10, <1>11, OthersAreServed DEF x

LEMMA StoredHonest == ASSUME ReadersInv, NEW r \in EventReaders, ReadStored(r) PROVE ReadersInv'
<1> DEFINE page_of == TakesPage(r, history, FALSE)
           x == [page_of EXCEPT !.terminal = TRUE]
<1>1. /\ reader' = [reader EXCEPT ![r] = x] /\ reader[r].from = "store"
      /\ UNCHANGED <<buffer, manager, ended, history, closedRow, refused>>
    BY DEF ReadStored
<1>2. /\ reader[r] \in ReaderState /\ ReaderIsServed(r) /\ history \in Seq(EventSeq)
      /\ reader[r].cursor \in Nat
      /\ ~refused => \A i \in 1 .. Len(history) : history[i].seq = i
    BY ReadersAssumption DEF ReadersInv, HistoryIsOrderly, ReaderState
<1>3. history # << >> => reader[r].cursor <= MaxSeq(Seqs(history))
    <2>1. reader[r].cursor \in {0} \cup Seqs(history) BY <1>1, <1>2 DEF ReaderIsServed
    <2>2. ASSUME history # << >>
          PROVE  /\ \A y \in Seqs(history) : y <= MaxSeq(Seqs(history))
                 /\ MaxSeq(Seqs(history)) \in 0 .. MaxEvents + 1
        BY <1>2, <2>2, SeqsAreBounded
    <2>. QED BY <2>1, <2>2, ReadersAssumption
<1>4. /\ page_of \in ReaderState /\ page_of.turnedDown = reader[r].turnedDown
      /\ page_of.from = reader[r].from
      /\ page_of.at = "idle"
      /\ page_of.cursor = reader[r].cursor \/ page_of.cursor \in Seqs(history)
    BY <1>2, <1>3, PageTaken
<1>5. \/ reader[r].from = "store" /\ refused
      \/ 0 <= reader[r].cursor /\ \A i \in 1 .. Len(history) : history[i].seq = 0 + i
    BY <1>1, <1>2
<1>. HIDE DEF page_of
<1>6. /\ x \in ReaderState /\ x.turnedDown = page_of.turnedDown /\ x.from = page_of.from
      /\ x.at = page_of.at
      /\ x.cursor = page_of.cursor /\ x.seen = page_of.seen /\ x.warned = page_of.warned
    BY <1>4 DEF ReaderState
<1>. HIDE DEF x
<1>7. reader'[r] = x BY <1>1 DEF ReadersInv
<1>8. ReaderIsTold(r)'
    <2>1. PageIsTold(r, page_of) BY <1>2, <1>3, <1>5, PageTold DEF page_of, ReaderIsServed
    <2>. QED BY <1>1, <1>6, <1>7, <2>1 DEF PageIsTold, ReaderIsTold
<1>9. ReaderIsServed(r)'
    <2>1. x.cursor \in {0} \cup Seqs(history)' BY <1>1, <1>2, <1>4, <1>6 DEF ReaderIsServed
    <2>. QED BY <1>1, <1>2, <1>4, <1>6, <1>7, <1>8, <2>1 DEF ReaderIsServed
<1>. QED BY <1>1, <1>6, <1>9, OthersAreServed

(* The steps of the run and of the processes leave what readers have.        *)
LEMMA ReadersStay ==
    ASSUME ReadersInv, HistoryIsOrderly', UNCHANGED <<buffer, reader>>, refused' = refused,
           Seqs(history) \subseteq Seqs(history)'
    PROVE  ReadersInv'
<1>1. BufferIsWhole' BY DEF ReadersInv, BufferIsWhole
<1>2. ASSUME NEW r \in EventReaders PROVE ReaderIsServed(r)'
    <2>1. buffer.next \in Nat /\ reader[r].cursor \in Nat
        BY ReadersAssumption DEF ReadersInv, BufferIsWhole, ReaderState
    <2>2. buffer'.next = buffer.next /\ reader'[r] = reader[r] OBVIOUS
    <2>. QED BY <2>1, <2>2, ServedStays DEF ReadersInv
<1>. QED BY <1>1, <1>2 DEF ReadersInv

LEMMA RunHonest ==
    ASSUME ReadersInv, ManagedRunEnds \/ RowCompleted \/ CloseOrphan PROVE ReadersInv'
<1>1. UNCHANGED <<buffer, history, refused, reader>>
    BY DEF ManagedRunEnds, RowCompleted, CloseOrphan
<1>2. HistoryIsOrderly'
    BY <1>1 DEF ReadersInv, HistoryIsOrderly, ManagedRunEnds, RowCompleted, CloseOrphan
<1>. QED BY <1>1, <1>2, ReadersStay

LEMMA OrphanHonest == ASSUME ReadersInv, EndOrphanStream PROVE ReadersInv'
<1> DEFINE e == [seq |-> MaxSeq(Seqs(history)) + 1, size |-> 1]
<1>1. /\ manager = "reconciling" /\ manager' = "exited"
      /\ UNCHANGED <<buffer, ended, closedRow, refused, reader>>
      /\ history' = Append(history, e) \/ UNCHANGED history
    BY DEF EndOrphanStream
<1>2. /\ history \in Seq(EventSeq) /\ Payload(history) <= BufferBytes /\ closedRow
      /\ ended \in BOOLEAN /\ refused \in BOOLEAN
      /\ \A i \in 1 .. Len(history) : history[i].seq < buffer.next
      /\ ~refused => \A i \in 1 .. Len(history) : history[i].seq = i
      /\ buffer.next \in 1 .. MaxEvents + 1 /\ MaxEvents \in Nat
    BY <1>1, ReadersAssumption DEF ReadersInv, HistoryIsOrderly, BufferIsWhole
<1>3. CASE history' = Append(history, e)
    <2>1. MaxSeq(Seqs(history)) \in 0 .. MaxEvents
        <3>1. CASE history = << >>
            <4>1. Seqs(history) = {} BY <3>1 DEF Seqs
            <4>. QED BY <1>2, <4>1 DEF MaxSeq
        <3>2. CASE history # << >>
            <4>1. MaxSeq(Seqs(history)) \in Seqs(history) /\ MaxSeq(Seqs(history)) \in 0 .. MaxEvents + 1
                BY <1>2, <3>2, SeqsAreBounded
            <4>2. MaxSeq(Seqs(history)) < buffer.next BY <1>2, <4>1 DEF Seqs
            <4>. QED BY <1>2, <4>1, <4>2
        <3>. QED BY <3>1, <3>2
    <2>2. e \in EventSeq /\ e.size = 1 BY <1>2, <2>1 DEF EventSeq, Sizes
    <2>3. ~refused => e.seq = Len(history) + 1
        <3>1. CASE history = << >>
            <4>1. Seqs(history) = {} BY <3>1 DEF Seqs
            <4>. QED BY <3>1, <4>1 DEF MaxSeq
        <3>2. CASE history # << >> /\ ~refused
            <4>1. Seqs(history) = 1 .. Len(history) BY <1>2, <3>2 DEF Seqs
            <4>. QED BY <1>2, <4>1, SeenInARow
        <3>. QED BY <3>1, <3>2
    <2>. HIDE DEF e
    <2>4. /\ history' \in Seq(EventSeq) /\ Len(history') = Len(history) + 1
          /\ \A i \in 1 .. Len(history) : history'[i] = history[i]
          /\ history'[Len(history) + 1] = e
        BY <1>2, <1>3, <2>2
    <2>5. Payload(history') <= BufferBytes
        <3>1. Payload(history') = Payload(history) + 0 /\ Payload(history) \in Nat
            BY <1>2, <1>3, <2>2, BytesAddUp
        <3>. QED BY <1>2, <3>1
    <2>6. ASSUME ~refused, NEW i \in 1 .. Len(history') PROVE history'[i].seq = i
        <3>1. Len(history) \in Nat BY <1>2
        <3>2. CASE i = Len(history) + 1 BY <2>3, <2>4, <2>6, <3>2
        <3>3. CASE i # Len(history) + 1
            <4>1. i \in 1 .. Len(history) BY <2>4, <3>1, <3>3
            <4>. QED BY <1>2, <2>4, <2>6, <4>1
        <3>. QED BY <3>2, <3>3
    <2>7. HistoryIsOrderly' BY <1>1, <1>2, <2>4, <2>5, <2>6 DEF HistoryIsOrderly
    <2>8. Seqs(history) \subseteq Seqs(history)' BY <1>2, <1>3, <2>2, SeqsGrow
    <2>. QED BY <1>1, <2>7, <2>8, ReadersStay
<1>4. CASE UNCHANGED history
    <2>1. HistoryIsOrderly' BY <1>1, <1>2, <1>4 DEF HistoryIsOrderly
    <2>. QED BY <1>1, <1>4, <2>1, ReadersStay
<1>. QED BY <1>1, <1>3, <1>4

LEMMA ExitHonest == ASSUME ReadersInv, OwnerExits PROVE ReadersInv'
<1>1. /\ manager = "up" /\ manager' = "exited"
      /\ reader' = [r \in EventReaders |-> IF reader[r].from = "memory"
                                           THEN [reader[r] EXCEPT !.at = "dead"] ELSE reader[r]]
      /\ UNCHANGED <<buffer, ended, history, closedRow, refused>>
    BY DEF OwnerExits
<1>2. BufferIsWhole' BY <1>1 DEF ReadersInv, BufferIsWhole
<1>3. HistoryIsOrderly' BY <1>1 DEF ReadersInv, HistoryIsOrderly
<1>4. ASSUME NEW r \in EventReaders PROVE reader'[r] \in ReaderState /\ ReaderIsServed(r)'
    <2>1. reader[r] \in ReaderState /\ ReaderIsServed(r) BY DEF ReadersInv
    <2>2. CASE reader[r].from = "memory"
        <3> DEFINE x == [reader[r] EXCEPT !.at = "dead"]
        <3>1. reader'[r] = x BY <1>1, <2>2
        <3>2. /\ x \in ReaderState /\ x.at = "dead" /\ x.turnedDown = reader[r].turnedDown
              /\ x.from = reader[r].from /\ x.cursor = reader[r].cursor
              /\ x.warned = reader[r].warned /\ x.seen = reader[r].seen
            BY <2>1 DEF ReaderState
        <3>. HIDE DEF x
        <3>3. ReaderIsTold(r)' BY <1>1, <2>1, <3>1, <3>2 DEF ReaderIsServed, ReaderIsTold
        <3>. QED BY <1>1, <2>1, <2>2, <3>1, <3>2, <3>3 DEF ReaderIsServed
    <2>3. CASE reader[r].from # "memory"
        <3>1. reader'[r] = reader[r] BY <1>1, <2>3
        <3>2. ReaderIsTold(r)' BY <1>1, <2>1, <3>1 DEF ReaderIsServed, ReaderIsTold
        <3>. QED BY <1>1, <2>1, <3>1, <3>2 DEF ReaderIsServed, Seqs
    <2>. QED BY <2>2, <2>3
<1>5. reader' \in [EventReaders -> ReaderState]
    <2>1. reader' = [r \in EventReaders |-> reader'[r]] BY <1>1
    <2>. QED BY <1>4, <2>1
<1>. QED BY <1>2, <1>3, <1>4, <1>5 DEF ReadersInv

LEMMA ReadersStart == ReadersInit => ReadersInv
<1>. SUFFICES ASSUME ReadersInit PROVE ReadersInv OBVIOUS
<1>1. /\ buffer = [events |-> << >>, next |-> 1, gap |-> FALSE]
      /\ manager = "up" /\ ended = FALSE /\ history = << >> /\ closedRow = FALSE /\ refused = FALSE
    BY DEF ReadersInit
<1>2. BufferIsWhole BY <1>1, EmptyStream, ReadersAssumption DEF BufferIsWhole
<1>3. HistoryIsOrderly
    <2>1. /\ history \in Seq(EventSeq) /\ Payload(history) <= BufferBytes /\ Len(history) = 0
          /\ buffer.next = 1
        BY <1>1, EmptyStream, ReadersAssumption
    <2>2. \A i \in 1 .. Len(history) : FALSE BY <2>1
    <2>3. Len(history) = buffer.next - 1 BY <2>1
    <2>4. /\ ended \in BOOLEAN /\ closedRow \in BOOLEAN /\ refused \in BOOLEAN
          /\ manager \in {"up", "exited", "reconciling"} /\ manager # "reconciling"
        BY <1>1
    <2>. QED BY <2>1, <2>2, <2>3, <2>4, Zenon DEF HistoryIsOrderly
<1>4. PICK from \in [EventReaders -> {"memory", "store"}] :
        reader = [r \in EventReaders |->
            [at |-> "idle", from |-> from[r], cursor |-> 0, seen |-> {}, terminal |-> FALSE,
             last |-> FALSE, warned |-> FALSE, turnedDown |-> FALSE]]
    BY DEF ReadersInit
<1>5. ASSUME NEW r \in EventReaders PROVE reader[r] \in ReaderState /\ ReaderIsServed(r)
    <2>1. reader[r] = [at |-> "idle", from |-> from[r], cursor |-> 0, seen |-> {}, terminal |-> FALSE,
                       last |-> FALSE, warned |-> FALSE, turnedDown |-> FALSE]
        BY <1>4
    <2>2. reader[r] \in ReaderState BY <1>4, <2>1, ReadersAssumption DEF ReaderState
    <2>3. ReaderIsTold(r)
        <3>1. reader[r].seen = 1 .. 0 /\ reader[r].cursor <= 0 BY <2>1
        <3>. QED BY <3>1 DEF ReaderIsTold
    <2>. QED BY <1>1, <2>1, <2>2, <2>3 DEF ReaderIsServed
<1>6. reader \in [EventReaders -> ReaderState] BY <1>4, <1>5
<1>. QED BY <1>2, <1>3, <1>5, <1>6 DEF ReadersInv

LEMMA ReadersKeep == ReadersInv /\ [ReadersNext]_readVars => ReadersInv'
<1>. SUFFICES ASSUME ReadersInv, [ReadersNext]_readVars PROVE ReadersInv' OBVIOUS
<1>1. ASSUME NEW size \in Sizes, push_event(size) PROVE ReadersInv' BY <1>1, PushHonest
<1>2. CASE ManagedRunEnds \/ RowCompleted \/ CloseOrphan BY <1>2, RunHonest
<1>3. CASE OwnerExits BY <1>3, ExitHonest
<1>4. CASE EndOrphanStream BY <1>4, OrphanHonest
<1>5. ASSUME NEW r \in EventReaders, ReadMetadata(r) PROVE ReadersInv' BY <1>5, MetadataHonest
<1>6. ASSUME NEW r \in EventReaders, ReadBuffer(r) PROVE ReadersInv' BY <1>6, BufferHonest
<1>7. ASSUME NEW r \in EventReaders, ReadStored(r) PROVE ReadersInv' BY <1>7, StoredHonest
<1>8. CASE UNCHANGED readVars
    <2>1. UNCHANGED <<buffer, manager, ended, history, closedRow, refused, reader>> BY <1>8 DEF readVars
    <2>2. HistoryIsOrderly' BY <2>1 DEF ReadersInv, HistoryIsOrderly
    <2>. QED BY <2>1, <2>2, ReadersStay
<1>. QED BY <1>1, <1>2, <1>3, <1>4, <1>5, <1>6, <1>7, <1>8 DEF ReadersNext

LEMMA ReadersAreHonest == ReadersInv => PagesAreHonest
<1>. SUFFICES ASSUME ReadersInv PROVE PagesAreHonest OBVIOUS
<1>1. ReadersTypeOK
    <2>1. /\ buffer.next \in 1 .. MaxEvents + 1 /\ buffer.gap \in BOOLEAN
          /\ buffer.events \in Seq(EventSeq) /\ Bytes(buffer.events) <= BufferBytes
        BY DEF ReadersInv, BufferIsWhole
    <2>2. /\ history \in Seq(EventSeq) /\ Payload(history) <= BufferBytes
          /\ {ended, closedRow, refused} \subseteq BOOLEAN
          /\ manager \in {"up", "exited", "reconciling"}
        BY DEF ReadersInv, HistoryIsOrderly
    <2>. QED BY <2>1, <2>2 DEF ReadersInv, ReadersTypeOK, ReaderState
<1>2. ASSUME NEW r \in EventReaders
      PROVE  /\ ~reader[r].turnedDown
             /\ \/ reader[r].seen = 1 .. MaxSeq(reader[r].seen)
                \/ reader[r].warned
                \/ reader[r].from = "store" /\ refused
    <2>1. ReaderIsServed(r) BY DEF ReadersInv
    <2>2. ASSUME NEW m \in Nat, reader[r].seen = 1 .. m PROVE reader[r].seen = 1 .. MaxSeq(reader[r].seen)
        BY <2>2, SeenInARow
    <2>. QED BY <2>1, <2>2 DEF ReaderIsServed, ReaderIsTold
<1>. QED BY <1>1, <1>2 DEF PagesAreHonest

LEMMA ReadersPart == FilesSpec => ReadersInit /\ [][ReadersNext]_readVars
<1>1. FilesInit => ReadersInit BY DEF FilesInit
<1>2. [FilesNext]_fileVars => [ReadersNext]_readVars BY DEF FilesNext, fileVars
<1>. QED BY <1>1, <1>2, PTL DEF FilesSpec

(* A reader that follows its cursors misses no event it is not told of,      *)
(* unless the store refused one, and no cursor it was given is turned down:  *)
(* for any number of readers and events, any buffer and any page.            *)
THEOREM PagesStayHonest == FilesSpec => []PagesAreHonest
<1>. QED BY ReadersPart, ReadersStart, ReadersKeep, ReadersAreHonest, PTL
=============================================================================
