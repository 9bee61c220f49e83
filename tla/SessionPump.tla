----------------------------- MODULE SessionPump -----------------------------
(***************************************************************************)
(* One Agent Session inside one runtime: the thread that creates (or       *)
(* resumes) it, the adapter's event stream, the pump thread that drains    *)
(* the stream into the log, and the threads of the hosts that subscribe,   *)
(* close the session or restore a checkpoint.                              *)
(*                                                                         *)
(* `inner` is one mutex.  A section that holds it is one action when the   *)
(* only store writers that ignore the mutex (the append of session.created,*)
(* of a facade-authored session.closed, of checkpoint.restored) commute    *)
(* with it; what such a writer does after its append is an action of its   *)
(* own.                                                                    *)
(***************************************************************************)
EXTENDS Sequences, Naturals, FiniteSets

CONSTANTS Consumers,    \* consumers that subscribe
          Closers,      \* threads dispatching session.close
          Restorers,    \* threads dispatching checkpoint.restore
          Eager,        \* hosts that name the session before its create is answered
          StoreFails,   \* store writes may fail
          MaxReplay,    \* MAX_REPLAY_EVENTS
          MaxEmitted    \* bound on what the adapter emits on its own account

ASSUME EagerAssumption == Eager \subseteq Consumers \cup Closers \cup Restorers
ASSUME StoreFailsAssumption == StoreFails \in BOOLEAN
ASSUME MaxReplayAssumption == MaxReplay \in Nat \ {0}
ASSUME MaxEmittedAssumption == MaxEmitted \in Nat

VARIABLES resumed,      \* the session continues an interrupted one
          creator,      \* the creating thread
          provider,     \* the provider behind the adapter
          running,      \* the adapter has a run in flight
          sent,         \* history: everything the adapter put on its stream
          stream,       \* the part of it the pump has not taken
          pump,         \* the pump thread
          skipIdle,     \* its skip_startup_idle
          known,        \* the session has a row
          log,          \* the session's facts; a fact's seq is its position
          live,         \* the session's entry in Inner.live
          closer,       \* the session.close threads
          restorer,     \* the checkpoint.restore threads
          base,         \* base[c]: where c's latest subscription starts
          chan          \* chan[c]: the seqs sent to c for that subscription

hostVars == <<closer, restorer, base, chan>>
pumpVars == <<pump, skipIdle>>
adapterVars == <<provider, running, sent, stream>>
vars == <<resumed, creator, adapterVars, pumpVars, known, log, live, hostVars>>

Kinds == {"created", "idle", "working", "note", "completed", "interrupted", "closed"}
Facts == Kinds \cup {"checkpoint", "quota", "restored"}
Statuses == {"idle", "working", "interrupted", "closed"}

NotLive == [in |-> FALSE, closed |-> FALSE, subs |-> {}]

TypeOK ==
    /\ resumed \in BOOLEAN /\ running \in BOOLEAN /\ skipIdle \in BOOLEAN /\ known \in BOOLEAN
    /\ creator \in {"new", "started", "recorded", "appended", "spawned", "serving", "failed"}
    /\ provider \in {"off", "on", "dead", "stopped"}
    /\ sent \in Seq(Kinds) /\ stream \in Seq(Kinds)
    /\ pump \in {"none", "spawned", "draining", "checkpoint", "quota", "done"}
    /\ log \in Seq(Facts)
    /\ live \in {NotLive} \cup [in : {TRUE}, closed : BOOLEAN, subs : SUBSET Consumers]
    /\ closer \in [Closers -> [at : {"idle", "stopping", "joining", "closing", "done", "rejected"},
                               saw : BOOLEAN]]
    /\ restorer \in [Restorers -> [at : {"idle", "allowed", "recorded", "done"}, seq : Nat]]
    /\ base \in [Consumers -> Nat]
    /\ chan \in [Consumers -> Seq(Nat)]

(* A resumed session was interrupted in an earlier life.                    *)
Init ==
    /\ resumed \in BOOLEAN
    /\ known = resumed
    /\ log = IF resumed THEN <<"created", "working", "interrupted">> ELSE <<>>
    /\ creator = "new"
    /\ provider = "off" /\ running = FALSE /\ sent = <<>> /\ stream = <<>>
    /\ pump = "none" /\ skipIdle = FALSE
    /\ live = NotLive
    /\ closer = [k \in Closers |-> [at |-> "idle", saw |-> FALSE]]
    /\ restorer = [x \in Restorers |-> [at |-> "idle", seq |-> 0]]
    /\ base = [c \in Consumers |-> 0]
    /\ chan = [c \in Consumers |-> <<>>]

-----------------------------------------------------------------------------
(* The store and the channels.                                              *)

Recorded(f) == log' = Append(log, f)

(* broadcast: to the subscribers of the live entry, none when it is gone.   *)
Broadcast(seq) == chan' = [c \in Consumers |-> IF c \in live.subs THEN Append(chan[c], seq)
                                               ELSE chan[c]]

(* Append under the lock and deliver; a failing append drops the fact.      *)
RecordAndBroadcast(f) ==
    \/ Recorded(f) /\ Broadcast(Len(log) + 1)
    \/ StoreFails /\ UNCHANGED <<log, chan>>

(* The status column: the last status fact, idle before there is one.       *)
Status ==
    LET at == {i \in DOMAIN log : log[i] \in Statuses}
    IN IF at = {} THEN "idle" ELSE log[CHOOSE i \in at : \A j \in at : j <= i]

(* Mutant: the adapter keeps the session it stopped. *)
StopKeepsSession ==
    LET last == IF provider = "on"
                THEN (IF running THEN <<"completed">> ELSE <<>>) \o <<"closed">> ELSE <<>>
    IN /\ sent' = sent \o last
       /\ stream' = stream \o last
       /\ provider' = "dead"
       /\ running' = FALSE

(* The adapter's stop: the run's terminal facts, then its session.closed,   *)
(* unless the provider's death already emitted them.                        *)
Stop ==
    LET last == IF provider = "on"
                THEN (IF running THEN <<"completed">> ELSE <<>>) \o <<"closed">> ELSE <<>>
    IN /\ sent' = sent \o last
       /\ stream' = stream \o last
       /\ provider' = "stopped"
       /\ running' = FALSE

-----------------------------------------------------------------------------
(* session.create, and the continuation of an interrupted session at open.  *)

(* adapter.start announces the session on the stream. *)
StartAdapter ==
    /\ creator = "new"
    /\ \/ /\ provider' = "on"
          /\ sent' = <<"created", "idle">> /\ stream' = sent'
          /\ creator' = IF resumed THEN "recorded" ELSE "started"
       \/ creator' = "failed" /\ UNCHANGED <<provider, sent, stream>>
    /\ UNCHANGED <<resumed, running, pumpVars, known, log, live, hostVars>>

RecordRow ==
    /\ creator = "started"
    /\ \/ known' = TRUE /\ creator' = "recorded" /\ UNCHANGED adapterVars
       \/ StoreFails /\ Stop /\ creator' = "failed" /\ UNCHANGED known
    /\ UNCHANGED <<resumed, pumpVars, log, live, hostVars>>

(* The facade authors the first fact itself, without the lock.              *)
AppendFirst ==
    /\ creator = "recorded"
    /\ \/ /\ Recorded(IF resumed THEN "working" ELSE "created")
          /\ creator' = "appended" /\ UNCHANGED adapterVars
       \/ StoreFails /\ Stop /\ creator' = "failed" /\ UNCHANGED log
    /\ UNCHANGED <<resumed, pumpVars, known, live, hostVars>>

SpawnPump ==
    /\ creator = "appended"
    /\ \/ /\ pump' = "spawned" /\ skipIdle' = resumed
          /\ creator' = "spawned" /\ UNCHANGED <<adapterVars, log>>
       \/ /\ Stop /\ creator' = "failed" /\ UNCHANGED pumpVars
          /\ \/ resumed /\ Recorded("interrupted")
             \/ (resumed => StoreFails) /\ UNCHANGED log
    /\ UNCHANGED <<resumed, known, live, hostVars>>

InsertLive ==
    /\ creator = "spawned"
    /\ live' = [NotLive EXCEPT !.in = TRUE]
    /\ creator' = "serving"
    /\ UNCHANGED <<resumed, adapterVars, pumpVars, known, log, hostVars>>

-----------------------------------------------------------------------------
(* The adapter: an environment that emits what a driver may emit.           *)

Emit(kinds) == sent' = sent \o kinds /\ stream' = stream \o kinds

(* run.start reached the adapter; its host looked the live entry up before. *)
RunStarts ==
    /\ creator = "serving" /\ provider = "on" /\ ~running /\ Len(sent) < MaxEmitted
    /\ Emit(<<"working">>) /\ running' = TRUE
    /\ UNCHANGED <<resumed, creator, provider, pumpVars, known, log, live, hostVars>>

RunNotes ==
    /\ running /\ Len(sent) < MaxEmitted
    /\ Emit(<<"note">>)
    /\ UNCHANGED <<resumed, creator, provider, running, pumpVars, known, log, live, hostVars>>

RunEnds ==
    /\ running
    /\ Emit(<<"completed", "idle">>) /\ running' = FALSE
    /\ UNCHANGED <<resumed, creator, provider, pumpVars, known, log, live, hostVars>>

(* The provider goes away on its own; the adapter still holds the session,  *)
(* so the stream stays open.                                                *)
ProviderDies ==
    /\ provider = "on"
    /\ Emit((IF running THEN <<"completed">> ELSE <<>>) \o <<"interrupted", "closed">>)
    /\ provider' = "dead" /\ running' = FALSE
    /\ UNCHANGED <<resumed, creator, pumpVars, known, log, live, hostVars>>

-----------------------------------------------------------------------------
(* The pump thread.                                                         *)

(* Taking the receiver: a session the adapter no longer holds has none.     *)
TakeStream ==
    /\ pump = "spawned"
    /\ pump' = IF provider = "stopped" THEN "done" ELSE "draining"
    /\ UNCHANGED <<resumed, creator, adapterVars, skipIdle, known, log, live, hostVars>>

(* Mutant: nothing is drained once the live entry is gone. *)
SkippedWithoutEntry(kind) ==
    \/ kind = "created"
    \/ kind = "idle" /\ skipIdle
    \/ ~live.in
    \/ kind = "closed" /\ live.closed

(* The copies of facts the facade authors, and the stale idle.              *)
Skipped(kind) ==
    \/ kind = "created"
    \/ kind = "idle" /\ skipIdle
    \/ kind = "closed" /\ (~live.in \/ live.closed)

Skip ==
    /\ pump = "draining" /\ stream # <<>> /\ Skipped(Head(stream))
    /\ stream' = Tail(stream)
    /\ skipIdle' = (skipIdle /\ Head(stream) # "idle")
    /\ UNCHANGED <<resumed, creator, provider, running, sent, pump, known, log, live, hostVars>>

(* One event, under the lock.  A completed run of a live session has        *)
(* follow-ups; read-only sessions take no checkpoint.                       *)
Drain ==
    /\ pump = "draining" /\ stream # <<>> /\ ~Skipped(Head(stream))
    /\ stream' = Tail(stream)
    /\ RecordAndBroadcast(Head(stream))
    /\ live' = IF Head(stream) = "closed" THEN [live EXCEPT !.closed = TRUE] ELSE live
    /\ pump' = IF Head(stream) # "completed" \/ ~live.in THEN "draining"
               ELSE IF resumed THEN "quota" ELSE "checkpoint"
    /\ skipIdle' = FALSE
    /\ UNCHANGED <<resumed, creator, provider, running, sent, known, closer, restorer, base>>

(* post_run: a checkpoint when the run left a diff, a quota observation     *)
(* when the contract yields one.                                            *)
PostRunCheckpoint ==
    /\ pump = "checkpoint"
    /\ RecordAndBroadcast("checkpoint") \/ UNCHANGED <<log, chan>>
    /\ pump' = "quota"
    /\ UNCHANGED <<resumed, creator, adapterVars, skipIdle, known, live, closer, restorer, base>>

PostRunQuota ==
    /\ pump = "quota"
    /\ RecordAndBroadcast("quota") \/ UNCHANGED <<log, chan>>
    /\ pump' = "draining"
    /\ UNCHANGED <<resumed, creator, adapterVars, skipIdle, known, live, closer, restorer, base>>

(* The stream ends when the adapter lets go of the session.                 *)
PumpEnds ==
    /\ pump = "draining" /\ stream = <<>> /\ provider = "stopped"
    /\ pump' = "done"
    /\ UNCHANGED <<resumed, creator, adapterVars, skipIdle, known, log, live, hostVars>>

PumpStep == TakeStream \/ Skip \/ Drain \/ PostRunCheckpoint \/ PostRunQuota \/ PumpEnds

-----------------------------------------------------------------------------
(* The hosts.  One that is not eager names the session once its create is   *)
(* answered; an eager one has its id from session.list.  A continuation is  *)
(* over before the runtime takes commands.                                  *)

Addressable(host) == creator \in {"serving", "failed"} \/ (host \in Eager /\ ~resumed)

(* The page is truncated past MAX_REPLAY_EVENTS; MAX_REPLAY_BYTES may       *)
(* truncate any page but a page of one.                                     *)
MayTruncate(n) == n > 1
MustTruncate(n) == n > MaxReplay

Page(from) == [i \in 1..(Len(log) - from) |-> from + i]

(* Mutant: the truncated page is sent all the same. *)
SubscribeSendsTruncated(c) ==
    /\ known /\ Addressable(c)
    /\ \E from \in 0..Len(log), truncated \in BOOLEAN :
         /\ truncated => MayTruncate(Len(log) - from)
         /\ MustTruncate(Len(log) - from) => truncated
         /\ base' = [base EXCEPT ![c] = IF truncated THEN Len(log) ELSE from]
         /\ chan' = [chan EXCEPT ![c] = Page(from)]
    /\ live' = IF live.in THEN [live EXCEPT !.subs = @ \cup {c}] ELSE live
    /\ UNCHANGED <<resumed, creator, adapterVars, pumpVars, known, log, closer, restorer>>

(* session.subscribe, with whatever seq the consumer saw last: the replay   *)
(* and the registration under one lock.  A truncated page is not sent; the  *)
(* receipt's snapshot stands for everything up to the head.                 *)
Subscribe(c) ==
    /\ known /\ Addressable(c)
    /\ \E from \in 0..Len(log), truncated \in BOOLEAN :
         /\ truncated => MayTruncate(Len(log) - from)
         /\ MustTruncate(Len(log) - from) => truncated
         /\ base' = [base EXCEPT ![c] = IF truncated THEN Len(log) ELSE from]
         /\ chan' = [chan EXCEPT ![c] = IF truncated THEN <<>> ELSE Page(from)]
    /\ live' = IF live.in THEN [live EXCEPT !.subs = @ \cup {c}] ELSE live
    /\ UNCHANGED <<resumed, creator, adapterVars, pumpVars, known, log, closer, restorer>>

(* Mutant: the entry is marked gone and its subscribers stay. *)
CloseBeginsKeepingSubscribers(k) ==
    /\ closer[k].at = "idle" /\ Addressable(k)
    /\ closer' = [closer EXCEPT ![k] =
         [at |-> IF live.in THEN "stopping"
                 ELSE IF ~known \/ Status = "closed" THEN "rejected" ELSE "closing",
          saw |-> live.closed]]
    /\ live' = [live EXCEPT !.in = FALSE]
    /\ UNCHANGED <<resumed, creator, adapterVars, pumpVars, known, log, restorer, base, chan>>

(* session.close takes the live entry away, or reads the row.               *)
CloseBegins(k) ==
    /\ closer[k].at = "idle" /\ Addressable(k)
    /\ closer' = [closer EXCEPT ![k] =
         [at |-> IF live.in THEN "stopping"
                 ELSE IF ~known \/ Status = "closed" THEN "rejected" ELSE "closing",
          saw |-> live.closed]]
    /\ live' = NotLive
    /\ UNCHANGED <<resumed, creator, adapterVars, pumpVars, known, log, restorer, base, chan>>

CloseStops(k) ==
    /\ closer[k].at = "stopping"
    /\ Stop
    /\ closer' = [closer EXCEPT ![k].at = "joining"]
    /\ UNCHANGED <<resumed, creator, pumpVars, known, log, live, restorer, base, chan>>

(* Mutant: the pump is not joined. *)
CloseJoinsNothing(k) ==
    /\ closer[k].at = "joining"
    /\ closer' = [closer EXCEPT ![k].at = IF closer[k].saw THEN "done" ELSE "closing"]
    /\ UNCHANGED <<resumed, creator, adapterVars, pumpVars, known, log, live, restorer, base, chan>>

(* A close the adapter initiated is in the log already.                     *)
CloseJoins(k) ==
    /\ closer[k].at = "joining" /\ pump = "done"
    /\ closer' = [closer EXCEPT ![k].at = IF closer[k].saw THEN "done" ELSE "closing"]
    /\ UNCHANGED <<resumed, creator, adapterVars, pumpVars, known, log, live, restorer, base, chan>>

(* append_session_closed: no lock, and nobody is told. *)
CloseRecords(k) ==
    /\ closer[k].at = "closing"
    /\ \/ Recorded("closed") /\ closer' = [closer EXCEPT ![k].at = "done"]
       \/ StoreFails /\ closer' = [closer EXCEPT ![k].at = "rejected"] /\ UNCHANGED log
    /\ UNCHANGED <<resumed, creator, adapterVars, pumpVars, known, live, restorer, base, chan>>

CloseStep(k) == CloseStops(k) \/ CloseJoins(k) \/ CloseRecords(k)

(* Mutant: any checkpoint id will do. *)
RestoreAllowedUnrecorded == Status \in {"idle", "interrupted"}

(* checkpoint.restore reads the status and the recorded checkpoints ...     *)
RestoreAllowed ==
    /\ Status \in {"idle", "interrupted"}
    /\ \E i \in DOMAIN log : log[i] = "checkpoint"

RestoreBegins(x) ==
    /\ restorer[x].at = "idle" /\ known /\ Addressable(x)
    /\ restorer' = [restorer EXCEPT ![x].at = IF RestoreAllowed THEN "allowed" ELSE "done"]
    /\ UNCHANGED <<resumed, creator, adapterVars, pumpVars, known, log, live, closer, base, chan>>

(* ... resets the worktree, records the fact, ... *)
RestoreRecords(x) ==
    /\ restorer[x].at = "allowed"
    /\ \/ Recorded("restored")
          /\ restorer' = [restorer EXCEPT ![x] = [at |-> "recorded", seq |-> Len(log) + 1]]
       \/ restorer' = [restorer EXCEPT ![x].at = "done"] /\ UNCHANGED log
    /\ UNCHANGED <<resumed, creator, adapterVars, pumpVars, known, live, closer, base, chan>>

(* ... and only then takes the lock to deliver it.                          *)
RestoreTells(x) ==
    /\ restorer[x].at = "recorded"
    /\ Broadcast(restorer[x].seq)
    /\ restorer' = [restorer EXCEPT ![x].at = "done"]
    /\ UNCHANGED <<resumed, creator, adapterVars, pumpVars, known, log, live, closer, base>>

RestoreStep(x) == RestoreRecords(x) \/ RestoreTells(x)

-----------------------------------------------------------------------------

CreateStep == StartAdapter \/ RecordRow \/ AppendFirst \/ SpawnPump \/ InsertLive

Next ==
    \/ CreateStep
    \/ RunStarts \/ RunNotes \/ RunEnds \/ ProviderDies
    \/ PumpStep
    \/ \E c \in Consumers : Subscribe(c)
    \/ \E k \in Closers : CloseBegins(k) \/ CloseStep(k)
    \/ \E x \in Restorers : RestoreBegins(x) \/ RestoreStep(x)

Spec == Init /\ [][Next]_vars

(* Threads are scheduled; hosts, providers and runs owe nothing.            *)
FairSpec ==
    /\ Spec
    /\ WF_vars(CreateStep) /\ WF_vars(PumpStep)
    /\ \A k \in Closers : WF_vars(CloseStep(k))
    /\ \A x \in Restorers : WF_vars(RestoreStep(x))

-----------------------------------------------------------------------------
(* Properties.                                                              *)

Has(fact) == \E i \in DOMAIN log : log[i] = fact
Serving == creator = "serving"

(* The threads above give a consumer the feed that EventFeed promises: the  *)
(* log's append and the delivery look like one step, a replay and the live  *)
(* events after it neither overlap nor leave a gap (no restorer runs).      *)
Feed == INSTANCE EventFeed WITH head <- Len(log), attached <- live.subs
FeedSpec == Feed!Init /\ [][Feed!Next]_<<Len(log), base, chan, live.subs>>

(* A restore may deliver its fact late, never lose it: an attached consumer *)
(* has been sent every fact since its subscription, save those a restorer   *)
(* is still about to deliver.                                               *)
NothingMissed ==
    \A c \in live.subs : \A n \in (base[c] + 1)..Len(log) :
        \/ \E i \in DOMAIN chan[c] : chan[c][i] = n
        \/ \E x \in Restorers : restorer[x] = [at |-> "recorded", seq |-> n]

(* What the adapter says of its runs reaches the log whole and in order,    *)
(* also when the session is closed underneath the pump: the stream is what  *)
(* is left of `sent`, and the run facts taken from it are those of the log. *)
RunAt(s, n) == {i \in 1..n : s[i] \in {"note", "completed"}}
Taken == Len(sent) - Len(stream)
DrainedInOrder ==
    /\ Len(stream) <= Len(sent) /\ \A i \in DOMAIN stream : stream[i] = sent[Taken + i]
    /\ \E at \in [RunAt(log, Len(log)) -> RunAt(sent, Taken)] :
         /\ \A i \in RunAt(log, Len(log)) : log[i] = sent[at[i]]
         /\ \A i, j \in RunAt(log, Len(log)) : i < j => at[i] < at[j]
         /\ \A n \in RunAt(sent, Taken) : \E i \in RunAt(log, Len(log)) : at[i] = n

(* session.closed is the last fact of a session, and the only one of its    *)
(* kind, whoever closes it (one host closes, none is eager, none restores). *)
ClosedIsLast == \A i \in DOMAIN log : log[i] = "closed" => i = Len(log)

(* A resumed session is not reported idle by the adapter's stale prelude:   *)
(* between the continuation fact and the end of a run no idle is recorded.  *)
ContinuationStands ==
    resumed => \A i \in DOMAIN log : log[i] = "idle" => \E j \in 1..i : log[j] = "completed"

(* post_run facts belong to the run just completed: nothing the adapter     *)
(* emitted stands between run.completed and the checkpoint it led to, and a *)
(* continuation, which runs at least privilege, has no checkpoint.          *)
CheckpointFollowsRun ==
    \A i \in DOMAIN log : log[i] = "checkpoint" =>
        /\ ~resumed
        /\ \E j \in 1..(i - 1) : log[j] = "completed"
                                 /\ \A n \in (j + 1)..(i - 1) : log[n] \notin Kinds

(* The log reads as one orderly session: what the adapter said of its runs  *)
(* is there, in order, the close is last, no idle is stale and a checkpoint *)
(* follows the run it belongs to (commands.rs:289, pump.rs:67, pump.rs:155).*)
LogIsOrderly ==
    TypeOK /\ DrainedInOrder /\ ClosedIsLast /\ ContinuationStands /\ CheckpointFollowsRun

(* checkpoint.restored names a checkpoint the log recorded before.          *)
RestoredWasRecorded ==
    \A i \in DOMAIN log : log[i] = "restored" => \E j \in 1..(i - 1) : log[j] = "checkpoint"

(* A restore is of something recorded, and no consumer misses it            *)
(* (checkpoints.rs:252-311).                                                *)
RestoreIsHonest == NothingMissed /\ RestoredWasRecorded

(* A close that was accepted comes to an end: the pump it joins never waits *)
(* for the closing thread.                                                  *)
CloseSettles ==
    \A k \in Closers : closer[k].at = "stopping" ~> closer[k].at \in {"done", "rejected"}

(* The module comment of pump.rs: a provider-side close is never lost.      *)
ProviderCloseLands ==
    (Serving /\ provider = "dead" /\ pump = "draining" /\ stream = <<>>
        /\ \A k \in Closers : closer[k].at = "idle") => Has("closed")

(* The comment on session_close: session.closed is the last fact.           *)
ClosedOnce == \A i, j \in DOMAIN log : log[i] = "closed" /\ log[j] = "closed" => i = j

(* The comment in session_close: the pump drains the queued events before   *)
(* it exits, so a run's facts are not left on the stream.                   *)
QueueDrained == pump = "done" => RunAt(stream, Len(stream)) = {}

(* The comment on session_subscribe: a consumer that was answered (and sent *)
(* a replay) is attached to the session the runtime is driving.             *)
AnsweredIsAttached == live.in => \A c \in Consumers : chan[c] # <<>> => c \in live.subs

(* The comment on LiveSession.closed: session.closed is in the log.         *)
ClosedFlagTells == live.closed => Has("closed")

(* The comments on pump and session_subscribe: events reach a consumer in   *)
(* order, each once.                                                        *)
DeliveredInOrder == \A c \in Consumers : \A i, j \in DOMAIN chan[c] : i < j => chan[c][i] < chan[c][j]

(* The comment on checkpoint_restore: it runs only on an idle or            *)
(* interrupted session, so no run is under way when the fact lands.         *)
RestoredAtRest ==
    \A i \in DOMAIN log : log[i] = "restored" =>
        \A j \in 1..(i - 1) : log[j] = "working" =>
            \E n \in (j + 1)..(i - 1) : log[n] \in Statuses \ {"working"}
=============================================================================
