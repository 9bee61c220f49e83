---------------------------- MODULE ClaudeDriver ----------------------------
(***************************************************************************)
(* One Claude session of the structured adapter: the provider process, the *)
(* reader thread that forwards its lines, the driver thread that owns the  *)
(* pipe, and the threads of the hosts that send, answer, cancel, select    *)
(* and stop.                                                               *)
(*                                                                         *)
(* Commands and provider lines share one queue, the inbox.  A host checks  *)
(* the shared state under its mutex, posts, and waits for the driver's     *)
(* reply.  What the driver does with one input is one action: the state it *)
(* locks on the way commutes with what a host may do in between.           *)
(* SessionDrivers states what a host may rely on.                          *)
(***************************************************************************)
EXTENDS Sequences, Naturals, FiniteSets

CONSTANTS Sends,        \* threads in send_turn; a thread names its run
          Answers,      \* threads in answer
          Cancels,      \* threads in cancel
          Selects,      \* threads in set_selection
          Requests,     \* ids of the provider's control requests
          Decisions,    \* what an answer may decide
          EarlyDeath,   \* the provider may die before the session is announced
          AcksExpire,   \* the threads whose WRITE_ACK_TIMEOUT may pass
          JoinsExpire,  \* THREAD_JOIN_TIMEOUT may pass
          MaxLines,     \* bound on the provider's lines, ends of turns apart
          MaxCalls,     \* bound on the host threads that call, an overdue one counted twice
          Order,        \* pairs of like threads, of which the first calls first
          None

Calls == Sends \cup Answers \cup Cancels \cup Selects

VARIABLES start,        \* the thread in ClaudeAdapter::start
          state,        \* SessionState
          inbox,        \* the queue both kinds of input share
          driver,       \* the driver thread
          flow,         \* its RunFlow: run, cancel requested, message stream open
          call,         \* the host threads and what they were told
          stopper,      \* the thread in shutdown
          provider,     \* the claude process
          out           \* every event the session emitted, in order

vars == <<start, state, inbox, driver, flow, call, stopper, provider, out>>

NoFlow == [run |-> None, cancel |-> FALSE, open |-> FALSE]
Terminal == {"completed", "cancelled", "failed"}
Facts == {"created", "idle", "working", "waiting", "interrupted", "closed", "started", "delta",
          "messageDone", "requested", "resolved"} \cup Terminal
Lines == {"delta", "assistant", "request", "withdrawn", "ok", "error", "aborted", "eof"}
Commands == {"user", "answer", "interrupt", "setModel", "shutdown"}
Models == {"old", "new"}

TypeOK ==
    /\ start \in {"waiting", "reported", "live", "failed"}
    /\ state \in [closed : BOOLEAN, announced : BOOLEAN, closeEmitted : BOOLEAN,
                  active : Sends \cup {None}, pending : SUBSET Requests, selection : Models]
    /\ inbox \in Seq([kind : Lines \cup Commands, of : Calls \cup Requests \cup {None}])
    /\ driver \in {"handshake", "serving", "closing", "exited"}
    /\ flow \in {NoFlow} \cup [run : Sends, cancel : BOOLEAN, open : BOOLEAN]
    /\ call \in [Calls -> [at : {"idle", "checked", "posted", "storing", "clearing",
                                  "overdue", "late", "ok", "failed"},
                           of : Sends \cup Requests \cup {None},
                           decision : Decisions \cup {None}]]
    /\ stopper \in {"idle", "closing", "joining", "done"}
    /\ provider \in [alive : BOOLEAN, turns : Nat, asked : SUBSET Requests,
                     open : SUBSET Requests, interrupted : BOOLEAN, model : Models, lines : Nat]
    /\ out \in Seq([what : Facts, run : Sends \cup {None}, of : Sends \cup Requests \cup {None}])

Init ==
    /\ start = "waiting"
    /\ state = [closed |-> FALSE, announced |-> FALSE, closeEmitted |-> FALSE,
                active |-> None, pending |-> {}, selection |-> "old"]
    /\ inbox = <<>> /\ driver = "handshake" /\ flow = NoFlow
    /\ call = [t \in Calls |-> [at |-> "idle", of |-> None, decision |-> None]]
    /\ stopper = "idle"
    /\ provider = [alive |-> TRUE, turns |-> 0, asked |-> {}, open |-> {},
                   interrupted |-> FALSE, model |-> "old", lines |-> 0]
    /\ out = <<>>

-----------------------------------------------------------------------------

Event(what, run, of) == [what |-> what, run |-> run, of |-> of]
Status(status) == Event(status, None, None)
Emit(events) == out' = out \o events

(* The sender half of the queue fails once the driver has returned.         *)
Posted(items) == inbox' = IF driver = "exited" THEN inbox ELSE inbox \o items

Input(kind, of) == [kind |-> kind, of |-> of]

Dead(p) == [p EXCEPT !.alive = FALSE, !.turns = 0, !.open = {}]
Eof == IF provider.alive THEN <<Input("eof", None)>> ELSE <<>>

(* finish_close: session.closed once, and only of an announced session.     *)
CloseFacts(st) ==
    IF st.announced /\ ~st.closeEmitted THEN <<Status("closed")>> ELSE <<>>
AfterClose(st) ==
    IF st.announced /\ ~st.closeEmitted
    THEN [st EXCEPT !.closed = TRUE, !.closeEmitted = TRUE] ELSE st

NoRun(st) == [st EXCEPT !.active = None, !.pending = {}]

(* mark_closed; the queue goes with the driver.                             *)
DriverExits(st) ==
    /\ state' = [NoRun(st) EXCEPT !.closed = TRUE]
    /\ driver' = "exited" /\ flow' = NoFlow /\ inbox' = <<>>

(* close_streams and run.completed.                                         *)
StreamDone == IF flow.open THEN <<Event("messageDone", flow.run, None)>> ELSE <<>>
RunEnds(outcome) == IF flow = NoFlow THEN <<>> ELSE StreamDone \o <<Event(outcome, flow.run, None)>>

-----------------------------------------------------------------------------
(* Opening the session.                                                     *)

HandshakeAnswered ==
    /\ driver = "handshake" /\ provider.alive
    /\ driver' = "serving" /\ start' = "reported"
    /\ UNCHANGED <<state, inbox, flow, call, stopper, provider, out>>

HandshakeFails ==
    /\ driver = "handshake"
    /\ DriverExits(state) /\ provider' = Dead(provider) /\ start' = "failed"
    /\ UNCHANGED <<call, stopper, out>>

Announce ==
    /\ start = "reported"
    /\ state' = [state EXCEPT !.announced = TRUE]
    /\ Emit(<<Status("created"), Status("idle")>>)
    /\ start' = "live"
    /\ UNCHANGED <<inbox, driver, flow, call, stopper, provider>>

-----------------------------------------------------------------------------
(* The host threads.  Each makes one call.                                  *)

Told(t, at) == call' = [call EXCEPT ![t].at = at]

(* A host has the handle once start returned it.                            *)
Unanswered == {u \in Calls : call[u].at \in {"overdue", "late"}}

MayCall(t) ==
    /\ start = "live" /\ call[t].at = "idle"
    /\ \A u \in Calls : <<u, t>> \in Order => call[u].at # "idle"
    /\ Cardinality({u \in Calls : call[u].at # "idle"}) + Cardinality(Unanswered) < MaxCalls

(* send_turn reserves the run and posts under the mutex.                    *)
Send(t) ==
    /\ MayCall(t)
    /\ \/ /\ ~state.closed /\ state.active = None
          /\ Posted(<<Input("user", t)>>) /\ Told(t, "posted")
          /\ state' = [state EXCEPT !.active = t]
       \/ /\ state.closed \/ state.active # None
          /\ Told(t, "failed") /\ UNCHANGED <<state, inbox>>
    /\ UNCHANGED <<start, driver, flow, stopper, provider, out>>

(* answer takes the pending entry away; already_resolved when it is gone.   *)
Answer(t) ==
    /\ MayCall(t)
    /\ \E q \in Requests, decision \in Decisions :
         \/ /\ ~state.closed /\ q \in state.pending
            /\ call' = [call EXCEPT ![t] = [at |-> "checked", of |-> q, decision |-> decision]]
            /\ state' = [state EXCEPT !.pending = @ \ {q}]
         \/ /\ state.closed \/ q \notin state.pending
            /\ call' = [call EXCEPT ![t] = [at |-> "failed", of |-> q, decision |-> decision]]
            /\ UNCHANGED state
    /\ UNCHANGED <<start, inbox, driver, flow, stopper, provider, out>>

(* cancel names a run the host was told of; only the active one passes.     *)
Cancel(t) ==
    /\ MayCall(t)
    /\ \E i \in DOMAIN out :
         /\ out[i].what = "started"
         /\ call' = [call EXCEPT ![t] = [@ EXCEPT !.of = out[i].run,
                       !.at = IF state.active = out[i].run THEN "checked" ELSE "failed"]]
    /\ UNCHANGED <<start, state, inbox, driver, flow, stopper, provider, out>>

Select(t) ==
    /\ MayCall(t)
    /\ Told(t, IF state.closed \/ state.active # None THEN "failed" ELSE "checked")
    /\ UNCHANGED <<start, state, inbox, driver, flow, stopper, provider, out>>

Command(t) == IF t \in Answers THEN "answer" ELSE IF t \in Cancels THEN "interrupt" ELSE "setModel"

(* Posting without the mutex, after the check.                              *)
PostCommand(t) ==
    /\ call[t].at = "checked"
    /\ Posted(<<Input(Command(t), t)>>)
    /\ Told(t, IF driver = "exited" THEN "failed" ELSE "posted")
    /\ UNCHANGED <<start, state, driver, flow, stopper, provider, out>>

(* The reply wakes the caller: a send that failed has its reservation to    *)
(* clear, an accepted selection is to be stored, the others are told.       *)
(* A caller that gave up hears nothing.                                     *)
Replied(t, accepted) ==
    LET at == IF accepted THEN (IF t \in Selects THEN "storing" ELSE "ok")
              ELSE IF t \in Sends THEN "clearing" ELSE "failed"
    IN call' = IF call[t].at = "posted" THEN [call EXCEPT ![t].at = at] ELSE call

(* No reply: the driver is gone, or the time is up and a sender is overdue: *)
(* its message may still be in the queue.                                   *)
GivesUp(t) ==
    /\ call[t].at = "posted" /\ (driver = "exited" \/ t \in AcksExpire)
    /\ Told(t, IF t \notin Sends THEN "failed" ELSE IF driver = "exited" THEN "clearing" ELSE "overdue")
    /\ UNCHANGED <<start, state, inbox, driver, flow, stopper, provider, out>>

(* clear_active_run clears the reservation, whosever it is by now.          *)
ClearReservation(t) ==
    /\ t \in Sends /\ call[t].at \in {"clearing", "overdue"}
    /\ state' = [state EXCEPT !.active = None]
    /\ Told(t, IF call[t].at = "overdue" THEN "late" ELSE "failed")
    /\ UNCHANGED <<start, inbox, driver, flow, stopper, provider, out>>

StoreSelection(t) ==
    /\ call[t].at = "storing"
    /\ state' = [state EXCEPT !.selection = "new"] /\ Told(t, "ok")
    /\ UNCHANGED <<start, inbox, driver, flow, stopper, provider, out>>

CallStep(t) == PostCommand(t) \/ GivesUp(t) \/ ClearReservation(t) \/ StoreSelection(t)

-----------------------------------------------------------------------------
(* shutdown: mark closed, post, kill, join with a bound, finish the close.  *)

StopBegins ==
    /\ start = "live" /\ stopper = "idle"
    /\ state' = [state EXCEPT !.closed = TRUE] /\ stopper' = "closing"
    /\ UNCHANGED <<start, inbox, driver, flow, call, provider, out>>

StopKills ==
    /\ stopper = "closing"
    /\ Posted(<<Input("shutdown", None)>> \o Eof)
    /\ provider' = Dead(provider) /\ stopper' = "joining"
    /\ UNCHANGED <<start, state, driver, flow, call, out>>

StopFinishes ==
    /\ stopper = "joining" /\ (driver = "exited" \/ JoinsExpire)
    /\ Emit(CloseFacts(state)) /\ state' = AfterClose(state)
    /\ stopper' = "done"
    /\ UNCHANGED <<start, inbox, driver, flow, call, provider>>

-----------------------------------------------------------------------------
(* The driver.                                                              *)

Takes(kinds) == driver = "serving" /\ inbox # <<>> /\ Head(inbox).kind \in kinds
Of == Head(inbox).of
NextInput == inbox' = Tail(inbox) /\ UNCHANGED <<start, stopper>>

(* A user message: run.started, working, then the write.                    *)
OnUserMessage ==
    /\ Takes({"user"}) /\ NextInput
    /\ LET begun == <<Event("started", Of, None), Status("working")>>
       IN \/ /\ provider.alive
             /\ flow' = [NoFlow EXCEPT !.run = Of]
             /\ Emit(begun) /\ Replied(Of, TRUE)
             /\ provider' = [provider EXCEPT !.turns = @ + 1]
             /\ UNCHANGED state
          \/ /\ ~provider.alive
             /\ flow' = NoFlow
             /\ Emit(begun \o <<Event("failed", Of, None)>>) /\ Replied(Of, FALSE)
             /\ state' = [state EXCEPT !.active = None]
             /\ UNCHANGED provider
    /\ UNCHANGED driver

(* An answer: the wire, approval.resolved, working; cancel also interrupts  *)
(* the turn.                                                                *)
OnAnswer ==
    /\ Takes({"answer"}) /\ NextInput
    /\ LET q == call[Of].of
           interrupt == call[Of].decision = "cancel"
       IN \/ /\ provider.alive
             /\ Emit(<<Event("resolved", None, q), Status("working")>>)
             /\ provider' = [provider EXCEPT !.open = @ \ {q},
                                             !.interrupted = @ \/ (interrupt /\ provider.turns > 0)]
             /\ flow' = IF interrupt /\ flow # NoFlow THEN [flow EXCEPT !.cancel = TRUE] ELSE flow
             /\ Replied(Of, TRUE)
          \/ ~provider.alive /\ Replied(Of, FALSE) /\ UNCHANGED <<out, provider, flow>>
    /\ UNCHANGED <<state, driver>>

OnInterrupt ==
    /\ Takes({"interrupt"}) /\ NextInput
    /\ \/ /\ provider.alive
          /\ provider' = [provider EXCEPT !.interrupted = provider.turns > 0]
          /\ flow' = IF flow.run = call[Of].of THEN [flow EXCEPT !.cancel = TRUE] ELSE flow
          /\ Replied(Of, TRUE)
       \/ ~provider.alive /\ Replied(Of, FALSE) /\ UNCHANGED <<provider, flow>>
    /\ UNCHANGED <<state, driver, out>>

OnSetModel ==
    /\ Takes({"setModel"}) /\ NextInput
    /\ \/ provider.alive /\ provider' = [provider EXCEPT !.model = "new"] /\ Replied(Of, TRUE)
       \/ ~provider.alive /\ Replied(Of, FALSE) /\ UNCHANGED provider
    /\ UNCHANGED <<state, driver, flow, out>>

(* Lines outside a run emit nothing.                                        *)
OnMessage ==
    /\ Takes({"delta", "assistant"}) /\ NextInput
    /\ \/ flow = NoFlow /\ UNCHANGED <<flow, out>>
       \/ /\ flow # NoFlow /\ Head(inbox).kind = "delta"
          /\ flow' = [flow EXCEPT !.open = TRUE] /\ Emit(<<Event("delta", flow.run, flow.run)>>)
       \/ /\ flow # NoFlow /\ Head(inbox).kind = "assistant"
          /\ flow' = [flow EXCEPT !.open = FALSE] /\ Emit(StreamDone)
    /\ UNCHANGED <<state, driver, call, provider>>

(* can_use_tool parks an Approval Request; outside a run it is refused.     *)
OnControlRequest ==
    /\ Takes({"request"}) /\ NextInput
    /\ \/ /\ flow # NoFlow
          /\ state' = [state EXCEPT !.pending = @ \cup {Of}]
          /\ Emit(<<Status("waiting"), Event("requested", flow.run, Of)>>)
          /\ UNCHANGED provider
       \/ /\ flow = NoFlow
          /\ provider' = [provider EXCEPT !.open = @ \ {Of}]
          /\ UNCHANGED <<state, out>>
    /\ UNCHANGED <<driver, flow, call>>

OnControlCancel ==
    /\ Takes({"withdrawn"}) /\ NextInput
    /\ state' = [state EXCEPT !.pending = @ \ {Of}]
    /\ UNCHANGED <<driver, flow, call, provider, out>>

Outcome(result) ==
    IF result = "aborted" \/ (flow.cancel /\ result = "error") THEN "cancelled"
    ELSE IF result = "error" THEN "failed" ELSE "completed"

(* Mutant: only the run of the flow is reset.                               *)
FinishRunKeepsFlags ==
    /\ Takes({"ok", "error", "aborted"}) /\ NextInput
    /\ Emit(RunEnds(Outcome(Head(inbox).kind))
            \o IF flow = NoFlow \/ state.closed THEN <<>> ELSE <<Status("idle")>>)
    /\ state' = IF flow = NoFlow THEN state ELSE NoRun(state)
    /\ flow' = [flow EXCEPT !.run = None]
    /\ UNCHANGED <<driver, call, provider>>

(* finish_run: the terminal fact, then idle unless the session is closing.  *)
FinishRun ==
    /\ Takes({"ok", "error", "aborted"}) /\ NextInput
    /\ Emit(RunEnds(Outcome(Head(inbox).kind))
            \o IF flow = NoFlow \/ state.closed THEN <<>> ELSE <<Status("idle")>>)
    /\ state' = IF flow = NoFlow THEN state ELSE NoRun(state)
    /\ flow' = NoFlow
    /\ UNCHANGED <<driver, call, provider>>

(* eof_teardown: a lost provider fails the run and interrupts the session;  *)
(* under a requested stop the run is cancelled.                             *)
EofTeardown ==
    /\ Takes({"eof"}) /\ NextInput
    /\ Emit(IF state.closed THEN RunEnds("cancelled")
            ELSE RunEnds("failed") \o <<Status("interrupted")>>)
    /\ state' = [NoRun(state) EXCEPT !.closed = TRUE]
    /\ flow' = NoFlow /\ driver' = "closing"
    /\ UNCHANGED <<call, provider>>

DriverCloses ==
    /\ driver = "closing"
    /\ Emit(CloseFacts(state)) /\ DriverExits(AfterClose(state))
    /\ UNCHANGED <<start, call, stopper, provider>>

OnShutdown ==
    /\ Takes({"shutdown"})
    /\ Emit(RunEnds("cancelled") \o CloseFacts(state)) /\ DriverExits(AfterClose(state))
    /\ UNCHANGED <<start, call, stopper, provider>>

DriverStep ==
    \/ OnUserMessage \/ OnAnswer \/ OnInterrupt \/ OnSetModel
    \/ OnMessage \/ OnControlRequest \/ OnControlCancel
    \/ FinishRun \/ EofTeardown \/ DriverCloses \/ OnShutdown

-----------------------------------------------------------------------------
(* The provider, as the adapter's protocol has it: it works on the messages *)
(* it was given, one turn each, and its lines reach the inbox in order.     *)

Says(items) == Posted(items) /\ UNCHANGED <<start, state, driver, flow, call, stopper, out>>
Working == provider.alive /\ provider.turns > 0
MayTalk == Working /\ provider.lines < MaxLines

Talks ==
    /\ MayTalk
    /\ \E kind \in {"delta", "assistant"} : Says(<<Input(kind, None)>>)
    /\ provider' = [provider EXCEPT !.lines = @ + 1]

Asks ==
    /\ MayTalk
    /\ \E q \in Requests \ provider.asked :
         /\ Says(<<Input("request", q)>>)
         /\ provider' = [provider EXCEPT !.asked = @ \cup {q}, !.open = @ \cup {q}, !.lines = @ + 1]

Withdraws ==
    /\ MayTalk
    /\ \E q \in provider.open :
         /\ Says(<<Input("withdrawn", q)>>)
         /\ provider' = [provider EXCEPT !.open = @ \ {q}, !.lines = @ + 1]

(* A turn succeeds when nothing it asked is open, and may fail at any time. *)
EndsTurn ==
    /\ Working
    /\ \E result \in {"ok", "error", "aborted"} :
         /\ result = "ok" => provider.open = {}
         /\ result = "aborted" => provider.interrupted
         /\ Says(<<Input(result, None)>>)
    /\ provider' = [provider EXCEPT !.turns = @ - 1, !.open = {}, !.interrupted = FALSE]

Dies ==
    /\ provider.alive /\ (start = "live" \/ EarlyDeath)
    /\ Says(<<Input("eof", None)>>)
    /\ provider' = Dead(provider)

ProviderStep == Talks \/ Asks \/ Withdraws \/ EndsTurn \/ Dies

-----------------------------------------------------------------------------

StartStep == HandshakeAnswered \/ HandshakeFails \/ Announce
StopStep == StopKills \/ StopFinishes

Next ==
    \/ StartStep
    \/ \E t \in Sends : Send(t)
    \/ \E t \in Answers : Answer(t)
    \/ \E t \in Cancels : Cancel(t)
    \/ \E t \in Selects : Select(t)
    \/ \E t \in Calls : CallStep(t)
    \/ StopBegins \/ StopStep
    \/ DriverStep
    \/ ProviderStep

-----------------------------------------------------------------------------
(* Statements of the source that do not hold of it.                         *)

At(whats) == {i \in DOMAIN out : out[i].what \in whats}

(* The module comment of session.rs: approval events while the run runs,    *)
(* then one terminal run.completed, then the session status.                *)
CausalOrder ==
    \A i \in At({"resolved"}) : \A n \in At(Terminal) : i < n \/
        \E j \in At({"started"}) : n < j /\ j < i

(* run.cancel concerns the run it names: a run whose result reports an      *)
(* abort was cancelled by a host that named it.                             *)
CancelHitsItsRun ==
    \A n \in At({"cancelled"}) :
        \/ stopper # "idle"
        \/ \E t \in Cancels : call[t].of = out[n].run
        \/ \E t \in Answers : call[t].decision = "cancel"

(* The rejection text of set_selection: the selection cannot change while a *)
(* run is in flight.                                                        *)
SelectionWaits == [][provider.model' # provider.model => flow = NoFlow]_vars
=============================================================================
