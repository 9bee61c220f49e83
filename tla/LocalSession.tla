---------------------------- MODULE LocalSession ----------------------------
(***************************************************************************)
(* What the Codex, ACP and OpenCode adapters' sessions have in common: the *)
(* state the host threads share with the session's driver thread, the      *)
(* calls a host makes, the opening and the stopping of a session, the      *)
(* teardown every exit of the driver ends in, and the agent process.       *)
(*                                                                         *)
(* A session has two queues.  commands carries the hosts' requests, mail   *)
(* what the agent says; the driver prefers commands.  kind is the adapter, *)
(* chosen once.  A run is named by the thread whose send opened it.        *)
(***************************************************************************)
EXTENDS Sequences, Naturals, FiniteSets

CONSTANTS Kinds,        \* the adapters of the instance
          Sends,        \* threads in send_turn
          Answers,      \* threads in answer
          Cancels,      \* threads in cancel
          Selects,      \* threads in set_selection
          Requests,     \* the agent's requests for approval
          EarlyDeath,   \* adapters whose agent may die before the announcement
          AcksExpire,   \* <<adapter, thread>>: its acknowledgement timeout may pass
          JoinsExpire,  \* THREAD_JOIN_TIMEOUT may pass
          MaxLines,     \* per adapter, bound on the agent's messages, ends of turns apart
          MaxCalls,     \* bound on the host threads that call, an overdue one counted twice
          Order,        \* <<adapter, first, second>>: a thread that calls only after another
          None

ASSUME KindsAssumption == Kinds \subseteq {"claude", "codex", "acp", "opencode"}
ASSUME TimeoutsAssumption ==
    /\ EarlyDeath \subseteq Kinds /\ JoinsExpire \in BOOLEAN
    /\ \A expiry \in AcksExpire : expiry[1] \in Kinds
ASSUME BoundsAssumption == MaxCalls \in Nat /\ MaxLines \in [Kinds -> Nat]

Calls == Sends \cup Answers \cup Cancels \cup Selects
ASSUME ThreadsAssumption ==
    /\ Sends \cap (Answers \cup Cancels \cup Selects) = {}
    /\ Answers \cap (Cancels \cup Selects) = {} /\ Cancels \cap Selects = {}
ASSUME NoneAssumption == None \notin Calls \cup Requests
ASSUME OrderAssumption == Order \subseteq Kinds \X Calls \X Calls

VARIABLES kind, start, state, commands, mail, driver, flow, call, stopper, agent, out

vars == <<kind, start, state, commands, mail, driver, flow, call, stopper, agent, out>>

Results == {"completed", "cancelled", "failed"}
Models == {"old", "new"}
NoFlow == [run |-> None, cancel |-> FALSE, open |-> FALSE, status |-> "idle",
           rpcs |-> {}, orphans |-> {}]

Mail(what, run, of) == [what |-> what, run |-> run, of |-> of]
Event(what, run, of) == [what |-> what, run |-> run, of |-> of]
Status(status) == Event(status, None, None)

LocalTypeOK ==
    /\ kind \in Kinds
    /\ start \in {"waiting", "reported", "live", "failed"}
    /\ state \in [closed : BOOLEAN, announced : BOOLEAN, interrupted : BOOLEAN,
                  pendingClose : BOOLEAN, closeEmitted : BOOLEAN, selection : Models,
                  starting : BOOLEAN, active : Sends \cup {None}, pending : SUBSET Requests]
    /\ commands \in Seq([what : {"call", "shutdown"}, by : Calls \cup {None}])
    /\ \A i \in DOMAIN mail : mail[i].run \in Sends \cup {None}
    /\ driver \in {"handshake", "serving", "lost", "stopped", "interrupting", "closing", "exited"}
    /\ flow \in [run : Sends \cup {None}, cancel : BOOLEAN, open : BOOLEAN,
                 status : {"idle", "working", "waiting"},
                 rpcs : SUBSET (Sends \cup Selects), orphans : SUBSET Sends]
    /\ call \in [Calls -> [at : {"idle", "checked", "posted", "clearing", "overdue", "late",
                                  "ok", "failed", "refused"},
                           of : Sends \cup Requests \cup Models \cup {None}]]
    /\ stopper \in {"idle", "closing", "joining", "dropping", "done"}
    /\ agent \in [alive : BOOLEAN, reading : BOOLEAN, offered : Seq(Sends), turns : Seq(Sends),
                  config : SUBSET Selects, asked : SUBSET Requests, open : SUBSET Requests,
                  interrupted : BOOLEAN, lines : Nat,
                  stream : Seq([what : {"delta", "request", "replied", "idle", "busy", "closed"},
                                run : Sends \cup {None}, of : Requests \cup {None}])]
    /\ \A i \in DOMAIN out : out[i].run \in Sends \cup {None}

LocalInit ==
    /\ kind \in Kinds \ {"claude"} /\ start = "waiting"
    /\ state = [closed |-> FALSE, announced |-> FALSE, interrupted |-> FALSE,
                pendingClose |-> FALSE, closeEmitted |-> FALSE, selection |-> "old",
                starting |-> FALSE, active |-> None, pending |-> {}]
    /\ commands = <<>> /\ mail = <<>> /\ driver = "handshake" /\ flow = NoFlow
    /\ call = [t \in Calls |-> [at |-> "idle", of |-> None]] /\ stopper = "idle"
    /\ agent = [alive |-> TRUE, reading |-> TRUE, offered |-> <<>>, turns |-> <<>>,
                config |-> {}, asked |-> {}, open |-> {}, interrupted |-> FALSE,
                lines |-> 0, stream |-> <<>>]
    /\ out = <<>>

-----------------------------------------------------------------------------
(* The pieces the steps below share.                                        *)

Emit(events) == out' = out \o events

(* Only the ACP session replays what came before its announcement.          *)
Replays == kind = "acp"

(* finish_close: the facts it emits and the state it leaves.                *)
Closes(st) == st.announced /\ ~st.closeEmitted
CloseFacts(st) == IF Closes(st) THEN <<Status("closed")>> ELSE <<>>
AfterClose(st) ==
    IF Closes(st) THEN [st EXCEPT !.closed = TRUE, !.closeEmitted = TRUE]
    ELSE IF Replays /\ ~st.announced THEN [st EXCEPT !.closed = TRUE, !.pendingClose = TRUE]
    ELSE st

(* The agent process is gone, with what it worked on.  The reader's end     *)
(* reaches the driver once; OpenCode's prompts, POSTs of their own, fail.   *)
DeadAgent == [agent EXCEPT !.alive = FALSE, !.reading = FALSE, !.offered = <<>>, !.turns = <<>>,
                           !.config = {}, !.open = {}]
LostPrompts == IF kind # "opencode" THEN <<>>
               ELSE [i \in DOMAIN agent.turns |-> Mail("done", agent.turns[i], "failed")]
Closed == Mail("closed", None, None)
AgentDies ==
    IF ~agent.reading THEN mail' = mail \o LostPrompts /\ agent' = DeadAgent
    ELSE IF kind = "opencode"
    THEN /\ mail' = mail \o LostPrompts
         /\ agent' = [DeadAgent EXCEPT !.stream = Append(@, Closed)]
    ELSE mail' = Append(mail, Closed) /\ agent' = DeadAgent

-----------------------------------------------------------------------------
(* Opening: the driver's handshake, start's wait for its report, announce.  *)

HandshakeAnswered ==
    /\ driver = "handshake" /\ agent.alive
    /\ driver' = "serving" /\ start' = IF start = "waiting" THEN "reported" ELSE start
    /\ UNCHANGED <<kind, state, commands, mail, flow, call, stopper, agent, out>>

(* A failed handshake kills the agent; start, when it hears, shuts down.    *)
HandshakeFails ==
    /\ driver = "handshake"
    /\ state' = [state EXCEPT !.closed = TRUE]
    /\ driver' = "exited" /\ commands' = <<>> /\ mail' = <<>>
    /\ agent' = [DeadAgent EXCEPT !.stream = <<>>] /\ start' = "failed"
    /\ UNCHANGED <<kind, flow, call, stopper, out>>

(* The report is late (the thread is None): start kills the agent, shuts down and fails.         *)
StartExpires ==
    /\ start = "waiting" /\ <<kind, None>> \in AcksExpire
    /\ start' = "failed" /\ state' = AfterClose([state EXCEPT !.closed = TRUE])
    /\ commands' = Append(commands, [what |-> "shutdown", by |-> None]) /\ AgentDies
    /\ UNCHANGED <<kind, driver, flow, call, stopper, out>>

(* Mutant: the announcement does not replay a close that was parked. *)
AnnounceForgets ==
    /\ start = "reported"
    /\ start' = "live" /\ state' = [state EXCEPT !.announced = TRUE]
    /\ Emit(<<Status("created"), Status("idle")>>)
    /\ UNCHANGED <<kind, commands, mail, driver, flow, call, stopper, agent>>

(* announce, under the state lock.                                          *)
Announce ==
    /\ start = "reported"
    /\ start' = "live"
    /\ state' = [state EXCEPT !.announced = TRUE, !.pendingClose = FALSE,
                              !.closeEmitted = @ \/ state.pendingClose]
    /\ Emit(<<Status("created"), Status("idle")>>
            \o (IF state.interrupted THEN <<Status("interrupted")>> ELSE <<>>)
            \o (IF state.pendingClose THEN <<Status("closed")>> ELSE <<>>))
    /\ UNCHANGED <<kind, commands, mail, driver, flow, call, stopper, agent>>

-----------------------------------------------------------------------------
(* The host threads.  Each makes one call.                                  *)

Told(t, at) == call' = [call EXCEPT ![t].at = at]

(* A host has the handle once start returned it.                            *)
Unanswered == {u \in Calls : call[u].at \in {"overdue", "late"}}

MayCall(t) ==
    /\ start = "live" /\ call[t].at = "idle"
    /\ \A u \in Calls : <<kind, u, t>> \in Order => call[u].at # "idle"
    /\ Cardinality({u \in Calls : call[u].at # "idle"}) + Cardinality(Unanswered) < MaxCalls

InFlight == state.starting \/ state.active # None

(* send_turn reserves the session and posts under the lock, with the        *)
(* selection of that moment.                                                *)
Send(t) ==
    /\ MayCall(t)
    /\ \/ /\ ~state.closed /\ ~InFlight
          /\ state' = [state EXCEPT !.starting = TRUE]
          /\ commands' = Append(commands, [what |-> "call", by |-> t])
          /\ call' = [call EXCEPT ![t] = [at |-> "posted", of |-> state.selection]]
       \/ /\ state.closed \/ InFlight
          /\ Told(t, "failed") /\ UNCHANGED <<state, commands>>
    /\ UNCHANGED <<kind, start, mail, driver, flow, stopper, agent, out>>

(* Mutant: the entry is taken away when the answer is posted, too late. *)
AnswerLeavesEntry(t) ==
    /\ MayCall(t)
    /\ \E q \in Requests :
         call' = [call EXCEPT ![t] =
                    [at |-> IF ~state.closed /\ q \in state.pending THEN "checked" ELSE "failed",
                     of |-> q]]
    /\ UNCHANGED <<kind, start, state, commands, mail, driver, flow, stopper, agent, out>>

(* answer takes the pending entry; already_resolved when it is gone.        *)
Answer(t) ==
    /\ MayCall(t)
    /\ \E q \in Requests :
         LET taken == ~state.closed /\ q \in state.pending
         IN /\ call' = [call EXCEPT ![t] = [at |-> IF taken THEN "checked" ELSE "failed", of |-> q]]
            /\ state' = IF taken THEN [state EXCEPT !.pending = @ \ {q}] ELSE state
    /\ UNCHANGED <<kind, start, commands, mail, driver, flow, stopper, agent, out>>

(* cancel names a run the host was told of; only the active one passes.     *)
Cancel(t) ==
    /\ MayCall(t)
    /\ \E i \in DOMAIN out :
         /\ out[i].what = "started"
         /\ call' = [call EXCEPT ![t] =
                       [at |-> IF state.active = out[i].run THEN "checked" ELSE "failed",
                        of |-> out[i].run]]
    /\ UNCHANGED <<kind, start, state, commands, mail, driver, flow, stopper, agent, out>>

(* set_selection stores; the ACP session then has the agent told.           *)
Select(t) ==
    /\ MayCall(t)
    /\ \/ /\ ~state.closed /\ ~InFlight
          /\ state' = [state EXCEPT !.selection = "new"]
          /\ Told(t, IF kind = "acp" THEN "checked" ELSE "ok")
       \/ /\ state.closed \/ InFlight
          /\ Told(t, "failed") /\ UNCHANGED state
    /\ UNCHANGED <<kind, start, commands, mail, driver, flow, stopper, agent, out>>

(* Posting without the lock, after the check; it fails once the driver has  *)
(* returned.                                                                *)
PostCommand(t) ==
    /\ call[t].at = "checked"
    /\ \/ /\ driver # "exited" /\ Told(t, "posted")
          /\ commands' = Append(commands, [what |-> "call", by |-> t])
       \/ driver = "exited" /\ Told(t, "failed") /\ UNCHANGED commands
    /\ UNCHANGED <<kind, start, state, mail, driver, flow, stopper, agent, out>>

(* A caller that gave up hears nothing.                                     *)
Heard(t) == call[t].at = "posted"
Replied(t, at) == call' = IF Heard(t) THEN [call EXCEPT ![t].at = at] ELSE call

(* Mutant: only a reply wakes the caller. *)
WaitsForReply(t) ==
    /\ Heard(t) /\ <<kind, t>> \in AcksExpire
    /\ Told(t, IF ~(kind = "opencode" /\ t \in Sends) THEN "failed"
               ELSE IF driver = "exited" THEN "clearing" ELSE "overdue")
    /\ UNCHANGED <<kind, start, state, commands, mail, driver, flow, stopper, agent, out>>

(* No reply: the driver is gone, or the time is up.  Codex and ACP leave    *)
(* the reservation to the driver, OpenCode's send_turn clears it itself,    *)
(* overdue when the driver may still have its message, and late afterwards. *)
GivesUp(t) ==
    /\ Heard(t) /\ (driver = "exited" \/ <<kind, t>> \in AcksExpire)
    /\ Told(t, IF ~(kind = "opencode" /\ t \in Sends) THEN "failed"
               ELSE IF driver = "exited" THEN "clearing" ELSE "overdue")
    /\ UNCHANGED <<kind, start, state, commands, mail, driver, flow, stopper, agent, out>>

ClearPromptStarting(t) ==
    /\ t \in Sends /\ call[t].at \in {"clearing", "overdue"}
    /\ state' = [state EXCEPT !.starting = FALSE]
    /\ Told(t, IF call[t].at = "overdue" THEN "late" ELSE "failed")
    /\ UNCHANGED <<kind, start, commands, mail, driver, flow, stopper, agent, out>>

CallStep(t) == PostCommand(t) \/ GivesUp(t) \/ ClearPromptStarting(t)

-----------------------------------------------------------------------------
(* shutdown, and close_transport when the adapter is dropped.               *)

StopBegins ==
    /\ start = "live" /\ stopper = "idle"
    /\ state' = [state EXCEPT !.closed = TRUE] /\ stopper' \in {"closing", "dropping"}
    /\ UNCHANGED <<kind, start, commands, mail, driver, flow, call, agent, out>>

(* reader_cancel: the reader may notice before the Shutdown is posted.      *)
ReaderCancelled ==
    /\ stopper \in {"closing", "dropping"} /\ agent.reading
    /\ agent' = [agent EXCEPT !.reading = FALSE, !.stream = <<>>]
    /\ mail' = Append(mail, Closed)
    /\ UNCHANGED <<kind, start, state, commands, driver, flow, call, stopper, out>>

(* Shutdown is posted and the agent killed; a drop does not wait.           *)
StopKills ==
    /\ stopper \in {"closing", "dropping"}
    /\ commands' = IF driver = "exited" THEN commands
                   ELSE Append(commands, [what |-> "shutdown", by |-> None])
    /\ AgentDies
    /\ stopper' = IF stopper = "closing" THEN "joining" ELSE "done"
    /\ UNCHANGED <<kind, start, state, driver, flow, call, out>>

(* join_bounded, then finish_close.                                         *)
StopFinishes ==
    /\ stopper = "joining" /\ (driver = "exited" \/ JoinsExpire)
    /\ Emit(CloseFacts(state)) /\ state' = AfterClose(state) /\ stopper' = "done"
    /\ UNCHANGED <<kind, start, commands, mail, driver, flow, call, agent>>

-----------------------------------------------------------------------------
(* The driver's queues and its exits.                                       *)

TakesCommand(threads) ==
    /\ driver = "serving" /\ commands # <<>>
    /\ Head(commands).by \in threads
    /\ commands' = Tail(commands) /\ UNCHANGED <<kind, start, driver, stopper>>
By == Head(commands).by

(* select! is biased: mail waits until no command is queued.                *)
TakesMail(whats) ==
    /\ driver = "serving" /\ commands = <<>> /\ mail # <<>>
    /\ Head(mail).what \in whats
    /\ mail' = Tail(mail) /\ UNCHANGED <<kind, start, commands, driver, stopper>>
Letter == Head(mail)

(* The loop ends; the pending requests go first.                            *)
OnShutdown ==
    /\ driver = "serving" /\ commands # <<>> /\ Head(commands).what = "shutdown"
    /\ driver' = "stopped" /\ state' = [state EXCEPT !.pending = {}] /\ flow' = NoFlow
    /\ UNCHANGED <<kind, start, commands, mail, call, stopper, agent, out>>

OnClosed ==
    /\ driver = "serving" /\ commands = <<>> /\ mail # <<>> /\ Letter.what = "closed"
    /\ driver' = "lost" /\ state' = [state EXCEPT !.pending = {}] /\ flow' = NoFlow
    /\ UNCHANGED <<kind, start, commands, mail, call, stopper, agent, out>>

(* teardown: the agent is reaped, the run in flight gets its end, and       *)
(* mark_closed refuses what comes later.                                    *)
Reaps ==
    /\ driver \in {"lost", "stopped"}
    /\ Emit(IF state.active = None THEN <<>>
            ELSE <<Event(IF driver = "lost" THEN "failed" ELSE "cancelled", state.active, None)>>)
    /\ state' = [state EXCEPT !.closed = TRUE, !.pending = {}, !.starting = FALSE, !.active = None]
    /\ agent' = [DeadAgent EXCEPT !.stream = <<>>] /\ mail' = <<>>
    /\ driver' = IF driver = "lost" THEN "interrupting" ELSE "closing"
    /\ UNCHANGED <<kind, start, commands, flow, call, stopper>>

(* A lost connection: the ACP session parks the status for announce and     *)
(* never lets it follow the close; the others emit it whatever came before. *)
Interrupts ==
    /\ driver = "interrupting" /\ driver' = "closing"
    /\ IF Replays
       THEN /\ state' = [state EXCEPT !.interrupted = TRUE]
            /\ Emit(IF Closes(state) THEN <<Status("interrupted")>> ELSE <<>>)
       ELSE Emit(<<Status("interrupted")>>) /\ UNCHANGED state
    /\ UNCHANGED <<kind, start, commands, mail, flow, call, stopper, agent>>

DriverCloses ==
    /\ driver = "closing" /\ driver' = "exited"
    /\ Emit(CloseFacts(state)) /\ state' = AfterClose(state)
    /\ commands' = <<>>
    /\ UNCHANGED <<kind, start, mail, flow, call, stopper, agent>>

(* The end of a run the agent reported: open messages, then run.completed.  *)
RunEnds(run, result) ==
    (IF flow.open THEN <<Event("messageDone", run, None)>> ELSE <<>>)
    \o <<Event(result, run, None)>>
IdleUnlessClosed == IF state.closed THEN <<>> ELSE <<Status("idle")>>

(* A request of the agent is parked and offered to the hosts.               *)
Offered(q) == <<Status("waiting"), Event("requested", flow.run, q)>>

TeardownStep == OnShutdown \/ OnClosed \/ Reaps \/ Interrupts \/ DriverCloses

-----------------------------------------------------------------------------
(* The agent, as the adapters' protocols have it: it works on one prompt at *)
(* a time and says what it says in order.  Codex and ACP agents have one    *)
(* pipe; OpenCode's events travel on a stream of their own, its answers to  *)
(* prompts do not.                                                          *)

Speaks(letter) ==
    IF kind = "opencode"
    THEN agent.reading /\ UNCHANGED mail
    ELSE mail' = Append(mail, letter)
Streamed(letter) == IF kind = "opencode" THEN <<letter>> ELSE <<>>

SaysOnly == UNCHANGED <<kind, start, state, commands, driver, flow, call, stopper, out>>
Working == agent.alive /\ agent.reading /\ agent.turns # <<>>
Turn == Head(agent.turns)
MayTalk == Working /\ agent.lines < MaxLines[kind]

AgentTalks ==
    /\ MayTalk /\ Speaks(Mail("delta", Turn, None))
    /\ agent' = [agent EXCEPT !.lines = @ + 1, !.stream = @ \o Streamed(Mail("delta", Turn, None))]
    /\ SaysOnly

AgentAsks ==
    /\ MayTalk
    /\ \E q \in Requests \ agent.asked :
         /\ Speaks(Mail("request", Turn, q))
         /\ agent' = [agent EXCEPT !.lines = @ + 1, !.asked = @ \cup {q}, !.open = @ \cup {q},
                                   !.stream = @ \o Streamed(Mail("request", Turn, q))]
    /\ SaysOnly

(* Another client of the OpenCode server answers.                           *)
AgentIsAnswered ==
    /\ Working /\ kind = "opencode"
    /\ \E q \in agent.open :
         agent' = [agent EXCEPT !.open = @ \ {q}, !.stream = Append(@, Mail("replied", Turn, q))]
    /\ UNCHANGED mail /\ SaysOnly

(* The OpenCode server states whether it is busy.                           *)
AgentStates ==
    /\ agent.alive /\ agent.reading /\ agent.lines < MaxLines[kind] /\ kind = "opencode"
    /\ agent' = [agent EXCEPT !.lines = @ + 1,
                     !.stream = Append(@, Mail(IF agent.turns = <<>> THEN "idle" ELSE "busy", None, None))]
    /\ UNCHANGED mail /\ SaysOnly

(* A prompt ends: well when nothing it asked is open, aborted when it was   *)
(* interrupted, badly at any time.                                          *)
AgentEnds ==
    /\ Working
    /\ \E result \in Results :
         /\ result = "completed" => agent.open = {}
         /\ result = "cancelled" => agent.interrupted
         /\ mail' = Append(mail, Mail("done", Turn, result))
    /\ agent' = [agent EXCEPT !.turns = Tail(@), !.open = {}, !.interrupted = FALSE]
    /\ SaysOnly

(* Codex answers turn/start, and works on one turn at a time.               *)
AgentAccepts ==
    /\ agent.alive /\ agent.reading /\ agent.offered # <<>> /\ agent.turns = <<>>
    /\ \/ /\ agent' = [agent EXCEPT !.offered = Tail(@), !.turns = <<Head(agent.offered)>>]
          /\ mail' = Append(mail, Mail("accepted", Head(agent.offered), None))
       \/ /\ agent' = [agent EXCEPT !.offered = Tail(@)]
          /\ mail' = Append(mail, Mail("refused", Head(agent.offered), None))
    /\ SaysOnly

(* An ACP agent answers session/set_config_option.                          *)
AgentConfigures ==
    /\ agent.alive /\ agent.reading
    /\ \E t \in agent.config, verdict \in {"configured", "misconfigured"} :
         /\ agent' = [agent EXCEPT !.config = @ \ {t}]
         /\ mail' = Append(mail, Mail(verdict, None, t))
    /\ SaysOnly

(* OpenCode's event stream delivers.                                        *)
EventArrives ==
    /\ agent.stream # <<>> /\ driver # "exited"
    /\ mail' = Append(mail, Head(agent.stream))
    /\ agent' = [agent EXCEPT !.stream = Tail(@)]
    /\ SaysOnly

AgentLeaves ==
    /\ agent.alive /\ driver = "serving" /\ (start = "live" \/ kind \in EarlyDeath)
    /\ AgentDies /\ SaysOnly

AgentStep ==
    \/ AgentTalks \/ AgentAsks \/ AgentIsAnswered \/ AgentStates \/ AgentEnds
    \/ AgentAccepts \/ AgentConfigures \/ EventArrives \/ AgentLeaves

StartStep == HandshakeAnswered \/ HandshakeFails \/ StartExpires \/ Announce
StopStep == ReaderCancelled \/ StopKills \/ StopFinishes
HostStep ==
    \/ \E t \in Sends : Send(t)
    \/ \E t \in Answers : Answer(t)
    \/ \E t \in Cancels : Cancel(t)
    \/ \E t \in Selects : Select(t)
    \/ \E t \in Calls : CallStep(t)
    \/ StopBegins
=============================================================================
