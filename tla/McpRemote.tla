------------------------------ MODULE McpRemote ------------------------------
(***************************************************************************)
(* The gateway's HTTP session with a remote MCP server                     *)
(* (gateway/remote_transport.rs and its modules).                          *)
(*                                                                         *)
(* Each message the gateway sends is a task of its own; one more task      *)
(* listens to the server's event stream.  The server may forget the        *)
(* session at any time and answers 404 from then on.  Whoever is told so   *)
(* marks the session expired, cancels the requests under way, and the      *)
(* first to get the reinitialize lock initialises a new one, with the      *)
(* session gate held for writing; every POST holds the gate for reading.   *)
(***************************************************************************)
EXTENDS Naturals, FiniteSets

CONSTANTS Requests,      \* requests of the gateway
          Opener,        \* the task that sends notifications/initialized
          Listener,      \* the task of the common event stream
          Canceller,     \* the task that sends the gateway's notifications/cancelled
          MaxSessions,   \* bound on the sessions the server issues
          MaxFaults,     \* bound on lost connections, failed and refused requests
          NoTask

Tasks == Requests \cup {Opener, Listener, Canceller}

ASSUME RemoteTasks == /\ Cardinality({Opener, Listener, Canceller}) = 3
                      /\ {Opener, Listener, Canceller} \cap Requests = {}
                      /\ NoTask \notin Tasks
ASSUME RemoteBounds == {MaxSessions, MaxFaults} \subseteq Nat /\ MaxSessions > 0

VARIABLES session,      \* session_id
          honoured,     \* the session the server knows
          expired,      \* session_expired
          ready,        \* initialized
          generation,   \* session_generation has changed since the listener looked
          gate,         \* session_gate
          reinit,       \* who holds reinitialize
          tokens,       \* the requests whose token is cancelled
          pending,      \* pending
          sweptAway,    \* expired_pending
          cancelSent,   \* cancellations_sent
          task,         \* the tasks
          told,         \* what the gateway got for each request
          posts,        \* history: how often each request was posted
          closed,       \* the transport's own token is cancelled
          faults

remoteVars == <<session, honoured, expired, ready, generation, gate, reinit, tokens, pending, sweptAway,
                cancelSent, task, told, posts, closed, faults>>
sessionState == <<session, honoured, expired, ready, generation, reinit>>
books == <<tokens, pending, sweptAway, cancelSent>>
others == <<told, posts, closed>>

Stages == {"idle", "ready", "noticing", "waiting", "current", "named", "posted", "reading", "resuming",
           "resumed", "refused", "sweep", "extend", "lock", "write", "posting", "opening",
           "cancelling", "cancelGate", "cancelPosted", "concluding",
           "listen", "getting", "streaming", "done"}
InGate == {"posted", "resumed", "cancelPosted", "getting", "lock", "write"}
Outcomes == {"none", "answer", "expired", "cancelled", "late", "failed"}

RemoteTypeOK ==
    /\ session \in 1 .. MaxSessions /\ honoured \in 0 .. MaxSessions
    /\ {expired, ready, generation, closed} \subseteq BOOLEAN
    /\ gate.readers \subseteq Tasks /\ gate.writer \in Tasks \cup {NoTask}
    /\ reinit \in Tasks \cup {NoTask}
    /\ {tokens, pending, sweptAway, cancelSent} \subseteq SUBSET Requests
    /\ task \in [Tasks -> [at : Stages, over : 0 .. MaxSessions, ran : 0 .. MaxSessions,
                           back : Stages, swept : SUBSET Requests, outcome : Outcomes]]
    /\ told \in [Requests -> {"nothing", "answer", "error", "cancelled"}]
    /\ posts \in [Requests -> Nat]
    /\ \A t \in gate.readers : task[t].at \notin Stages \ InGate
    /\ gate.writer # NoTask => reinit = gate.writer /\ task[reinit].at \in {"posting", "opening"}
    /\ faults \in 0 .. MaxFaults

Finished == [at |-> "done", over |-> 0, ran |-> 0, back |-> "done", swept |-> {}, outcome |-> "none"]

RemoteInit ==
    /\ session = 1 /\ honoured = 1
    /\ expired = FALSE
    /\ ready = FALSE
    /\ generation = FALSE
    /\ gate = [readers |-> {}, writer |-> NoTask]
    /\ reinit = NoTask
    /\ tokens = {} /\ pending = {} /\ sweptAway = {} /\ cancelSent = {}
    /\ task = [t \in Tasks |-> [Finished EXCEPT !.at = IF t = Opener THEN "current" ELSE "idle"]]
    /\ told = [r \in Requests |-> "nothing"]
    /\ posts = [r \in Requests |-> 0]
    /\ closed = FALSE
    /\ faults = 0

At(t, stage) == task[t].at = stage
To(t, stage) == task' = [task EXCEPT ![t].at = stage]
ToFor(t, stage, back) == task' = [task EXCEPT ![t].at = stage, ![t].back = back]
Ends(t, stage, outcome) == task' = [task EXCEPT ![t].at = stage, ![t].outcome = outcome]
Fault == faults < MaxFaults /\ faults' = faults + 1

MarkExpiredSilently == expired' = TRUE /\ UNCHANGED generation

(* mark_session_expired.                                                    *)
MarkExpired == expired' = TRUE /\ generation' = (generation \/ ~expired)

(* Who waits for a reader to leave keeps new readers out.                   *)
MayRead == gate.writer = NoTask /\ \A t \in Tasks : ~At(t, "write")
Enter(t) == gate' = [gate EXCEPT !.readers = @ \cup {t}]
Leave(t) == gate' = [gate EXCEPT !.readers = @ \ {t}]
Known(t) == honoured = task[t].over

-----------------------------------------------------------------------------
(* The server forgets the session.                                          *)

Forget ==
    /\ honoured # 0 /\ session < MaxSessions
    /\ honoured' = 0
    /\ UNCHANGED <<session, expired, ready, generation, gate, reinit, books, task, others, faults>>

-----------------------------------------------------------------------------
(* Sending a message: wait_ready, ensure_session_current, the gate, a POST. *)

Senders == Requests \cup {Canceller}

SendRequest(r) ==
    /\ At(r, "idle")
    /\ pending' = pending \cup {r}
    /\ To(r, "ready")
    /\ UNCHANGED <<sessionState, gate, tokens, sweptAway, cancelSent, others, faults>>

(* The gateway's deadline passes or its host cancels: the notification is   *)
(* sent unless the request's own task has sent one.                         *)
CancelRequest(r) ==
    /\ r \in pending /\ told[r] = "nothing"
    /\ Fault
    /\ told' = [told EXCEPT ![r] = "cancelled"]
    /\ tokens' = tokens \cup {r}
    /\ IF r \notin cancelSent /\ At(Canceller, "idle")
       THEN cancelSent' = cancelSent \cup {r} /\ To(Canceller, "ready")
       ELSE UNCHANGED <<cancelSent, task>>
    /\ UNCHANGED <<sessionState, gate, pending, sweptAway, posts, closed>>

WaitReady(t) ==
    /\ At(t, "ready")
    /\ CASE ready -> To(t, "current")
         [] ~ready /\ expired -> ToFor(t, "lock", "ready")
         [] OTHER -> To(t, "noticing")
    /\ UNCHANGED <<sessionState, gate, books, others, faults>>

NoticeReady(t) ==
    /\ At(t, "noticing")
    /\ To(t, IF ready THEN "current" ELSE "waiting")
    /\ UNCHANGED <<sessionState, gate, books, others, faults>>

(* notify_waiters: who waits now looks again.                               *)
Woken(tasks) == [t \in Tasks |-> IF tasks[t].at = "waiting" THEN [tasks[t] EXCEPT !.at = "ready"]
                                                            ELSE tasks[t]]

(* ensure_session_current recovers a session that has expired; under the    *)
(* gate the session is the current one for as long as the gate is held.     *)
EnsureCurrent(t) ==
    /\ At(t, "current") /\ t # Opener /\ expired
    /\ ToFor(t, "lock", "current")
    /\ UNCHANGED <<sessionState, gate, books, others, faults>>

Post(t) ==
    /\ At(t, "current") /\ t # Opener /\ MayRead /\ ~expired
    /\ Enter(t)
    /\ task' = [task EXCEPT ![t].at = "posted", ![t].over = session,
                            ![t].ran = IF t \in Requests THEN session ELSE @]
    /\ posts' = IF t \in Requests THEN [posts EXCEPT ![t] = @ + 1] ELSE posts
    /\ UNCHANGED <<sessionState, books, told, closed, faults>>

(* notifications/initialized asks for no more than the gate, and reads the  *)
(* session's id before it has it.                                           *)
NameSession ==
    /\ At(Opener, "current")
    /\ task' = [task EXCEPT ![Opener].at = "named", ![Opener].over = session]
    /\ UNCHANGED <<sessionState, gate, books, others, faults>>

PostInitialized ==
    /\ At(Opener, "named") /\ MayRead
    /\ Enter(Opener)
    /\ To(Opener, "posted")
    /\ UNCHANGED <<sessionState, books, others, faults>>

PostAccepted(t) ==
    /\ At(t, "posted") /\ t \in Senders /\ Known(t)
    /\ Leave(t)
    /\ To(t, IF t \in Requests THEN "reading" ELSE "done")
    /\ UNCHANGED <<sessionState, books, others, faults>>

PostReplayed(t) ==
    /\ At(t, "posted") /\ t \in Senders /\ ~Known(t)
    /\ MarkExpired
    /\ Leave(t)
    /\ ToFor(t, "sweep", "current")
    /\ UNCHANGED <<session, honoured, ready, reinit, books, others, faults>>

PostRefused(t) ==
    /\ At(t, "posted") /\ t \in Senders /\ ~Known(t)
    /\ MarkExpired
    /\ Leave(t)
    /\ ToFor(t, "sweep", "concluding")
    /\ UNCHANGED <<session, honoured, ready, reinit, books, others, faults>>

PostFails(t) ==
    /\ At(t, "posted") /\ t \in Senders
    /\ Fault
    /\ Leave(t)
    /\ IF t \in Requests THEN Ends(t, "concluding", "failed") ELSE To(t, "done")
    /\ UNCHANGED <<sessionState, books, others>>

(* The answer to it.  When the server has forgotten the session it names,    *)
(* the recovery begins with the gate still held for reading.                *)
OpenSession ==
    /\ At(Opener, "posted") /\ Known(Opener)
    /\ ready' = TRUE
    /\ Leave(Opener)
    /\ task' = [Woken(task) EXCEPT ![Opener].at = "done", ![Listener].at = "listen"]
    /\ UNCHANGED <<session, honoured, expired, generation, reinit, books, others, faults>>

OpenRefused ==
    /\ At(Opener, "posted") /\ ~Known(Opener)
    /\ MarkExpired
    /\ ToFor(Opener, "lock", "done")
    /\ UNCHANGED <<session, honoured, ready, gate, reinit, books, others, faults>>

OpenFails ==
    /\ At(Opener, "posted")
    /\ Fault
    /\ closed' = TRUE
    /\ Leave(Opener)
    /\ To(Opener, "done")
    /\ UNCHANGED <<sessionState, books, told, posts>>

-----------------------------------------------------------------------------
(* Reading the answer, from the POST or from a stream resumed by a GET.     *)

Respond(r) ==
    /\ At(r, "reading") /\ task[r].over = task[r].ran
    /\ told' = [told EXCEPT ![r] = IF @ = "nothing" THEN "answer" ELSE @]
    /\ Ends(r, "concluding", "answer")
    /\ UNCHANGED <<sessionState, gate, books, posts, closed, faults>>

StreamBreaks(r) ==
    /\ At(r, "reading")
    /\ Fault
    /\ To(r, "resuming") \/ Ends(r, "concluding", "failed")
    /\ UNCHANGED <<sessionState, gate, books, others>>

Resume(r) ==
    /\ At(r, "resuming")
    /\ \/ expired /\ ToFor(r, "lock", "resuming") /\ UNCHANGED gate
       \/ /\ ~expired /\ MayRead
          /\ Enter(r)
          /\ task' = [task EXCEPT ![r].at = "resumed", ![r].over = session]
    /\ UNCHANGED <<sessionState, books, others, faults>>

(* The gate is let go before the status is looked at.                       *)
ResumeAnswered(r) ==
    /\ At(r, "resumed")
    /\ Leave(r)
    /\ To(r, IF Known(r) THEN "reading" ELSE "refused")
    /\ UNCHANGED <<sessionState, books, others, faults>>

ResumeFails(r) ==
    /\ At(r, "resumed")
    /\ Fault
    /\ Leave(r)
    /\ To(r, "resuming")
    /\ UNCHANGED <<sessionState, books, others>>

StreamRefused(t) ==
    /\ At(t, "refused")
    /\ MarkExpired
    /\ ToFor(t, "sweep", IF t = Listener THEN "listen" ELSE "concluding")
    /\ UNCHANGED <<session, honoured, ready, gate, reinit, books, others, faults>>

(* A deadline, or the request's token, ends a wait.  A task that recovers   *)
(* the session because it needs one is dropped where it stands; one that    *)
(* was refused itself carries the recovery through.                         *)
Waits == {"waiting", "current", "posted", "reading", "resuming", "resumed"}
Recovers == {"lock", "write", "posting", "opening"}
Needy(t) == task[t].back \in {"ready", "current", "resuming"}

LetGo(t) ==
    /\ gate' = [readers |-> gate.readers \ {t}, writer |-> IF gate.writer = t THEN NoTask ELSE gate.writer]
    /\ reinit' = IF reinit = t THEN NoTask ELSE reinit

TooLate(r) ==
    /\ task[r].at \in Waits
    /\ Fault
    /\ LetGo(r)
    /\ Ends(r, "cancelling", "late")
    /\ UNCHANGED <<session, honoured, expired, ready, generation, books, others>>

Cancelled(r) ==
    /\ r \in tokens
    /\ task[r].at \in Waits \/ (task[r].at \in Recovers /\ Needy(r))
    /\ LetGo(r)
    /\ Ends(r, "cancelling", "cancelled")
    /\ UNCHANGED <<session, honoured, expired, ready, generation, books, others, faults>>

-----------------------------------------------------------------------------
(* cancel_pending_except: the tokens under one lock, the set of those to be *)
(* told under another.                                                      *)

Sweep(t) ==
    /\ At(t, "sweep")
    /\ LET swept == IF t \in Requests THEN pending \ {t} ELSE pending
       IN  /\ tokens' = tokens \cup swept
           /\ task' = [task EXCEPT ![t].at = "extend", ![t].swept = swept]
    /\ UNCHANGED <<sessionState, gate, pending, sweptAway, cancelSent, others, faults>>

Extend(t) ==
    /\ At(t, "extend")
    /\ sweptAway' = sweptAway \cup task[t].swept
    /\ task' = [task EXCEPT ![t].at = "lock", ![t].swept = {}]
    /\ UNCHANGED <<sessionState, gate, tokens, pending, cancelSent, others, faults>>

(* recover_session.                                                         *)

Recovered(tasks, t) ==
    [tasks EXCEPT ![t].at = IF tasks[t].back = "concluding" /\ t = Canceller THEN "done" ELSE tasks[t].back,
                  ![t].outcome = IF @ = "none" /\ tasks[t].back = "concluding" THEN "expired" ELSE @]

LockReinit(t) ==
    /\ At(t, "lock") /\ reinit = NoTask
    /\ IF expired
       THEN reinit' = t /\ ready' = FALSE /\ To(t, "write")
       ELSE task' = Recovered(task, t) /\ UNCHANGED <<reinit, ready>>
    /\ UNCHANGED <<session, honoured, expired, generation, gate, books, others, faults>>

CloseGate(t) ==
    /\ At(t, "write") /\ gate.readers = {}
    /\ gate' = [gate EXCEPT !.writer = t]
    /\ To(t, "posting")
    /\ UNCHANGED <<sessionState, books, others, faults>>

(* The server issues a session; it counts as valid before it is opened.     *)
Reinitialize(t) ==
    /\ At(t, "posting") /\ session < MaxSessions
    /\ session' = session + 1 /\ honoured' = session + 1
    /\ expired' = FALSE
    /\ To(t, "opening")
    /\ UNCHANGED <<ready, generation, gate, reinit, books, others, faults>>

Reopen(t) ==
    /\ At(t, "opening") /\ honoured = session
    /\ expired' = FALSE /\ ready' = TRUE
    /\ LetGo(t)
    /\ task' = Recovered(Woken(task), t)
    /\ UNCHANGED <<session, honoured, generation, books, others, faults>>

(* A failed recovery leaves the session expired for the next who needs it;  *)
(* the listener gives up, a resuming request tries again.                   *)
Refused(t) == (At(t, "posting") /\ session = MaxSessions) \/ (At(t, "opening") /\ honoured # session)

RecoveryFails(t) ==
    /\ task[t].at \in {"posting", "opening"}
    /\ IF Refused(t) THEN UNCHANGED faults ELSE Fault
    /\ MarkExpired
    /\ LetGo(t)
    /\ task' = [Woken(task) EXCEPT
         ![t].at = CASE t \notin Requests -> "done"
                     [] t \in Requests /\ task[t].back = "resuming" -> "resuming"
                     [] OTHER -> "concluding",
         ![t].outcome = IF task[t].back # "resuming" /\ @ = "none" THEN "failed" ELSE @]
    /\ UNCHANGED <<session, honoured, ready, books, others>>

-----------------------------------------------------------------------------
(* How a request's task ends.                                               *)

(* cancel_upstream_request: at most one cancellation per request, over the  *)
(* session there is now.                                                    *)
CancelUpstream(r) ==
    /\ At(r, "cancelling")
    /\ IF expired \/ r \in cancelSent
       THEN To(r, "concluding") /\ UNCHANGED cancelSent
       ELSE To(r, "cancelGate") /\ cancelSent' = cancelSent \cup {r}
    /\ UNCHANGED <<sessionState, gate, tokens, pending, sweptAway, others, faults>>

PostCancel(r) ==
    /\ At(r, "cancelGate") /\ MayRead
    /\ IF expired THEN To(r, "concluding") /\ UNCHANGED gate
       ELSE Enter(r) /\ task' = [task EXCEPT ![r].at = "cancelPosted", ![r].over = session]
    /\ UNCHANGED <<sessionState, books, others, faults>>

CancelAnswered(r) ==
    /\ At(r, "cancelPosted")
    /\ Leave(r)
    /\ IF Known(r)
       THEN To(r, "concluding") /\ UNCHANGED <<expired, generation>>
       ELSE MarkExpired /\ ToFor(r, "sweep", "concluding")
    /\ UNCHANGED <<session, honoured, ready, reinit, books, others, faults>>

(* An error is sent to the gateway unless the request was cancelled; one    *)
(* that was cancelled by a sweep is told all the same.  Its entries go.      *)
Conclude(r) ==
    /\ At(r, "concluding")
    /\ told' = IF task[r].outcome # "answer" /\ told[r] = "nothing" /\ (r \notin tokens \/ r \in sweptAway)
               THEN [told EXCEPT ![r] = "error"] ELSE told
    /\ pending' = pending \ {r} /\ sweptAway' = sweptAway \ {r} /\ cancelSent' = cancelSent \ {r}
    /\ tokens' = tokens \ {r}
    /\ task' = [task EXCEPT ![r] = Finished]
    /\ UNCHANGED <<sessionState, gate, posts, closed, faults>>

-----------------------------------------------------------------------------
(* The common event stream.                                                 *)

(* A new generation drops the stream, or the attempt to open one.           *)
FollowGeneration ==
    /\ generation
    /\ task[Listener].at \in {"listen", "getting", "streaming"}
    /\ generation' = FALSE
    /\ Leave(Listener)
    /\ To(Listener, "listen")
    /\ UNCHANGED <<session, honoured, expired, ready, reinit, books, others, faults>>

OpenStream ==
    /\ At(Listener, "listen") /\ ~generation /\ MayRead
    /\ IF expired
       THEN ToFor(Listener, "sweep", "listen") /\ UNCHANGED gate
       ELSE Enter(Listener) /\ task' = [task EXCEPT ![Listener].at = "getting", ![Listener].over = session]
    /\ UNCHANGED <<sessionState, books, others, faults>>

StreamAnswered ==
    /\ At(Listener, "getting")
    /\ Leave(Listener)
    /\ To(Listener, IF Known(Listener) THEN "streaming" ELSE "refused")
    /\ UNCHANGED <<sessionState, books, others, faults>>

(* An attempt or a stream breaks and is tried again, or for the last time.   *)
StreamLost ==
    /\ task[Listener].at \in {"getting", "streaming"}
    /\ Fault
    /\ Leave(Listener)
    /\ To(Listener, "listen") \/ To(Listener, "done")
    /\ UNCHANGED <<sessionState, books, others>>

-----------------------------------------------------------------------------

Sending(t) == WaitReady(t) \/ NoticeReady(t) \/ EnsureCurrent(t) \/ Post(t) \/ PostAccepted(t) \/ PostRefused(t)
Recovery(t) == \/ StreamRefused(t) \/ Sweep(t) \/ Extend(t) \/ LockReinit(t) \/ CloseGate(t)
               \/ Reinitialize(t) \/ Reopen(t)
Ending(r) == CancelUpstream(r) \/ PostCancel(r) \/ CancelAnswered(r) \/ Conclude(r)
Streaming == FollowGeneration \/ OpenStream \/ StreamAnswered

RemoteNext ==
    /\ ~closed
    /\ \/ Forget \/ NameSession \/ PostInitialized \/ OpenSession \/ OpenRefused \/ OpenFails \/ Streaming \/ StreamLost
       \/ \E t \in Tasks : Sending(t) \/ PostFails(t) \/ Recovery(t) \/ RecoveryFails(t)
       \/ \E r \in Requests : \/ SendRequest(r) \/ CancelRequest(r) \/ Respond(r) \/ StreamBreaks(r)
                              \/ Resume(r) \/ ResumeAnswered(r) \/ ResumeFails(r)
                              \/ TooLate(r) \/ Cancelled(r) \/ Ending(r)

(* What task t does by itself or with an answer to its POST or GET, which    *)
(* it bounds by a deadline.  The GET of the common stream has none.         *)
Proceeds(t) ==
    \/ Sending(t) \/ Recovery(t) \/ (Refused(t) /\ RecoveryFails(t))
    \/ t \in Requests /\ (Resume(t) \/ ResumeAnswered(t) \/ Cancelled(t) \/ Ending(t))
    \/ t = Opener /\ (NameSession \/ PostInitialized \/ OpenSession \/ OpenRefused)
    \/ t = Listener /\ (FollowGeneration \/ OpenStream)

RemoteFairness == \A t \in Tasks : WF_remoteVars(~closed /\ Proceeds(t))

RemoteSpec == RemoteInit /\ [][RemoteNext]_remoteVars /\ RemoteFairness

-----------------------------------------------------------------------------

(* A failed request is never replayed: it is posted once, over whichever     *)
(* session (remote_transport/http.rs:117-123, gateway-contract-review.md:85).*)
NeverReplayed == \A r \in Requests : posts[r] <= 1

(* While a POST is under way the session it names is the current one, and   *)
(* nobody initialises another (remote_transport/http.rs:97-107, 325).  Only *)
(* notifications/initialized may name a session that was replaced while it  *)
(* waited for the gate (http.rs:71-72).                                     *)
PostsStayCurrent ==
    /\ gate.writer # NoTask => gate.readers = {}
    /\ \A t \in gate.readers \ {Opener} : task[t].over = session

(* What the gateway sends it sends once, over the session of the moment.     *)
OneSession == NeverReplayed /\ PostsStayCurrent

(* Every piece is of its type and the session is one, at every step.         *)
RemoteIsSound == RemoteTypeOK /\ OneSession

(* A listener is never left on the stream of a session that was replaced    *)
(* (event_listener.rs:39, 136).                                             *)
StreamFollowsSession ==
    (At(Listener, "streaming") /\ task[Listener].over # session) ~>
        (~At(Listener, "streaming") \/ task[Listener].over = session)

(* A session that is not initialised can become so: it is marked expired    *)
(* for the next request to recover, or a task is initialising it            *)
(* (http.rs:384, messages.rs:17).                                           *)
RecoverableSession ==
    ~ready /\ ~closed => expired \/ reinit # NoTask \/ ~At(Opener, "done")

(* Once notifications/initialized is over, whoever holds the recovery comes  *)
(* to an end with it: the readers let the gate go and nobody else enters     *)
(* (http.rs:319-325).                                                       *)
RecoveryProceeds == reinit # NoTask /\ At(Opener, "done") ~> (reinit = NoTask \/ closed)

(* Recovery ends, and the event stream follows the session it made.          *)
SessionRecovers == StreamFollowsSession /\ RecoveryProceeds

(* So it does when the 404 meets notifications/initialized itself            *)
(* (gateway-contract-review.md:85, http.rs:72-85).                           *)
OpeningRecovers == reinit # NoTask ~> (reinit = NoTask \/ closed)

(* notifications/initialized names the session it opens                     *)
(* (gateway-contract-review.md:85, http.rs:71-72).                          *)
OpeningIsCurrent == At(Opener, "posted") => task[Opener].over = session

(* A request that is over got an answer or an error, unless the gateway     *)
(* cancelled it (remote_transport.rs:209).                                  *)
EndsAreTold == \A r \in Requests : At(r, "done") => told[r] # "nothing"

(* The session is replaced only after the server forgot it, once each time  *)
(* (http.rs:313).                                                           *)
NoNeedlessExpiry == expired /\ faults = 0 => honoured # session
=============================================================================
