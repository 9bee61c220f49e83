------------------------------- MODULE McpHttp -------------------------------
(***************************************************************************)
(* One streamable-HTTP session of the MCP gateway (http.rs and             *)
(* gateway/http.rs): POSTs wait for the answer of the service loop, the    *)
(* loop's own messages queue for the GET stream, and the session ends      *)
(* under them all when its loop stops or a DELETE arrives.                 *)
(*                                                                         *)
(* Each HTTP request has a thread.  A POST registers a waiter under its    *)
(* request id before it queues its message.                                *)
(***************************************************************************)
EXTENDS Naturals, Sequences, FiniteSets, Functions

CONSTANTS Posts,         \* threads of POST requests
          IdOf,          \* the JSON-RPC id each of them carries
          Gets,          \* connections that send GET requests, one after another
          Monitor,       \* the task that waits for the service loop
          Deleter,       \* the thread of a DELETE request
          FrameBytes,    \* sizes of the messages the loop sends on its own
          Capacity,      \* EventQueue.capacity, 0 for none
          NoWaiter

ASSUME HttpThreadsAssumption == Posts \cap Gets = {} /\ {Monitor, Deleter} \cap (Posts \cup Gets) = {}
ASSUME IdOfAssumption == DOMAIN IdOf = Posts
ASSUME FrameBytesAssumption == FrameBytes \in Seq(Nat) /\ Capacity \in Nat
ASSUME NoWaiterAssumption == {NoWaiter, "dead"} \cap Posts = {} /\ NoWaiter # "dead"

VARIABLES post,         \* the POST threads
          mapped,       \* the session is in Shared.sessions
          waiter,       \* SessionShared.pending: whose sender is under an id
          inbound,      \* SessionShared.inbound: is it there, what is queued
          closed,       \* SessionShared.closed
          cancelled,    \* SessionShared.cancellation
          overflowed,   \* SessionShared.overflow
          service,      \* the service loop and the requests it has taken
          finish,       \* where each thread is in finish()
          frames,       \* EventQueue: is its sender there, the frames, bytes used
          pushed,       \* how many frames the loop has tried to push
          get           \* the GET threads, which of them has the receiver

httpVars == <<post, mapped, waiter, inbound, closed, cancelled, overflowed, service, finish, frames,
              pushed, get>>
sessionVars == <<mapped, waiter, inbound, closed, cancelled, overflowed, service, finish>>
streamVars == <<frames, pushed, get>>

Ids == {IdOf[p] : p \in Posts}
Finishers == {Monitor, Deleter} \cup Posts \cup Gets
Dead == "dead"

HttpTypeOK ==
    /\ post \in [Posts -> [at : {"idle", "found", "registered", "waiting", "done"},
                           got : {"nothing", "answer", "ended", "duplicate", "unknown"}]]
    /\ {mapped, closed, cancelled, overflowed} \subseteq BOOLEAN
    /\ waiter \in [Ids -> Posts \cup {NoWaiter, Dead}]
    /\ inbound \in [open : BOOLEAN, queue : Seq(Posts)]
    /\ service \in [up : BOOLEAN, working : SUBSET Posts]
    /\ finish \in [Finishers -> {"no", "close", "cancel", "inbound", "pending", "events"}]
    /\ frames \in [open : BOOLEAN, queue : Seq(DOMAIN FrameBytes), used : Nat]
    /\ pushed \in 0 .. Len(FrameBytes)
    /\ get \in [Gets -> [at : {"idle", "found", "streaming", "writing"},
                         frame : 0 .. Len(FrameBytes)]]

HttpInit ==
    /\ post = [p \in Posts |-> [at |-> "idle", got |-> "nothing"]]
    /\ mapped = TRUE
    /\ waiter = [i \in Ids |-> NoWaiter]
    /\ inbound = [open |-> TRUE, queue |-> <<>>]
    /\ closed = FALSE /\ cancelled = FALSE /\ overflowed = FALSE
    /\ service = [up |-> TRUE, working |-> {}]
    /\ finish = [f \in Finishers |-> "no"]
    /\ frames = [open |-> TRUE, queue |-> <<>>, used |-> 0]
    /\ pushed = 0
    /\ get = [g \in Gets |-> [at |-> "idle", frame |-> 0]]

Reply(p, got) == post' = [post EXCEPT ![p] = [at |-> "done", got |-> got]]
Advance(p, at) == post' = [post EXCEPT ![p].at = at]

-----------------------------------------------------------------------------
(* Shared.session: a session found expired leaves the map and is closed by  *)
(* the thread that found it.                                                *)

Lookup(f) ==
    IF mapped /\ closed
    THEN mapped' = FALSE /\ finish' = [finish EXCEPT ![f] = "close"]
    ELSE UNCHANGED <<mapped, finish>>

FindSession(p) ==
    /\ post[p].at = "idle"
    /\ Lookup(p)
    /\ IF mapped /\ ~closed THEN Advance(p, "found") ELSE Reply(p, "unknown")
    /\ UNCHANGED <<waiter, inbound, closed, cancelled, overflowed, service, streamVars>>

(* The new sender takes the place of one that is under the same id, and     *)
(* goes with its receiver when the request is then rejected.                *)
RegisterWaiter(p) ==
    /\ post[p].at = "found"
    /\ IF waiter[IdOf[p]] = NoWaiter
       THEN waiter' = [waiter EXCEPT ![IdOf[p]] = p] /\ Advance(p, "registered")
       ELSE waiter' = [waiter EXCEPT ![IdOf[p]] = Dead] /\ Reply(p, "duplicate")
    /\ UNCHANGED <<mapped, inbound, closed, cancelled, overflowed, service, finish, streamVars>>

QueueMessage(p) ==
    /\ post[p].at = "registered"
    /\ IF inbound.open /\ service.up
       THEN /\ inbound' = [inbound EXCEPT !.queue = Append(@, p)]
            /\ Advance(p, "waiting")
            /\ UNCHANGED waiter
       ELSE /\ waiter' = [waiter EXCEPT ![IdOf[p]] = NoWaiter]
            /\ Reply(p, "ended")
            /\ UNCHANGED inbound
    /\ UNCHANGED <<mapped, closed, cancelled, overflowed, service, finish, streamVars>>

(* The sender is gone, or the wait of 250 ms is over and the session has    *)
(* closed.                                                                  *)
StopWaiting(p) ==
    /\ post[p].at = "waiting"
    /\ waiter[IdOf[p]] # p \/ closed
    /\ Reply(p, "ended")
    /\ UNCHANGED <<sessionVars, streamVars>>

-----------------------------------------------------------------------------
(* The service loop.                                                        *)

Receive ==
    /\ service.up /\ ~cancelled
    /\ inbound.queue # <<>>
    /\ service' = [service EXCEPT !.working = @ \cup {Head(inbound.queue)}]
    /\ inbound' = [inbound EXCEPT !.queue = Tail(@)]
    /\ UNCHANGED <<post, mapped, waiter, closed, cancelled, overflowed, finish, streamVars>>

Answer(p) ==
    /\ service.up /\ p \in service.working
    /\ service' = [service EXCEPT !.working = @ \ {p}]
    /\ waiter' = [waiter EXCEPT ![IdOf[p]] = NoWaiter]
    /\ IF waiter[IdOf[p]] \in Posts /\ post[waiter[IdOf[p]]].at = "waiting"
       THEN Reply(waiter[IdOf[p]], "answer") ELSE UNCHANGED post
    /\ UNCHANGED <<mapped, inbound, closed, cancelled, overflowed, finish, streamVars>>

(* The buffer is full, or the protocol session fails: run_session cancels,   *)
(* and its monitor finishes the session.                                     *)
ServiceEnds ==
    /\ service.up
    /\ service' = [up |-> FALSE, working |-> {}]
    /\ cancelled' = TRUE
    /\ inbound' = [inbound EXCEPT !.queue = <<>>]
    /\ finish' = [finish EXCEPT ![Monitor] = "close"]
    /\ UNCHANGED <<post, mapped, waiter, closed, overflowed, streamVars>>

PushOvercounted ==
    /\ service.up
    /\ pushed < Len(FrameBytes)
    /\ pushed' = pushed + 1
    /\ LET n == pushed + 1
           over == Capacity > 0 /\ frames.used + FrameBytes[n] > Capacity
       IN  /\ frames' = [frames EXCEPT !.used = @ + FrameBytes[n],
                                      !.queue = IF over \/ ~frames.open THEN @ ELSE Append(@, n)]
           /\ overflowed' = (overflowed \/ over)
    /\ UNCHANGED <<post, mapped, waiter, inbound, closed, cancelled, service, finish, get>>

Push ==
    /\ service.up
    /\ pushed < Len(FrameBytes)
    /\ pushed' = pushed + 1
    /\ LET n == pushed + 1
           over == Capacity > 0 /\ frames.used + FrameBytes[n] > Capacity
       IN  /\ frames' = IF over \/ ~frames.open THEN frames
                        ELSE [frames EXCEPT !.queue = Append(@, n), !.used = @ + FrameBytes[n]]
           /\ overflowed' = (overflowed \/ over)
    /\ UNCHANGED <<post, mapped, waiter, inbound, closed, cancelled, service, finish, get>>

-----------------------------------------------------------------------------
(* finish(), run by the monitor, a DELETE, or who finds the session closed.  *)

Delete ==
    /\ mapped
    /\ mapped' = FALSE
    /\ finish' = [finish EXCEPT ![Deleter] = "close"]
    /\ UNCHANGED <<post, waiter, inbound, closed, cancelled, overflowed, service, streamVars>>

FinishStep(f, step, next) == finish[f] = step /\ finish' = [finish EXCEPT ![f] = next]

MarkClosed(f) ==
    /\ FinishStep(f, "close", "cancel")
    /\ closed' = TRUE
    /\ UNCHANGED <<post, mapped, waiter, inbound, cancelled, overflowed, service, streamVars>>

CancelService(f) ==
    /\ FinishStep(f, "cancel", "inbound")
    /\ cancelled' = TRUE
    /\ UNCHANGED <<post, mapped, waiter, inbound, closed, overflowed, service, streamVars>>

CloseInbound(f) ==
    /\ FinishStep(f, "inbound", "pending")
    /\ inbound' = [inbound EXCEPT !.open = FALSE]
    /\ UNCHANGED <<post, mapped, waiter, closed, cancelled, overflowed, service, streamVars>>

ClearPending(f) ==
    /\ FinishStep(f, "pending", "events")
    /\ waiter' = [i \in Ids |-> NoWaiter]
    /\ UNCHANGED <<post, mapped, inbound, closed, cancelled, overflowed, service, streamVars>>

CloseEvents(f) ==
    /\ FinishStep(f, "events", "no")
    /\ frames' = [frames EXCEPT !.open = FALSE]
    /\ UNCHANGED <<post, mapped, waiter, inbound, closed, cancelled, overflowed, service, pushed, get>>

Finish(f) == MarkClosed(f) \/ CancelService(f) \/ CloseInbound(f) \/ ClearPending(f) \/ CloseEvents(f)

-----------------------------------------------------------------------------
(* GET: one stream at a time; its receiver goes back when it breaks.        *)

Attached == {g \in Gets : get[g].at \in {"streaming", "writing"}}
Stage(g, at, frame) == get' = [get EXCEPT ![g] = [at |-> at, frame |-> frame]]

FindStream(g) ==
    /\ get[g].at = "idle"
    /\ Lookup(g)
    /\ Stage(g, IF mapped /\ ~closed THEN "found" ELSE "idle", 0)
    /\ UNCHANGED <<post, waiter, inbound, closed, cancelled, overflowed, service, frames, pushed>>

Attach(g) ==
    /\ get[g].at = "found"
    /\ Stage(g, IF Attached = {} THEN "streaming" ELSE "idle", 0)
    /\ UNCHANGED <<post, sessionVars, frames, pushed>>

(* The credit of a frame returns when it has been read from the queue.      *)
TakeFrame(g) ==
    /\ get[g].at = "streaming" /\ frames.queue # <<>>
    /\ Stage(g, "writing", Head(frames.queue))
    /\ frames' = [frames EXCEPT !.queue = Tail(@), !.used = @ - FrameBytes[Head(frames.queue)]]
    /\ UNCHANGED <<post, sessionVars, pushed>>

WriteFrame(g) ==
    /\ get[g].at = "writing"
    /\ Stage(g, "streaming", 0)
    /\ UNCHANGED <<post, sessionVars, frames, pushed>>

(* A write fails, of a frame or of the head or a heartbeat, or the queue    *)
(* has closed and is empty.                                                 *)
Detach(g) ==
    /\ g \in Attached
    /\ Stage(g, "idle", 0)
    /\ UNCHANGED <<post, sessionVars, frames, pushed>>

HttpNext ==
    \/ \E p \in Posts : FindSession(p) \/ RegisterWaiter(p) \/ QueueMessage(p) \/ StopWaiting(p) \/ Answer(p)
    \/ Receive \/ ServiceEnds \/ Push \/ Delete
    \/ \E f \in Finishers : Finish(f)
    \/ \E g \in Gets : FindStream(g) \/ Attach(g) \/ TakeFrame(g) \/ WriteFrame(g) \/ Detach(g)

PostRuns(p) == RegisterWaiter(p) \/ QueueMessage(p) \/ StopWaiting(p)
ServiceRuns == Receive \/ (\E p \in Posts : Answer(p)) \/ ((cancelled \/ overflowed) /\ ServiceEnds)
FinishRuns == \E f \in Finishers : Finish(f)

-----------------------------------------------------------------------------

(* A POST is told that the session has ended only when it has, or when      *)
(* another POST came with its id meanwhile (gateway/http.rs:107-122, 175).   *)
EndedIsHonest ==
    \A p \in Posts : post[p].got = "ended" =>
        closed \/ ~service.up \/ \E q \in Posts \ {p} : IdOf[q] = IdOf[p] /\ post[q].got = "duplicate"

(* A duplicate in-flight id is rejected and strands no earlier waiter       *)
(* (gateway/http.rs:107).                                                   *)
DuplicateIsHarmless == \A p \in Posts : post[p].got = "ended" => closed \/ ~service.up

(* Every POST is answered, whichever way the end of the session crosses     *)
(* with it (gateway/http.rs:124, 182).                                      *)
PostsUnderWay == \E p \in Posts : post[p].at \notin {"idle", "done"}

(* The credit of the event queue is that of the frames in it, byte for byte *)
(* and in order, and only the stream in charge may be missing one           *)
(* (http.rs:104).                                                           *)
CreditIsExact ==
    /\ frames.used = Cardinality(UNION {{n} \X (1 .. FrameBytes[n]) : n \in Range(frames.queue)})
    /\ \A i, j \in DOMAIN frames.queue : i < j => frames.queue[i] < frames.queue[j]
    /\ \A g \in Attached : \A i \in DOMAIN frames.queue : get[g].frame < frames.queue[i]
=============================================================================
