----------------------------- MODULE McpProgress -----------------------------
(***************************************************************************)
(* Progress of tool calls on its way from the upstream servers to the host *)
(* (gateway/progress.rs, ProgressRoutes).                                  *)
(*                                                                         *)
(* The token of an upstream request is known only once the request is      *)
(* sent, so progress may come before its route is registered; it is then   *)
(* kept, the latest per token, within a bound on the bytes.  Every method  *)
(* takes the lock once; what is routed is sent to the host after the lock  *)
(* is let go.  Notifications are handled in tasks of their own.            *)
(***************************************************************************)
EXTENDS Naturals, FiniteSets

CONSTANTS ToolCalls,     \* tool calls that ask for progress, each with its upstream token
          ServerOf,      \* the server each call goes to
          BytesOf,       \* size of a notification of each call
          MaxPending,    \* max_pending_bytes
          MaxProgress,   \* per call, bound on its notifications
          NoProgress

ASSUME ToolCallsAssumption ==
    IsFiniteSet(ToolCalls) /\ BytesOf \in [ToolCalls -> Nat] /\ DOMAIN ServerOf = ToolCalls
ASSUME ProgressBounds == MaxPending \in Nat /\ MaxProgress \in [ToolCalls -> Nat]
ASSUME NoProgressAssumption == NoProgress \notin Nat

VARIABLES callAt,        \* where call_tool is
          routes,        \* ProgressState.routes
          early,         \* ProgressState.early: the notification kept for a token
          activeCalls,   \* ProgressState.active_requests
          pendingBytes,  \* ProgressState.pending_bytes
          taken,         \* the early notification register has still to forward
          overflow,      \* the overflow token is cancelled
          emitted,       \* how often each upstream has reported
          wire,          \* notifications that are not handled yet
          sending,       \* notifications being written to the host
          seen           \* history: what the host was sent

progressVars == <<callAt, routes, early, activeCalls, pendingBytes, taken, overflow, emitted, wire,
                  sending, seen>>

Tick == UNION {1 .. MaxProgress[c] : c \in ToolCalls}
ServersCalled == {ServerOf[c] : c \in ToolCalls}

ProgressTypeOK ==
    /\ callAt \in [ToolCalls -> {"idle", "begun", "sent", "forwarding", "bound", "done"}]
    /\ routes \subseteq ToolCalls
    /\ {early, taken} \subseteq [ToolCalls -> Tick \cup {NoProgress}]
    /\ activeCalls \in [ServersCalled -> 0 .. Cardinality(ToolCalls)]
    /\ pendingBytes \in Nat
    /\ overflow \in BOOLEAN
    /\ emitted \in [ToolCalls -> {0} \cup Tick]
    /\ wire \cup sending \subseteq ToolCalls \X Tick
    /\ seen \in [ToolCalls -> SUBSET Tick]

ProgressInit ==
    /\ callAt = [c \in ToolCalls |-> "idle"]
    /\ routes = {}
    /\ early = [c \in ToolCalls |-> NoProgress] /\ taken = early
    /\ activeCalls = [s \in ServersCalled |-> 0]
    /\ pendingBytes = 0
    /\ overflow = FALSE
    /\ emitted = [c \in ToolCalls |-> 0]
    /\ wire = {} /\ sending = {}
    /\ seen = [c \in ToolCalls |-> {}]

Moves(c, from, to) == callAt[c] = from /\ callAt' = [callAt EXCEPT ![c] = to]
Kept(calls) == {c \in calls : early[c] # NoProgress}
Buffered(calls) == UNION {{c} \X (1 .. BytesOf[c]) : c \in Kept(calls)}
Bytes(calls) == Cardinality(Buffered(calls))
DropEarlyUnpaid(calls) ==
    /\ early' = [c \in ToolCalls |-> IF c \in calls THEN NoProgress ELSE early[c]]
    /\ UNCHANGED pendingBytes
DropEarly(calls) ==
    /\ early' = [c \in ToolCalls |-> IF c \in calls THEN NoProgress ELSE early[c]]
    /\ pendingBytes' = pendingBytes - Bytes(calls)

-----------------------------------------------------------------------------
(* call_tool.                                                               *)

BeginCall(c) ==
    /\ Moves(c, "idle", "begun")
    /\ activeCalls' = [activeCalls EXCEPT ![ServerOf[c]] = @ + 1]
    /\ UNCHANGED <<routes, early, pendingBytes, taken, overflow, emitted, wire, sending, seen>>

(* The last active request of a server takes what was kept for it along.    *)
Orphaned(c) ==
    IF activeCalls[ServerOf[c]] = 1 THEN {d \in ToolCalls : ServerOf[d] = ServerOf[c]} ELSE {}

EndCall(c, own) ==
    /\ activeCalls' = [activeCalls EXCEPT ![ServerOf[c]] = @ - 1]
    /\ DropEarly(own \cup Orphaned(c))

CancelUnbound(c) ==
    /\ Moves(c, "begun", "done")
    /\ EndCall(c, {})
    /\ UNCHANGED <<routes, taken, overflow, emitted, wire, sending, seen>>

SendCall(c) ==
    /\ Moves(c, "begun", "sent")
    /\ UNCHANGED <<routes, early, activeCalls, pendingBytes, taken, overflow, emitted, wire, sending,
                   seen>>

Register(c) ==
    /\ Moves(c, "sent", IF early[c] = NoProgress THEN "bound" ELSE "forwarding")
    /\ routes' = routes \cup {c}
    /\ taken' = [taken EXCEPT ![c] = early[c]]
    /\ DropEarly({c})
    /\ UNCHANGED <<activeCalls, overflow, emitted, wire, sending, seen>>

ForwardTaken(c) ==
    /\ Moves(c, "forwarding", "bound")
    /\ sending' = sending \cup {<<c, taken[c]>>}
    /\ taken' = [taken EXCEPT ![c] = NoProgress]
    /\ UNCHANGED <<routes, early, activeCalls, pendingBytes, overflow, emitted, wire, seen>>

(* The upstream has answered, or the call was cancelled or is too late.     *)
RemoveRoute(c) ==
    /\ Moves(c, "bound", "done")
    /\ routes' = routes \ {c}
    /\ EndCall(c, {c})
    /\ UNCHANGED <<taken, overflow, emitted, wire, sending, seen>>

-----------------------------------------------------------------------------
(* Notifications.                                                           *)

Emit(c) ==
    /\ callAt[c] \in {"sent", "forwarding", "bound", "done"}
    /\ emitted[c] < MaxProgress[c]
    /\ emitted' = [emitted EXCEPT ![c] = @ + 1]
    /\ wire' = wire \cup {<<c, emitted[c] + 1>>}
    /\ UNCHANGED <<callAt, routes, early, activeCalls, pendingBytes, taken, overflow, sending, seen>>

Arrives(c, n) == <<c, n>> \in wire /\ wire' = wire \ {<<c, n>>}

Route(c, n) ==
    /\ c \in routes
    /\ Arrives(c, n)
    /\ sending' = sending \cup {<<c, n>>}
    /\ UNCHANGED <<callAt, routes, early, activeCalls, pendingBytes, taken, overflow, emitted, seen>>

(* What was kept for the token is dropped before the new one is measured.   *)
Keep(c, n) ==
    /\ c \notin routes /\ activeCalls[ServerOf[c]] > 0
    /\ Arrives(c, n)
    /\ LET others == pendingBytes - Bytes({c})
       IN  IF others + BytesOf[c] > MaxPending
           THEN /\ early' = [early EXCEPT ![c] = NoProgress]
                /\ pendingBytes' = others
                /\ overflow' = TRUE
           ELSE /\ early' = [early EXCEPT ![c] = n]
                /\ pendingBytes' = others + BytesOf[c]
                /\ UNCHANGED overflow
    /\ UNCHANGED <<callAt, routes, activeCalls, taken, emitted, sending, seen>>

Discard(c, n) ==
    /\ c \notin routes /\ activeCalls[ServerOf[c]] = 0
    /\ Arrives(c, n)
    /\ UNCHANGED <<callAt, routes, early, activeCalls, pendingBytes, taken, overflow, emitted, sending,
                   seen>>

Write(c, n) ==
    /\ <<c, n>> \in sending
    /\ sending' = sending \ {<<c, n>>}
    /\ seen' = [seen EXCEPT ![c] = @ \cup {n}]
    /\ UNCHANGED <<callAt, routes, early, activeCalls, pendingBytes, taken, overflow, emitted, wire>>

ProgressNext ==
    \E c \in ToolCalls :
        \/ BeginCall(c) \/ CancelUnbound(c) \/ SendCall(c) \/ Register(c) \/ ForwardTaken(c) \/ RemoveRoute(c)
        \/ Emit(c)
        \/ \E n \in Tick : Route(c, n) \/ Keep(c, n) \/ Discard(c, n) \/ Write(c, n)

-----------------------------------------------------------------------------

(* The buffer's account is exact whatever the order of calls and            *)
(* notifications: the bytes are those of what is kept, within the bound,    *)
(* each server's counter is of its calls under way, nothing is kept for a   *)
(* server without one, and nothing stays behind for a token that has its    *)
(* route (progress.rs:269).                                                 *)
AccountIsExact ==
    /\ pendingBytes = Bytes(ToolCalls) /\ pendingBytes <= MaxPending
    /\ \A s \in ServersCalled :
        /\ activeCalls[s] = Cardinality({c \in ToolCalls : ServerOf[c] = s /\ callAt[c] \notin {"idle", "done"}})
        /\ activeCalls[s] = 0 => \A c \in ToolCalls : ServerOf[c] = s => early[c] = NoProgress
    /\ \A c \in routes : early[c] = NoProgress

(* Progress is coalesced by token, retaining the latest state: the latest   *)
(* report of a call under way is kept, on its way or with the host, unless  *)
(* the buffer overflowed (progress.rs:269).                                 *)
LatestIsKept ==
    \A c \in ToolCalls :
        callAt[c] \in {"sent", "forwarding", "bound"} /\ emitted[c] > 0 /\ ~overflow =>
            \/ <<c, emitted[c]>> \in wire \cup sending
            \/ emitted[c] \in seen[c] \cup {early[c], taken[c]}
=============================================================================
