---------------------------- MODULE McpConnection ----------------------------
(***************************************************************************)
(* The gateway's connection to one upstream server and the resource        *)
(* subscriptions it carries.                                               *)
(*                                                                         *)
(* Every request of the host takes the connection under its lock; the one  *)
(* that finds it closed shuts it down, connects anew and restores the      *)
(* subscriptions before it lets the lock go.  Registrations live in the    *)
(* gateway, their counterparts in the upstream's session, which dies with  *)
(* the connection.  Updates of resources come back over the connection and *)
(* are coalesced by URI.                                                   *)
(***************************************************************************)
EXTENDS Naturals

CONSTANTS Uris,            \* resources of the server
          Hosts,           \* threads of the host's subscribe and unsubscribe requests
          UriOf,           \* the resource each thread is about
          MaxConnections,  \* bound on the connections made
          MaxRefusals,     \* bound on upstream errors, expired waits and lost answers
          MaxUpdates,      \* per resource, bound on its updates
          NoConnection

ASSUME ConnectionBounds == {MaxConnections, MaxRefusals} \subseteq Nat /\ MaxUpdates \in [Uris -> Nat]
ASSUME UriOfAssumption == UriOf \in [Hosts -> Uris]
ASSUME NoConnectionAssumption == NoConnection \notin Hosts

VARIABLES conn,          \* GatewayServerState.connection: its number, is it open
          connHolder,    \* the thread that holds the lock and is connecting
          restoring,     \* the registrations it has still to restore
          registered,    \* GatewayEvents.subscriptions of the server
          upstreamSubs,  \* what the upstream session is subscribed to
          request,       \* the host's requests
          refusals,      \* errors so far
          promised,      \* history: subscribed as far as the host was told
          unsure,        \* history: registrations the upstream may not know
          revision,      \* how often each resource has changed
          pendingUpdate, \* pending_resource_updates
          updates,       \* update notifications on their way to the gateway
          shown          \* the revision the host was last told to look at

connVars == <<conn, connHolder, restoring, registered, upstreamSubs, request, refusals, promised,
              unsure, revision, pendingUpdate, updates, shown>>
updateVars == <<revision, pendingUpdate, updates, shown>>

ConnectionTypeOK ==
    /\ conn \in [number : 0 .. MaxConnections, open : BOOLEAN]
    /\ connHolder \in Hosts \cup {NoConnection}
    /\ {restoring, registered, upstreamSubs, promised, unsure, pendingUpdate} \subseteq SUBSET Uris
    /\ request \in [Hosts -> [op : {"subscribe", "unsubscribe"},
                              at : {"idle", "started", "connected", "sending", "undoing"},
                              over : 0 .. MaxConnections]]
    /\ refusals \in 0 .. MaxRefusals
    /\ {revision, shown} \subseteq [Uris -> Nat]
    /\ \A u \in Uris : shown[u] <= revision[u] /\ revision[u] <= MaxUpdates[u]
    /\ updates \subseteq Uris

ConnectionInit ==
    /\ conn = [number |-> 0, open |-> FALSE]
    /\ connHolder = NoConnection
    /\ restoring = {} /\ registered = {} /\ upstreamSubs = {}
    /\ request = [h \in Hosts |-> [op |-> "subscribe", at |-> "idle", over |-> 0]]
    /\ refusals = 0
    /\ promised = {} /\ unsure = {}
    /\ revision = [u \in Uris |-> 0]
    /\ pendingUpdate = {} /\ updates = {}
    /\ shown = [u \in Uris |-> 0]

Refusal == refusals < MaxRefusals /\ refusals' = refusals + 1
At(h, at) == request' = [request EXCEPT ![h].at = at]
Uri(h) == UriOf[h]

-----------------------------------------------------------------------------
(* The connection.                                                          *)

(* The upstream goes away: its session and what was under way are lost.     *)
Disconnect ==
    /\ conn.open
    /\ conn' = [conn EXCEPT !.open = FALSE]
    /\ upstreamSubs' = {} /\ updates' = {}
    /\ UNCHANGED <<connHolder, restoring, registered, request, refusals, promised, unsure,
                   revision, pendingUpdate, shown>>

NeedsConnection(h) ==
    \/ request[h].op = "subscribe" /\ request[h].at = "started"
    \/ request[h].op = "unsubscribe" /\ request[h].at = "undoing"

Reuse(h) ==
    /\ NeedsConnection(h)
    /\ connHolder = NoConnection /\ conn.open
    /\ request' = [request EXCEPT ![h].at = IF @ = "started" THEN "connected" ELSE "sending",
                                  ![h].over = conn.number]
    /\ UNCHANGED <<conn, connHolder, restoring, registered, upstreamSubs, refusals, promised,
                   unsure>>
    /\ UNCHANGED updateVars

ConnectForgetting(h) ==
    /\ NeedsConnection(h)
    /\ connHolder = NoConnection /\ ~conn.open
    /\ conn.number < MaxConnections
    /\ conn' = [number |-> conn.number + 1, open |-> TRUE]
    /\ connHolder' = h
    /\ unsure' = {}
    /\ UNCHANGED <<restoring, registered, upstreamSubs, request, refusals, promised>>
    /\ UNCHANGED updateVars

Connect(h) ==
    /\ NeedsConnection(h)
    /\ connHolder = NoConnection /\ ~conn.open
    /\ conn.number < MaxConnections
    /\ conn' = [number |-> conn.number + 1, open |-> TRUE]
    /\ connHolder' = h
    /\ restoring' = registered
    /\ unsure' = {}
    /\ UNCHANGED <<registered, upstreamSubs, request, refusals, promised>>
    /\ UNCHANGED updateVars

(* No connection is had: the wait for the lock expires, the server does not *)
(* start, or the handshake fails.  The subscription an unsubscribe has      *)
(* already taken out is not put back.                                       *)
ConnectFails(h) ==
    /\ NeedsConnection(h)
    /\ connHolder # h
    /\ IF conn.open \/ conn.number < MaxConnections THEN Refusal ELSE UNCHANGED refusals
    /\ At(h, "idle")
    /\ UNCHANGED <<conn, connHolder, restoring, registered, upstreamSubs, promised, unsure>>
    /\ UNCHANGED updateVars

(* NotifyHost(u) is notify_resource_updated.                                *)
NotifyHost(u) ==
    /\ pendingUpdate' = pendingUpdate \cup {u}
    /\ shown' = IF u \notin pendingUpdate /\ u \in registered THEN [shown EXCEPT ![u] = revision[u]]
                                                              ELSE shown

RestoreOne(h) ==
    /\ connHolder = h
    /\ \E u \in restoring :
        /\ restoring' = restoring \ {u}
        /\ \/ /\ conn.open
              /\ upstreamSubs' = upstreamSubs \cup {u}
              /\ NotifyHost(u)
              /\ UNCHANGED <<refusals, unsure>>
           \/ /\ IF conn.open THEN Refusal ELSE UNCHANGED refusals
              /\ unsure' = unsure \cup {u}
              /\ UNCHANGED <<upstreamSubs, pendingUpdate, shown>>
    /\ UNCHANGED <<conn, connHolder, registered, request, promised, revision, updates>>

Restored(h) ==
    /\ connHolder = h /\ restoring = {}
    /\ connHolder' = NoConnection
    /\ request' = [request EXCEPT ![h].at = IF @ = "started" THEN "connected" ELSE "sending",
                                  ![h].over = conn.number]
    /\ UNCHANGED <<conn, restoring, registered, upstreamSubs, refusals, promised, unsure>>
    /\ UNCHANGED updateVars

-----------------------------------------------------------------------------
(* resources/subscribe and resources/unsubscribe.                           *)

Begin(h, op) ==
    /\ request[h].at = "idle"
    /\ request' = [request EXCEPT ![h] = [op |-> op, at |-> "started", over |-> 0]]
    /\ promised' = IF op = "unsubscribe" THEN promised \ {Uri(h)} ELSE promised
    /\ UNCHANGED <<conn, connHolder, restoring, registered, upstreamSubs, refusals, unsure>>
    /\ UNCHANGED updateVars

(* The host is told it is subscribed, and looks at the resource.            *)
Promise(h) ==
    /\ promised' = promised \cup {Uri(h)}
    /\ shown' = [shown EXCEPT ![Uri(h)] = revision[Uri(h)]]

(* A URI that is registered already is answered without asking upstream.    *)
Subscribe(h) ==
    /\ request[h].op = "subscribe" /\ request[h].at = "connected"
    /\ registered' = registered \cup {Uri(h)}
    /\ At(h, IF Uri(h) \in registered THEN "idle" ELSE "sending")
    /\ IF Uri(h) \in registered THEN Promise(h) ELSE UNCHANGED <<promised, shown>>
    /\ UNCHANGED <<conn, connHolder, restoring, upstreamSubs, refusals, unsure, revision,
                   pendingUpdate, updates>>

(* Unsubscribing takes the registration out before it asks for a connection. *)
Unsubscribe(h) ==
    /\ request[h].op = "unsubscribe" /\ request[h].at = "started"
    /\ registered' = registered \ {Uri(h)}
    /\ At(h, IF Uri(h) \in registered THEN "undoing" ELSE "idle")
    /\ UNCHANGED <<conn, connHolder, restoring, upstreamSubs, refusals, promised, unsure>>
    /\ UNCHANGED updateVars

Usable(h) == conn.open /\ request[h].over = conn.number

UpstreamAgrees(h) ==
    /\ request[h].at = "sending" /\ Usable(h)
    /\ At(h, "idle")
    /\ IF request[h].op = "subscribe"
       THEN /\ upstreamSubs' = upstreamSubs \cup {Uri(h)}
            /\ unsure' = unsure \ {Uri(h)}
            /\ Promise(h)
       ELSE upstreamSubs' = upstreamSubs \ {Uri(h)} /\ UNCHANGED <<promised, unsure, shown>>
    /\ UNCHANGED <<conn, connHolder, restoring, registered, refusals, revision, pendingUpdate,
                   updates>>

(* An error, a closed connection, or an answer that never comes, whether or *)
(* not the upstream acted: what was registered or taken out is undone.      *)
UpstreamRefuses(h) ==
    /\ request[h].at = "sending"
    /\ IF Usable(h) THEN Refusal ELSE UNCHANGED refusals
    /\ At(h, "idle")
    /\ \E done \in {FALSE, Usable(h)} :
        IF request[h].op = "subscribe"
        THEN /\ registered' = registered \ {Uri(h)}
             /\ upstreamSubs' = IF done THEN upstreamSubs \cup {Uri(h)} ELSE upstreamSubs
             /\ UNCHANGED unsure
        ELSE /\ registered' = registered \cup {Uri(h)}
             /\ upstreamSubs' = IF done THEN upstreamSubs \ {Uri(h)} ELSE upstreamSubs
             /\ unsure' = unsure \cup {Uri(h)}
    /\ UNCHANGED <<conn, connHolder, restoring, promised>>
    /\ UNCHANGED updateVars

-----------------------------------------------------------------------------
(* Updates of resources.                                                    *)

ChangeResource(u) ==
    /\ revision[u] < MaxUpdates[u]
    /\ revision' = [revision EXCEPT ![u] = @ + 1]
    /\ updates' = IF u \in upstreamSubs THEN updates \cup {u} ELSE updates
    /\ UNCHANGED <<conn, connHolder, restoring, registered, upstreamSubs, request, refusals, promised,
                   unsure, pendingUpdate, shown>>

ResourceUpdated(u) ==
    /\ u \in updates
    /\ updates' = updates \ {u}
    /\ NotifyHost(u)
    /\ UNCHANGED <<conn, connHolder, restoring, registered, upstreamSubs, request, refusals, promised,
                   unsure, revision>>

(* The write to the host is over and the next update is not coalesced.      *)
NotificationWritten(u) ==
    /\ u \in pendingUpdate
    /\ pendingUpdate' = pendingUpdate \ {u}
    /\ UNCHANGED <<conn, connHolder, restoring, registered, upstreamSubs, request, refusals, promised,
                   unsure, revision, updates, shown>>

ConnectionNext ==
    \/ Disconnect
    \/ \E h \in Hosts : \/ Reuse(h) \/ Connect(h) \/ ConnectFails(h) \/ RestoreOne(h) \/ Restored(h)
                        \/ Begin(h, "subscribe") \/ Begin(h, "unsubscribe")
                        \/ Subscribe(h) \/ Unsubscribe(h) \/ UpstreamAgrees(h) \/ UpstreamRefuses(h)
    \/ \E u \in Uris : ChangeResource(u) \/ ResourceUpdated(u) \/ NotificationWritten(u)

-----------------------------------------------------------------------------

(* What the host was told is subscribed stays so across reconnections: it   *)
(* is registered, and an open connection carries it or is about to restore  *)
(* it.  The exceptions are the registrations the gateway keeps without      *)
(* knowing: those it could not restore and those an unanswered unsubscribe  *)
(* put back (state.rs:289, handler.rs:372).                                 *)
PromiseKept ==
    \A u \in promised :
        /\ u \in registered
        /\ conn.open => u \in upstreamSubs \cup restoring \cup unsure

(* A subscription the host is promised is one the upstream knows of: a      *)
(* registration that is only left over does not answer for it               *)
(* (handler.rs:331).                                                        *)
NoEmptyPromise == conn.open => promised \cap unsure \subseteq upstreamSubs \cup restoring

(* The last update of a subscribed resource is shown to the host once the   *)
(* gateway is at rest: what was coalesced was news of the same revision     *)
(* (progress.rs:117).                                                       *)
LastUpdateShown ==
    \A u \in promised \ (pendingUpdate \cup updates \cup restoring \cup unsure) :
        conn.open => shown[u] = revision[u]
=============================================================================
