------------------------------ MODULE McpLists ------------------------------
(***************************************************************************)
(* The lists an MCP gateway session offers its host: the tools, resources  *)
(* or prompts of the selected upstream servers, aggregated into a snapshot *)
(* that is kept until an upstream announces a change.                      *)
(*                                                                         *)
(* Host requests and the watcher of list changes refresh under the lock of *)
(* the aggregate.  The dirty flag is taken when the refresh begins and set *)
(* again by a change or by a server that could not be asked.  An upstream  *)
(* list is known by its version: one more at each change.                  *)
(***************************************************************************)
EXTENDS Naturals

CONSTANTS Servers,      \* the selected upstream servers
          Callers,      \* threads of host requests
          Watcher,      \* the task that watches for list changes
          ListKinds,    \* which of tools, resources and prompts to explore
          MaxVersion,   \* per server, bound on the changes of its list
          Conflicting,  \* <<server, version>>: two entries share a gateway identity
          Oversized,    \* <<server, version>>: over the snapshot limits
          MaxFaults,    \* bound on failures, expired waits and cancellations
          NoList

ASSUME WatcherAssumption == Watcher \notin Callers
ASSUME ListKindsAssumption == ListKinds \subseteq {"tools", "resources", "prompts"}
ASSUME ListBoundsAssumption == MaxVersion \in [Servers -> Nat] /\ MaxFaults \in Nat
ASSUME DefectsAssumption == Conflicting \cup Oversized \subseteq Servers \X Nat

VARIABLES listKind,     \* the kind of list this session is about
          upstream,     \* the version each server would list now
          notices,      \* servers whose list-changed notification is under way
          missed,       \* history: servers with a change nobody was told of since the last refresh
          unheard,      \* history: there has been such a change
          dirty,        \* <kind>_dirty
          wake,         \* the permit of <kind>_changed
          owed,         \* pending_<kind>_list_notification
          cache,        \* GatewayServerState.<kind>_snapshot
          aggregate,    \* the snapshot of the session
          job,          \* the refresh under the aggregate's lock
          asker,        \* the threads that take snapshots
          host,         \* the host's walk through the pages of a list
          faults,       \* failures so far
          forgotten     \* history: a cancelled refresh took the dirty flag away

unannounced == <<missed, unheard>>
listVars == <<listKind, upstream, unannounced, notices, dirty, wake, owed, cache, aggregate, job, asker,
              host, faults, forgotten>>

Versions == UNION {0 .. MaxVersion[s] : s \in Servers}
Askers == Callers \cup {Watcher}
Aggregates == UNION {[S -> Versions] : S \in SUBSET Servers}
ASSUME NoListAssumption == NoList \notin Nat \cup Aggregates
Asking == [is |-> "asking", of |-> NoList]
Missing == [is |-> "missing", of |-> NoList]
Clash == [is |-> "clash", of |-> NoList]
Listed(v) == [is |-> "list", of |-> v]
NoJob == [by |-> NoList]

ListsTypeOK ==
    /\ listKind \in ListKinds
    /\ upstream \in [Servers -> Versions]
    /\ notices \cup missed \subseteq Servers
    /\ {dirty, wake, owed, forgotten, unheard} \subseteq BOOLEAN
    /\ cache \in [Servers -> Versions \cup {NoList}]
    /\ aggregate \in Aggregates \cup {NoList}
    /\ \/ job = NoJob
       \/ job \in [by : Askers, refresh : BOOLEAN, cancelled : BOOLEAN,
                   got : [Servers -> {Asking, Missing, Clash} \cup {Listed(v) : v \in Versions}]]
    /\ asker \in [Askers -> [at : {"idle", "waiting", "holding", "telling"},
                             want : {"first", "next", "use"}]]
    /\ host \in [cursor : Aggregates \cup {NoList}, walk : SUBSET Aggregates]
    /\ faults \in 0 .. MaxFaults

ListsInit ==
    /\ listKind \in ListKinds
    /\ upstream = [s \in Servers |-> 0]
    /\ notices = {} /\ missed = {} /\ unheard = FALSE
    /\ dirty = TRUE /\ wake = FALSE /\ owed = FALSE
    /\ cache = [s \in Servers |-> NoList]
    /\ aggregate = NoList
    /\ job = NoJob
    /\ asker = [p \in Askers |-> [at |-> "idle", want |-> "use"]]
    /\ host = [cursor |-> NoList, walk |-> {}]
    /\ faults = 0
    /\ forgotten = FALSE

Fault == faults < MaxFaults /\ faults' = faults + 1

-----------------------------------------------------------------------------
(* The upstream servers.                                                    *)

(* A list changes.  A server that is connected may say so; one that is not, *)
(* or that announces nothing, does not.                                     *)
ChangeList(s) ==
    /\ upstream[s] < MaxVersion[s]
    /\ upstream' = [upstream EXCEPT ![s] = @ + 1]
    /\ \/ notices' = notices \cup {s} /\ UNCHANGED unannounced
       \/ missed' = missed \cup {s} /\ unheard' = TRUE /\ UNCHANGED notices
    /\ UNCHANGED <<listKind, dirty, wake, owed, cache, aggregate, job, asker, host,
                   faults, forgotten>>

(* The connection goes, and the notification under way with it.  The next   *)
(* request that needs the server connects anew, which marks no list.        *)
Reconnect(s) ==
    /\ s \in notices
    /\ notices' = notices \ {s}
    /\ missed' = missed \cup {s} /\ unheard' = TRUE
    /\ UNCHANGED <<listKind, upstream, dirty, wake, owed, cache, aggregate, job, asker,
                   host, faults, forgotten>>

ListChangedSilently(s) ==
    /\ s \in notices
    /\ notices' = notices \ {s}
    /\ dirty' = TRUE
    /\ UNCHANGED <<listKind, upstream, unannounced, wake, owed, cache, aggregate, job,
                   asker, host, faults, forgotten>>

(* mark_<kind>_changed: the flag, then the permit of the watcher.           *)
ListChanged(s) ==
    /\ s \in notices
    /\ notices' = notices \ {s}
    /\ dirty' = TRUE /\ wake' = TRUE
    /\ UNCHANGED <<listKind, upstream, unannounced, owed, cache, aggregate, job, asker,
                   host, faults, forgotten>>

-----------------------------------------------------------------------------
(* What a host gets.  A cursor is an entry in the map of the snapshot that  *)
(* issued it; every list here takes two pages.                              *)

Page(want, snapshot) ==
    CASE want = "first" -> [cursor |-> snapshot, walk |-> {snapshot}]
      [] want = "next"  -> [cursor |-> NoList,
                            walk |-> IF host.cursor = snapshot THEN host.walk \cup {snapshot}
                                                               ELSE host.walk]
      [] want = "use"   -> host

Return(p) ==
    asker' = [asker EXCEPT ![p] = [at |-> IF p = Watcher THEN "telling" ELSE "idle", want |-> "use"]]

Serve(p, snapshot) ==
    /\ Return(p)
    /\ host' = IF p = Watcher THEN host ELSE Page(asker[p].want, snapshot)

Refuse(p) == Return(p) /\ UNCHANGED host

(* tools/list and its like, with or without a cursor, and the requests that *)
(* take a snapshot to find a route.                                         *)
Ask(p, want) ==
    /\ p \in Callers
    /\ asker[p].at = "idle"
    /\ want = "next" => host.cursor # NoList
    /\ asker' = [asker EXCEPT ![p] = [at |-> "waiting", want |-> want]]
    /\ UNCHANGED <<listKind, upstream, unannounced, notices, dirty, wake, owed, cache,
                   aggregate, job, host, faults, forgotten>>

WatcherWakes ==
    /\ asker[Watcher].at = "idle" /\ wake
    /\ wake' = FALSE
    /\ asker' = [asker EXCEPT ![Watcher].at = "waiting"]
    /\ UNCHANGED <<listKind, upstream, unannounced, notices, dirty, owed, cache,
                   aggregate, job, host, faults, forgotten>>

(* The watcher's last step: a notification is due if a refresh replaced the *)
(* aggregate, whoever did it.                                               *)
TellHost ==
    /\ asker[Watcher].at = "telling"
    /\ owed' = FALSE
    /\ asker' = [asker EXCEPT ![Watcher].at = "idle"]
    /\ UNCHANGED <<listKind, upstream, unannounced, notices, dirty, wake, cache,
                   aggregate, job, host, faults, forgotten>>

-----------------------------------------------------------------------------
(* A refresh.                                                               *)

(* The deadline passes, or the request is cancelled, before the lock is had. *)
GiveUp(p) ==
    /\ asker[p].at = "waiting"
    /\ Fault
    /\ Refuse(p)
    /\ UNCHANGED <<listKind, upstream, unannounced, notices, dirty, wake, owed, cache,
                   aggregate, job, forgotten>>

Locked(p) == asker[p].at = "waiting" /\ job = NoJob

UseAggregate(p) ==
    /\ Locked(p)
    /\ ~dirty /\ aggregate # NoList
    /\ Serve(p, aggregate)
    /\ UNCHANGED <<listKind, upstream, unannounced, notices, dirty, wake, owed, cache,
                   aggregate, job, faults, forgotten>>

BeginRefresh(p) ==
    /\ Locked(p)
    /\ dirty \/ aggregate = NoList
    /\ job' = [by |-> p, refresh |-> dirty, cancelled |-> FALSE, got |-> [s \in Servers |-> Asking]]
    /\ dirty' = FALSE
    /\ missed' = IF dirty THEN {} ELSE missed
    /\ forgotten' = IF dirty THEN FALSE ELSE forgotten
    /\ asker' = [asker EXCEPT ![p].at = "holding"]
    /\ UNCHANGED <<listKind, upstream, notices, unheard, wake, owed, cache, aggregate,
                   host, faults>>

CancelRefresh ==
    /\ job # NoJob /\ job.by # Watcher /\ ~job.cancelled
    /\ Fault
    /\ job' = [job EXCEPT !.cancelled = TRUE]
    /\ UNCHANGED <<listKind, upstream, unannounced, notices, dirty, wake, owed, cache,
                   aggregate, asker, host, forgotten>>

(* What building a server's snapshot from a complete upstream list gives:    *)
(* the list, nothing, or a conflict that fails the whole refresh.            *)
ToolSnapshot(list) ==
    CASE list \in Conflicting -> "clash"
      [] list \in Oversized \ Conflicting -> "missing"
      [] OTHER -> "list"

ResourceSnapshot(list) == IF list \in Conflicting \cup Oversized THEN "clash" ELSE "list"

PromptSnapshot(list) ==
    CASE list \in Conflicting -> "clash"
      [] list \in Oversized \ Conflicting -> "missing"
      [] OTHER -> "list"

Snapshot(s) ==
    CASE listKind = "tools"     -> ToolSnapshot(<<s, upstream[s]>>)
      [] listKind = "resources" -> ResourceSnapshot(<<s, upstream[s]>>)
      [] listKind = "prompts"   -> PromptSnapshot(<<s, upstream[s]>>)

Awaited(s) == job # NoJob /\ job.got[s] = Asking
Got(s, answer) == job' = [job EXCEPT !.got[s] = answer]

(* A server that cannot be asked keeps its last list and leaves the session *)
(* dirty.                                                                   *)
LastList(s) == IF cache[s] = NoList THEN Missing ELSE Listed(cache[s])

KeepLastListQuietly(s) == Got(s, LastList(s)) /\ UNCHANGED <<dirty, cache>>

KeepLastList(s) ==
    /\ Got(s, LastList(s))
    /\ dirty' = TRUE
    /\ UNCHANGED cache

FromCacheUnchecked(s) ==
    /\ Awaited(s)
    /\ ~job.refresh
    /\ Got(s, Listed(cache[s]))
    /\ UNCHANGED <<listKind, upstream, unannounced, notices, dirty, wake, owed, cache,
                   aggregate, asker, host, faults, forgotten>>

FromCache(s) ==
    /\ Awaited(s)
    /\ ~job.refresh /\ cache[s] # NoList
    /\ Got(s, Listed(cache[s]))
    /\ UNCHANGED <<listKind, upstream, unannounced, notices, dirty, wake, owed, cache,
                   aggregate, asker, host, faults, forgotten>>

ServerLists(s) ==
    /\ Awaited(s)
    /\ job.refresh \/ cache[s] = NoList
    /\ \/ /\ Snapshot(s) = "list"
          /\ Got(s, Listed(upstream[s]))
          /\ cache' = [cache EXCEPT ![s] = upstream[s]]
          /\ UNCHANGED dirty
       \/ /\ Snapshot(s) = "clash"
          /\ Got(s, Clash)
          /\ dirty' = TRUE
          /\ UNCHANGED cache
       \/ /\ Snapshot(s) = "missing"
          /\ KeepLastList(s)
    /\ UNCHANGED <<listKind, upstream, unannounced, notices, wake, owed, aggregate,
                   asker, host, faults, forgotten>>

(* No connection, no request slot, an error, a late or a cancelled answer.  *)
ServerFails(s) ==
    /\ Awaited(s)
    /\ job.refresh \/ cache[s] = NoList
    /\ IF job.cancelled THEN UNCHANGED faults ELSE Fault
    /\ KeepLastList(s)
    /\ UNCHANGED <<listKind, upstream, unannounced, notices, wake, owed, aggregate,
                   asker, host, forgotten>>

(* The cancellation is seen where the server's own snapshot is locked.      *)
SkipServer(s) ==
    /\ Awaited(s)
    /\ job.cancelled
    /\ Got(s, Missing)
    /\ UNCHANGED <<listKind, upstream, unannounced, notices, dirty, wake, owed, cache,
                   aggregate, asker, host, faults, forgotten>>

Answered == job # NoJob /\ \A s \in Servers : job.got[s] # Asking
Conflict == \E s \in Servers : job.got[s] = Clash
UsableServers == {s \in Servers : job.got[s].is = "list"}
Merged == [s \in UsableServers |-> job.got[s].of]

RefreshCancelled ==
    /\ Answered /\ job.cancelled
    /\ Refuse(job.by)
    /\ job' = NoJob
    /\ forgotten' = (forgotten \/ (job.refresh /\ ~dirty))
    /\ UNCHANGED <<listKind, upstream, unannounced, notices, dirty, wake, owed, cache,
                   aggregate, faults>>

RefreshConflicts ==
    /\ Answered /\ ~job.cancelled /\ Conflict
    /\ dirty' = TRUE
    /\ Refuse(job.by)
    /\ job' = NoJob
    /\ UNCHANGED <<listKind, upstream, unannounced, notices, wake, owed, cache,
                   aggregate, faults, forgotten>>

(* Only the prompts fall back on the aggregate when no server has a list.   *)
RefreshEmpty ==
    /\ Answered /\ ~job.cancelled /\ ~Conflict /\ UsableServers = {}
    /\ IF listKind = "prompts" /\ aggregate # NoList THEN Serve(job.by, aggregate)
                                                     ELSE Refuse(job.by)
    /\ job' = NoJob
    /\ UNCHANGED <<listKind, upstream, unannounced, notices, dirty, wake, owed, cache,
                   aggregate, faults, forgotten>>

RefreshDone ==
    /\ Answered /\ ~job.cancelled /\ ~Conflict /\ UsableServers # {}
    /\ aggregate' = Merged
    /\ owed' = (owed \/ (aggregate # NoList /\ aggregate # Merged))
    /\ Serve(job.by, Merged)
    /\ job' = NoJob
    /\ UNCHANGED <<listKind, upstream, unannounced, notices, dirty, wake, cache, faults,
                   forgotten>>

ListsNext ==
    \/ \E s \in Servers : \/ ChangeList(s) \/ Reconnect(s) \/ ListChanged(s) \/ FromCache(s)
                          \/ ServerLists(s) \/ ServerFails(s) \/ SkipServer(s)
    \/ \E p \in Callers, want \in {"first", "next", "use"} : Ask(p, want)
    \/ \E p \in Askers : GiveUp(p) \/ UseAggregate(p) \/ BeginRefresh(p)
    \/ WatcherWakes \/ TellHost \/ CancelRefresh
    \/ RefreshCancelled \/ RefreshConflicts \/ RefreshEmpty \/ RefreshDone

Refreshing ==
    \/ \E s \in Servers : FromCache(s) \/ ServerLists(s)
    \/ RefreshCancelled \/ RefreshConflicts \/ RefreshEmpty \/ RefreshDone

Notice == \E s \in Servers : ListChanged(s)
Watch == WatcherWakes \/ TellHost
TakeLock(p) == UseAggregate(p) \/ BeginRefresh(p)

-----------------------------------------------------------------------------

Behind(s) == aggregate # NoList /\ (IF s \in DOMAIN aggregate THEN aggregate[s] # upstream[s] ELSE TRUE)

(* A server the snapshot misrepresents is known to be so: its notification  *)
(* is on the way, the session is dirty, or the refresh under way has yet to *)
(* ask it or has its present list.  Two things stay unmarked: what a        *)
(* refresh its caller cancelled forgot (tools.rs:32, 47), and a change of   *)
(* which no notification arrived, since a new connection marks no list      *)
(* (state.rs:266-309).  Both last until the next refresh asks every server. *)
StaleIsMarked ==
    \A s \in Servers : Behind(s) =>
        \/ s \in notices \cup missed \/ dirty \/ forgotten
        \/ job # NoJob /\ \/ job.cancelled
                          \/ job.refresh /\ job.got[s] \in {Asking, Listed(upstream[s])}

(* The pages a host collects by following cursors are of one snapshot, also *)
(* when a refresh replaces the aggregate between two pages                  *)
(* (snapshot.rs:189).                                                       *)
PagesAgree == \A a, b \in host.walk : a = b

(* A list change that is announced reaches the host: the aggregate catches  *)
(* up and the host is told, unless a server, a wait or a request failed,    *)
(* the list itself is unusable, or a conflict in another one fails every    *)
(* refresh (state.rs:172).  What a host's own request finds out about an    *)
(* unannounced change waits for the next announcement to be told.           *)
ListsAreBehind == \E s \in Servers : Behind(s)
ListsAreSettled ==
    \/ (owed => unheard) /\ \A s \in Servers : Behind(s) => s \in missed \/ Snapshot(s) # "list"
    \/ faults > 0
    \/ \E s \in Servers : Snapshot(s) = "clash"
=============================================================================
