--------------------------- MODULE QuotaWebhooks ---------------------------
(***************************************************************************)
(* MonitoringFacade.status and the webhooks it notifies: callers, in one   *)
(* or more processes of the user, that collect a usage report, compare it  *)
(* with the marks in webhook-state.json, save the new marks and then post  *)
(* the events one endpoint at a time.  The mutex around the marks belongs  *)
(* to a process; the file has no lock.  One window of one account is       *)
(* shown: every window has marks of its own.                               *)
(***************************************************************************)
EXTENDS Naturals, Sequences, SequencesExt, FiniteSets

CONSTANTS Collectors,   \* calls of status
          Reporter,     \* Reporter[c]: the process of the call
          Endpoints,    \* resolved endpoints, in the order of webhooks.json
          MaxUsed       \* usage is 0 .. MaxUsed

HookKinds == {"threshold_crossed", "quota_reset"}

ASSUME HooksAssumption ==
    MaxUsed \in Nat /\ Endpoints \in Seq([threshold : Nat, events : SUBSET HookKinds])

VARIABLES cache,        \* the processes with a fresh report in their cache
          marks,        \* the file: thresholds the window is above
          collector,    \* the calls
          told,         \* history: the events decided on, per endpoint
          posted,       \* history: the events posted, per endpoint
          unsure        \* history: a save failed, a file was discarded, or two processes overlapped

hookVars == <<cache, marks, collector, told, posted, unsure>>

Usage == 0 .. MaxUsed
NoReport == MaxUsed + 1
Targets == 1 .. Len(Endpoints)
Thresholds == {Endpoints[i].threshold : i \in Targets}
Marks == SUBSET Thresholds

(* The events for the endpoints that have one. *)
HookEvents == UNION {[S -> HookKinds] : S \in SUBSET Targets}
NoEvents == [i \in {} |-> "threshold_crossed"]

HooksTypeOK ==
    /\ marks \in Marks /\ unsure \in BOOLEAN
    /\ cache \subseteq {Reporter[c] : c \in Collectors}
    /\ \A c \in Collectors :
         /\ collector[c].at \in {"idle", "collected", "post", "cache", "save", "done", "dead"}
         /\ collector[c].report \in Usage \cup {NoReport}
         /\ collector[c].marks \in Marks /\ collector[c].pending \in HookEvents
         /\ collector[c].dirty \in BOOLEAN
    /\ told \in [Targets -> Seq(HookKinds)] /\ posted \in [Targets -> Seq(HookKinds)]

HooksInit ==
    /\ marks = {} /\ unsure = FALSE
    /\ cache = {}
    /\ collector = [c \in Collectors |-> [at |-> "idle", report |-> NoReport,
                                          marks |-> {}, dirty |-> FALSE,
                                          pending |-> NoEvents]]
    /\ told = [i \in Targets |-> << >>] /\ posted = [i \in Targets |-> << >>]

-----------------------------------------------------------------------------
HookAt(c, at) == collector[c].at = at
HookMoves(c, at) == collector' = [collector EXCEPT ![c].at = at]
StateLocked(c) ==
    \E d \in Collectors : Reporter[d] = Reporter[c] /\ collector[d].at = "save"

(* status: a fresh report is served from the cache, unless the caller asks  *)
(* for another; a report is fresh for a time that may be over at any point. *)
Serve(c) ==
    /\ HookAt(c, "idle") /\ Reporter[c] \in cache
    /\ HookMoves(c, "done")
    /\ UNCHANGED <<cache, marks, told, posted, unsure>>

Collect(c, used) ==
    /\ HookAt(c, "idle")
    /\ collector' = [collector EXCEPT ![c].at = "collected", ![c].report = used]
    /\ UNCHANGED <<cache, marks, told, posted, unsure>>

(* deliver, under state_lock: the marks are loaded and each endpoint is      *)
(* compared in turn, by the mark of its threshold.  The first of a threshold *)
(* sees the mark as it was, the others as the first one leaves it.  A file   *)
(* that cannot be read or parsed is discarded: no marks are found.           *)
(* Mutant: only a crossing is marked. *)
MarkedForGood(found, threshold, above) ==
    IF above THEN found \cup {threshold} ELSE found

Marked(found, threshold, above) ==
    IF above THEN found \cup {threshold} ELSE found \ {threshold}

FirstOf(i) == \A j \in 1 .. i - 1 : Endpoints[j].threshold # Endpoints[i].threshold

Compared(used, found) ==
    LET above(i) == used >= Endpoints[i].threshold
        kind(i) == IF above(i) THEN "threshold_crossed" ELSE "quota_reset"
    IN [marks |-> {t \in Thresholds : t \in Marked(found, t, used >= t)},
        pending |-> [i \in {i \in Targets : /\ FirstOf(i)
                                            /\ above(i) # (Endpoints[i].threshold \in found)
                                            /\ kind(i) \in Endpoints[i].events} |-> kind(i)]]

LoadMarks(c) ==
    /\ HookAt(c, "collected") /\ ~StateLocked(c)
    /\ \E found \in {marks, {}} :
         /\ LET left == Compared(collector[c].report, found)
            IN collector' = [collector EXCEPT ![c] =
                   [at |-> "save", report |-> NoReport, marks |-> left.marks,
                    dirty |-> left.marks # found, pending |-> left.pending]]
         /\ unsure' = (unsure \/ found # marks \/ \E d \in Collectors : HookAt(d, "save"))
    /\ UNCHANGED <<cache, marks, told, posted>>

(* ... and the marks are saved if any changed, before anything is posted; a *)
(* save that fails is logged.                                               *)
SaveMarks(c) ==
    /\ HookAt(c, "save")
    /\ IF collector[c].dirty
       THEN \/ marks' = collector[c].marks /\ UNCHANGED unsure
            \/ UNCHANGED marks /\ unsure' = TRUE
       ELSE UNCHANGED <<marks, unsure>>
    /\ told' = [i \in Targets |-> IF i \in DOMAIN collector[c].pending
                                   THEN Append(told[i], collector[c].pending[i]) ELSE told[i]]
    /\ collector' = [collector EXCEPT ![c].at = "post", ![c].marks = {},
                                       ![c].dirty = FALSE]
    /\ UNCHANGED <<cache, posted>>

(* deliver_one: whatever the endpoint answers, the next event follows.      *)
Post(c) ==
    /\ HookAt(c, "post")
    /\ LET queue == collector[c].pending
       IN \/ DOMAIN queue = {} /\ HookMoves(c, "cache") /\ UNCHANGED posted
          \/ \E i \in DOMAIN queue :
                 /\ \A j \in DOMAIN queue : i <= j
                 /\ posted' = [posted EXCEPT ![i] = Append(@, queue[i])]
                 /\ collector' = [collector EXCEPT ![c].pending = [j \in DOMAIN queue \ {i} |-> queue[j]]]
    /\ UNCHANGED <<cache, marks, told, unsure>>

StoreReport(c) ==
    /\ HookAt(c, "cache")
    /\ cache' = cache \cup {Reporter[c]}
    /\ HookMoves(c, "done")
    /\ UNCHANGED <<marks, told, posted, unsure>>

(* A process dies with every call and the cache in it, and starts again.    *)
ReporterDies(p) ==
    /\ \E c \in Collectors : Reporter[c] = p /\ collector[c].at \notin {"idle", "done", "dead"}
    /\ collector' = [c \in Collectors |->
           IF Reporter[c] = p /\ collector[c].at \notin {"idle", "done"}
           THEN [collector[c] EXCEPT !.at = "dead"] ELSE collector[c]]
    /\ cache' = cache \ {p}
    /\ UNCHANGED <<marks, told, posted, unsure>>

CollectorStep(c) ==
    \/ Serve(c) \/ LoadMarks(c) \/ SaveMarks(c) \/ Post(c)
    \/ StoreReport(c) \/ \E used \in Usage : Collect(c, used)

HooksNext ==
    \E c \in Collectors : CollectorStep(c) \/ ReporterDies(Reporter[c])

-----------------------------------------------------------------------------
(* Properties.                                                              *)

(* Each crossing notifies once: whatever calls overlap or die, a post never  *)
(* repeats what was decided; and crossings and recoveries are decided in     *)
(* turn, for an endpoint that hears of both, unless a save failed or two     *)
(* processes read the marks before either had saved them.                    *)
Alternate(s, kinds) ==
    kinds = HookKinds =>
        \A j \in 1 .. Len(s) : s[j] = IF j % 2 = 1 THEN "threshold_crossed" ELSE "quota_reset"

CountOf(s, k) == Cardinality({j \in 1 .. Len(s) : s[j] = k})

CrossingsNotifyOnce ==
    /\ HooksTypeOK
    /\ \A i \in Targets, k \in HookKinds : CountOf(posted[i], k) <= CountOf(told[i], k)
    /\ ~unsure => \A i \in Targets : Alternate(told[i], Endpoints[i].events)

(* Statements of the source and the README that do not hold.                *)

(* "every configured endpoint receives a JSON POST for each quota window    *)
(* that changed state": of two endpoints with one threshold, the first one  *)
(* listed is told.                                                          *)
EveryEndpointIsTold ==
    \A i, j \in Targets : Endpoints[i].threshold = Endpoints[j].threshold
                          /\ Endpoints[i].events = Endpoints[j].events => told[i] = told[j]

(* "Each crossing notifies once": not across processes; and calls that      *)
(* overlap may post a recovery before its crossing.                         *)
OnceForEveryone == \A i \in Targets : Alternate(told[i], Endpoints[i].events)
PostedInOrder == \A i \in Targets : IsPrefix(posted[i], told[i])
=============================================================================
