-------------------------- MODULE RuntimeLifecycle --------------------------
(***************************************************************************)
(* Agent runtimes over one shared run store: opening, the startup sweep,   *)
(* the resume of interrupted sessions, serving, shutdown, drop and crash.  *)
(*                                                                         *)
(* A runtime is named by the owner id of its store.  A restart is another  *)
(* runtime; a process that restarts is another process.  Several runtimes  *)
(* may live in one process.  Commands, pumps and delivery inside a runtime *)
(* are the subject of module SessionPump; here a runtime's own work is cut *)
(* into the store transactions that other runtimes can interleave with.    *)
(***************************************************************************)
EXTENDS SessionLog

CONSTANTS Processes,
          ProcOf,       \* the process each runtime is opened in
          Resumable,    \* sessions whose adapter declares `resume`
          PumpFacts,    \* the facts adapters emit
          MaxFacts      \* bound: pumps stop appending to a longer log

ASSUME ProcAssumption == ProcOf \in [Runtimes -> Processes]
ASSUME PumpAssumption == PumpFacts \subseteq Facts \ {"created", "closed", "interrupted"}
ASSUME ResumableAssumption == Resumable \subseteq Sessions
ASSUME MaxFactsAssumption == MaxFacts \in Nat

VARIABLES up,       \* processes that have not crashed
          phase,    \* phase[r]: how far runtime r is
          swept,    \* swept[r]: owners r read as dead in its startup sweep
          found,    \* found[r]: sessions that sweep selected
          todo,     \* todo[r]: orphans left in r's resume loop, with the owner seen
          job,      \* job[r]: the session r's loop or create works on, and its step
          live,     \* live[r]: the live map of r
          tail,     \* <<r, s>>: a pump that upgraded its Weak before r was dropped
          late      \* history: sessions such a pump wrote to after the drop

vars == <<log, row, up, phase, swept, found, todo, job, live, tail, late>>

NoJob == [step |-> "none"]
Job(step, s) == [step |-> step, session |-> s]
JobSteps == {"claimed", "started", "working", "recorded"}
Jobs == {NoJob} \cup [step : JobSteps, session : Sessions]
Candidate == [session : Sessions, owner : Owners]

(* OwnerGuard: registered from assemble until the runtime is dropped.       *)
Registered(r) == phase[r] \notin {"unopened", "gone"}

(* session_owner_dead as r sees it: an owner of its own process is dead     *)
(* when no guard holds it any more, a foreign one when its process has      *)
(* exited.  (An id that is not minted yet is on no row.)                    *)
Dead(r) == {NoOwner} \cup
           {o \in Runtimes : IF ProcOf[o] = ProcOf[r] THEN phase[o] = "gone" ELSE ProcOf[o] \notin up}

Attached(r) == live[r] \cup
               (IF job[r].step \in {"started", "working", "recorded"} THEN {job[r].session} ELSE {})

(* What the sweeps of the runtimes in R remembered ends with them. *)
Forget(R) ==
    /\ swept' = [r \in Runtimes |-> IF r \in R THEN {} ELSE swept[r]]
    /\ found' = [r \in Runtimes |-> IF r \in R THEN {} ELSE found[r]]

TypeOK ==
    /\ log \in [Sessions -> Seq(Facts)]
    /\ row \in [Sessions -> Row]
    /\ up \subseteq Processes
    /\ phase \in [Runtimes -> {"unopened", "registered", "marking", "enumerating", "resuming",
                               "serving", "cursors", "marked", "gone"}]
    /\ swept \in [Runtimes -> SUBSET Owners]
    /\ found \in [Runtimes -> SUBSET Sessions]
    /\ todo \in [Runtimes -> SUBSET Candidate]
    /\ job \in [Runtimes -> Jobs]
    /\ live \in [Runtimes -> SUBSET Sessions]
    /\ tail \subseteq (Runtimes \X Sessions)
    /\ late \subseteq Sessions

(* Rows older than owner scoping may be there, in flight and resumable.     *)
LegacyRow == [known |-> TRUE, status |-> "working", owner |-> NoOwner, cursor |-> TRUE]

Init ==
    /\ \E old \in SUBSET Sessions :
         /\ row = [s \in Sessions |-> IF s \in old THEN LegacyRow ELSE NoRow]
         /\ log = [s \in Sessions |-> IF s \in old THEN <<"created", "working">> ELSE <<>>]
    /\ up = Processes
    /\ phase = [r \in Runtimes |-> "unopened"]
    /\ swept = [r \in Runtimes |-> {}]
    /\ found = [r \in Runtimes |-> {}]
    /\ todo = [r \in Runtimes |-> {}]
    /\ job = [r \in Runtimes |-> NoJob]
    /\ live = [r \in Runtimes |-> {}]
    /\ tail = {}
    /\ late = {}

-----------------------------------------------------------------------------
(* Opening: assemble registers the owner, then sweeps, then resumes.        *)

Open(r) ==
    /\ phase[r] = "unopened" /\ ProcOf[r] \in up
    /\ phase' = [phase EXCEPT ![r] = "registered"]
    /\ UNCHANGED <<log, row, up, swept, found, todo, job, live, tail, late>>

(* reconcile_orphaned_sessions selects before it begins its transaction.    *)
ReadOrphans(r) ==
    /\ phase[r] = "registered"
    /\ swept' = [swept EXCEPT ![r] = Dead(r)]
    /\ found' = [found EXCEPT ![r] = InFlightOrphans(Dead(r))]
    /\ phase' = [phase EXCEPT ![r] = "marking"]
    /\ UNCHANGED <<log, row, up, todo, job, live, tail, late>>

MarkOrphans(r) ==
    /\ phase[r] = "marking"
    /\ AppendInterrupted(found[r], r)
    /\ found' = [found EXCEPT ![r] = {}]
    /\ phase' = [phase EXCEPT ![r] = "enumerating"]
    /\ UNCHANGED <<up, swept, todo, job, live, tail, late>>

(* The sweep's store error is the only one that fails the open.             *)
OpenFails(r) ==
    /\ phase[r] \in {"registered", "marking"}
    /\ phase' = [phase EXCEPT ![r] = "gone"]
    /\ Forget({r})
    /\ UNCHANGED <<log, row, up, todo, job, live, tail, late>>

(* resume_interrupted_sessions lists once; a failing list resumes nothing.  *)
Enumerate(r) ==
    /\ phase[r] = "enumerating"
    /\ phase' = [phase EXCEPT ![r] = "resuming"]
    /\ \/ todo' = [todo EXCEPT ![r] =
                     {[session |-> s, owner |-> row[s].owner] : s \in
                        {t \in Orphans(Dead(r)) \cap Resumable :
                            row[t].status = "interrupted" /\ row[t].cursor}}]
       \/ UNCHANGED todo
    /\ UNCHANGED <<log, row, up, swept, found, job, live, tail, late>>

(* No serving integration, an instance environment that does not resolve,   *)
(* or a claim whose statement fails: the candidate is passed over.          *)
SkipCandidate(r, c) ==
    /\ phase[r] = "resuming" /\ job[r] = NoJob /\ c \in todo[r]
    /\ todo' = [todo EXCEPT ![r] = @ \ {c}]
    /\ UNCHANGED <<log, row, up, phase, swept, found, job, live, tail, late>>

Claim(r, c) ==
    /\ phase[r] = "resuming" /\ job[r] = NoJob /\ c \in todo[r]
    /\ todo' = [todo EXCEPT ![r] = @ \ {c}]
    /\ \/ /\ ClaimLands(c.session, c.owner)
          /\ ClaimSession(c.session, r)
          /\ job' = [job EXCEPT ![r] = Job("claimed", c.session)]
       \/ /\ ~ClaimLands(c.session, c.owner)
          /\ UNCHANGED <<log, row, job>>
    /\ UNCHANGED <<up, phase, swept, found, live, tail, late>>

(* adapter.start: a failure leaves the row claimed and interrupted.         *)
StartAdapter(r) ==
    /\ job[r].step = "claimed"
    /\ \/ job' = [job EXCEPT ![r] = Job("started", @.session)]
       \/ job' = [job EXCEPT ![r] = NoJob]
    /\ UNCHANGED <<log, row, up, phase, swept, found, todo, live, tail, late>>

(* The `working` fact; when the append fails the adapter is stopped.        *)
RecordWorking(r) ==
    /\ job[r].step = "started"
    /\ \/ /\ AppendFact(job[r].session, "working", r)
          /\ job' = [job EXCEPT ![r] = Job("working", @.session)]
       \/ /\ job' = [job EXCEPT ![r] = NoJob]
          /\ UNCHANGED storeVars
    /\ UNCHANGED <<up, phase, swept, found, todo, live, tail, late>>

(* The pump starts and the live entry lands, or the pump thread cannot      *)
(* start, the adapter is stopped and `interrupted` is recorded again.       *)
Attach(r) ==
    /\ job[r].step = "working"
    /\ job' = [job EXCEPT ![r] = NoJob]
    /\ \/ live' = [live EXCEPT ![r] = @ \cup {job[r].session}] /\ UNCHANGED storeVars
       \/ AppendFact(job[r].session, "interrupted", r) /\ UNCHANGED live
    /\ UNCHANGED <<up, phase, swept, found, todo, tail, late>>

FinishOpen(r) ==
    /\ phase[r] = "resuming" /\ job[r] = NoJob /\ todo[r] = {}
    /\ phase' = [phase EXCEPT ![r] = "serving"]
    /\ UNCHANGED <<log, row, up, swept, found, todo, job, live, tail, late>>

-----------------------------------------------------------------------------
(* Serving.  shutdown() may be called while the host keeps dispatching: no  *)
(* command looks at the flag.                                               *)

Serving(r) == phase[r] \in {"serving", "cursors", "marked"}

(* session.create: the adapter mints a fresh id, the row is recorded ...    *)
CreateRow(r, s) ==
    /\ Serving(r) /\ job[r] = NoJob
    /\ ~row[s].known
    /\ RecordSession(s, r)
    /\ job' = [job EXCEPT ![r] = Job("recorded", s)]
    /\ UNCHANGED <<up, phase, swept, found, todo, live, tail, late>>

(* ... then session.created is appended, the pump starts and the session is *)
(* live; a failing append or pump stops the adapter and keeps the row.      *)
CreateLive(r) ==
    /\ job[r].step = "recorded"
    /\ job' = [job EXCEPT ![r] = NoJob]
    /\ \/ /\ AppendFact(job[r].session, "created", r)
          /\ live' = [live EXCEPT ![r] = @ \cup {job[r].session}]
       \/ AppendFact(job[r].session, "created", r) /\ UNCHANGED live
       \/ UNCHANGED <<log, row, live>>
    /\ UNCHANGED <<up, phase, swept, found, todo, tail, late>>

(* The pumps run from the moment a session is attached.                     *)
PumpFact(r, s, f) ==
    /\ s \in live[r] /\ Len(log[s]) < MaxFacts
    /\ AppendFact(s, f, r)
    /\ UNCHANGED <<up, phase, swept, found, todo, job, live, tail, late>>

(* session.close of a live session: the entry goes first; a failing stop    *)
(* rejects the command with nothing recorded.                               *)
CloseLive(r, s) ==
    /\ Serving(r) /\ s \in live[r]
    /\ live' = [live EXCEPT ![r] = @ \ {s}]
    /\ AppendFact(s, "closed", r) \/ UNCHANGED storeVars
    /\ UNCHANGED <<up, phase, swept, found, todo, job, tail, late>>

(* session.close of a session that is not live here closes by fact alone:   *)
(* nobody asks who owns it.                                                 *)
CloseKnown(r, s) ==
    /\ Serving(r) /\ s \notin live[r]
    /\ row[s].known /\ row[s].status # "closed"
    /\ AppendFact(s, "closed", r)
    /\ UNCHANGED <<up, phase, swept, found, todo, job, live, tail, late>>

-----------------------------------------------------------------------------
(* Ending: shutdown() swaps its flag, records the cursors of the live       *)
(* sessions, then marks this owner's in-flight sessions.  A write that fails *)
(* is logged, and nothing else.                                             *)

ShutdownCursors(r) ==
    /\ phase[r] = "serving"
    /\ \E reported \in SUBSET (live[r] \cap Resumable) : RecordCursors(reported)
    /\ phase' = [phase EXCEPT ![r] = "cursors"]
    /\ UNCHANGED <<up, swept, found, todo, job, live, tail, late>>

ShutdownMark(r) ==
    /\ phase[r] = "cursors"
    /\ MarkInterruptedOnShutdown(r) \/ UNCHANGED storeVars
    /\ phase' = [phase EXCEPT ![r] = "marked"]
    /\ UNCHANGED <<up, swept, found, todo, job, live, tail, late>>

(* Drop shuts down (a no-op by now) and releases the guard.  A pump that    *)
(* upgraded its Weak just before still finishes its one event.              *)
Drop(r) ==
    /\ phase[r] = "marked" /\ job[r] = NoJob
    /\ phase' = [phase EXCEPT ![r] = "gone"]
    /\ live' = [live EXCEPT ![r] = {}]
    /\ Forget({r})
    /\ \E busy \in SUBSET live[r] : tail' = tail \cup ({r} \X busy)
    /\ UNCHANGED <<log, row, up, todo, job, late>>

TailFact(r, s, f) ==
    /\ <<r, s>> \in tail
    /\ tail' = tail \ {<<r, s>>}
    /\ late' = late \cup {s}
    /\ AppendFact(s, f, r)
    /\ UNCHANGED <<up, phase, swept, found, todo, job, live>>

Crash(p) ==
    LET lost == {r \in Runtimes : ProcOf[r] = p} IN
    /\ p \in up
    /\ up' = up \ {p}
    /\ phase' = [r \in Runtimes |-> IF r \in lost /\ Registered(r) THEN "gone" ELSE phase[r]]
    /\ live' = [r \in Runtimes |-> IF r \in lost THEN {} ELSE live[r]]
    /\ job' = [r \in Runtimes |-> IF r \in lost THEN NoJob ELSE job[r]]
    /\ todo' = [r \in Runtimes |-> IF r \in lost THEN {} ELSE todo[r]]
    /\ tail' = {t \in tail : t[1] \notin lost}
    /\ Forget(lost)
    /\ UNCHANGED <<log, row, late>>

-----------------------------------------------------------------------------
OpenStep(r) ==
    \/ ReadOrphans(r) \/ MarkOrphans(r) \/ Enumerate(r)
    \/ \E c \in todo[r] : Claim(r, c) \/ SkipCandidate(r, c)
    \/ StartAdapter(r) \/ RecordWorking(r) \/ Attach(r) \/ FinishOpen(r)

Next ==
    \/ \E r \in Runtimes :
         \/ Open(r) \/ OpenFails(r) \/ OpenStep(r)
         \/ CreateLive(r) \/ ShutdownCursors(r) \/ ShutdownMark(r) \/ Drop(r)
         \/ \E s \in Sessions :
              \/ CreateRow(r, s) \/ CloseLive(r, s) \/ CloseKnown(r, s)
              \/ \E f \in PumpFacts : PumpFact(r, s, f) \/ TailFact(r, s, f)
    \/ \E p \in Processes : Crash(p)

Spec == Init /\ [][Next]_vars

(* The thread in open() runs on unless its process dies; nothing else is    *)
(* assumed: hosts need not open, shut down or drop anything.                *)
FairSpec == Spec /\ \A r \in Runtimes : WF_vars(OpenStep(r))

-----------------------------------------------------------------------------
(* Two runtimes sharing one store cannot double-attach: no session is       *)
(* driven by the adapters of two registered runtimes (runtime.rs:299-312).  *)
AtMostOneAttached ==
    \A r1, r2 \in Runtimes, s \in Sessions :
        s \in Attached(r1) /\ s \in Attached(r2) => r1 = r2

(* What makes it so: whoever drives a session owns its row ...              *)
DriverOwnsRow == \A r \in Runtimes : \A s \in Attached(r) : row[s].known /\ row[s].owner = r

(* The row tells exactly the status its log tells, whatever sweeps, claims, *)
(* upserts and pumps of any runtime came in between (append.rs:105).        *)
ProjectionFollowsLog == \A s \in Sessions : Tells(log[s], row[s].status)

(* Once a runtime is past its sweep, no owner it read as dead still has a   *)
(* session in flight: the interruption is recorded before continuation is   *)
(* attempted (runtime.rs:232-246).  A dropped runtime's last pump write is  *)
(* the one thing that can still put such a session back in flight (late).   *)
SweptSettled ==
    \A r \in Runtimes, s \in Sessions :
        phase[r] \in {"enumerating", "resuming", "serving", "cursors", "marked"} /\ s \notin late =>
            ~(row[s].known /\ row[s].status \in InFlight /\ row[s].owner \in swept[r])

(* Whatever was orphaned in flight when a runtime began its sweep is        *)
(* settled or adopted, unless that runtime's process dies or its open fails.*)
OrphansSettle ==
    \A r \in Runtimes, s \in Sessions :
        (phase[r] = "registered" /\ s \in InFlightOrphans(Dead(r))) ~>
            (phase[r] = "gone" \/ row[s].status \notin InFlight
             \/ row[s].owner \notin Dead(r))

(* Statements of the source that do not hold of it.                         *)

(* append.rs:205-209, "one runtime's open never interrupts another's work": *)
(* the sweep of r changes no session a registered runtime drives.           *)
OpenLeavesOthersAlone ==
    [][\A r, o \in Runtimes : \A s \in Sessions :
          (r # o /\ phase[r] = "marking" /\ phase'[r] = "enumerating" /\ s \in Attached(o))
             => log'[s] = log[s]]_vars

(* commands.rs:286-288, "append session.closed as the last fact": the       *)
(* resume loop of r appends nothing to a session that is closed.            *)
ClosedIsLast ==
    [][\A r \in Runtimes, s \in Sessions :
          row[s].status = "closed" /\ job[r] = Job("started", s) => log'[s] = log[s]]_vars

(* runtime.rs:507-509, "dropping the runtime is a graceful shutdown: ...    *)
(* in-flight sessions are marked interrupted".                              *)
DropLeavesNothingInFlight ==
    [][\A r \in Runtimes : (phase[r] = "marked" /\ phase'[r] = "gone" /\ ProcOf[r] \in up')
          => OwnInFlight(r)' = {}]_vars
=============================================================================
