--------------------------- MODULE RunManagement ---------------------------
(***************************************************************************)
(* One owner's RunManager: the callers that start, answer and cancel Agent *)
(* Runs, the thread of the local approval channel, the worker of each run, *)
(* the thread that shuts the manager down, the shared run store and the    *)
(* store of another process that reconciles the owner's rows.              *)
(*                                                                         *)
(* A run has three mutexes that a thread keeps over more than one step:    *)
(* metadata, pending_input and interaction_response.  Who holds one is     *)
(* read off the program counters; the other locks cover one action here.   *)
(* A step that only takes such a mutex in passing waits for its holder.    *)
(***************************************************************************)
EXTENDS Sequences, Naturals, FiniteSets

CONSTANTS Runs,         \* run ids, handed out in order
          Callers,      \* threads that call the manager
          Approver,     \* the thread of the local approval channel
          Requests,     \* what a caller may ask for
          Timed,        \* the runs with a deadline
          MaxActive,    \* MAX_ACTIVE_RUNS
          MaxAsks,      \* bound on the requests of each run
          Crashes,      \* the owner process may die
          None

ASSUME RunsAssumption == Runs \subseteq Nat /\ IsFiniteSet(Runs) /\ None \notin Runs
ASSUME ApproverAssumption == Approver \notin Callers
ASSUME BoundsAssumption == MaxActive \in Nat /\ MaxAsks \in [Runs -> Nat]
(* dir: the workspace of a run that may write, or None; resume: a native    *)
(* session, or None; asks: the kind of request its provider makes.          *)
ASSUME RequestsAssumption ==
    \A q \in Requests : DOMAIN q = {"dir", "resume", "asks"} /\ q.asks \in {"input", "approval"}
ASSUME TimedAssumption == Timed \subseteq Runs
ASSUME CrashesAssumption == Crashes \in BOOLEAN

VARIABLES up,           \* the owner process runs
          shutdown,     \* ManagerInner.shutdown
          run,          \* RunRecord
          worker,       \* the worker threads
          thread,       \* the calling threads and the approval channel's
          closer,       \* the thread in shutdown_inner
          row,          \* the runs table
          events,       \* the terminal events of a run, in the buffer and in the store
          missed        \* history: runs on their way in when shutdown collected

vars == <<up, shutdown, run, worker, thread, closer, row, events, missed>>

Threads == Callers \cup {Approver}
Outcomes == {"succeeded", "failed", "cancelled", "timed_out"}
States == {"starting", "running", "waiting", "cancelling"} \cup Outcomes
ASSUME NoneAssumption == None \notin States \cup {"input", "approval"}

Asked == [id : Nat, kind : {"input", "approval"}]
NoRequest == [dir |-> None, resume |-> None, asks |-> None]

RunRecord == [state : States \cup {None}, pending : Asked \cup {None}, response : Nat,
              cancelled : BOOLEAN, expired : BOOLEAN, asks : Nat, handle : BOOLEAN,
              request : Requests \cup {NoRequest}, locked : BOOLEAN]
WorkerAt == {"none", "born", "executing", "waiting", "unwinding", "completing",
             "outcome", "announcing", "recording", "releasing", "done"}
Worker == [at : WorkerAt, result : Outcomes \cup {None}]
CallAt == {"idle", "admitting", "persisting", "spawning", "storing", "answering", "locked",
           "matched", "clearing", "approving", "approved", "resuming"}
Call == [at : CallAt, run : Runs \cup {None}, id : Nat]
Closer == [at : {"idle", "flagged", "signalling", "joining", "done"},
           todo : SUBSET Runs, all : SUBSET Runs]

TypeOK ==
    /\ up \in BOOLEAN /\ shutdown \in BOOLEAN
    /\ run \in [Runs -> RunRecord]
    /\ worker \in [Runs -> Worker]
    /\ thread \in [Threads -> Call]
    /\ closer \in Closer
    /\ row \in [Runs -> {"none", "active", "ended", "orphaned"}]
    /\ events \in [Runs -> Seq(Outcomes)]
    /\ missed \subseteq Runs

NoRun == [state |-> None, pending |-> None, response |-> 0, cancelled |-> FALSE, expired |-> FALSE,
          asks |-> 0, handle |-> FALSE, request |-> NoRequest, locked |-> FALSE]
NoCall == [at |-> "idle", run |-> None, id |-> 0]
NoWorker == [at |-> "none", result |-> None]
NoCloser == [at |-> "idle", todo |-> {}, all |-> {}]

Init ==
    /\ up = TRUE /\ shutdown = FALSE
    /\ run = [r \in Runs |-> NoRun] /\ worker = [r \in Runs |-> NoWorker]
    /\ thread = [t \in Threads |-> NoCall] /\ closer = NoCloser
    /\ row = [r \in Runs |-> "none"] /\ events = [r \in Runs |-> <<>>] /\ missed = {}

-----------------------------------------------------------------------------
(* Helpers.                                                                 *)

Terminal(r) == run[r].state \in Outcomes
Accepted == {r \in Runs : run[r].state # None}
Active == {r \in Accepted : ~Terminal(r)}

(* The mutexes held from one step to the next.                              *)
HoldsMetadata(r) == \E t \in Threads : thread[t].run = r /\ thread[t].at \in {"locked", "matched"}
HoldsPending(r) == \E t \in Threads : thread[t].run = r /\ thread[t].at = "matched"
HoldsResponse(r) == worker[r].at = "unwinding"

(* Between the shutdown flag and the stored handle; the next run id.        *)
Starting == {"admitting", "persisting", "spawning", "storing"}
Used(r) == row[r] # "none" \/ run[r] # NoRun
Fresh(r) == ~Used(r) /\ \A s \in Runs : s < r => Used(s)

Push(r, kind) == events' = [events EXCEPT ![r] = Append(@, kind)]
Goes(t, at) == thread' = [thread EXCEPT ![t].at = at]
Returns(t) == thread' = [thread EXCEPT ![t] = NoCall]
Works(r, at) == worker' = [worker EXCEPT ![r].at = at]
Ends(r, at, result) == worker' = [worker EXCEPT ![r] = [at |-> at, result |-> result]]

Idle(t) == up /\ thread[t].at = "idle"
At(t, at) == up /\ thread[t].at = at

-----------------------------------------------------------------------------
(* start_run and resume_session.                                            *)

DirFree(d) == \A r \in Runs : ~(run[r].locked /\ run[r].request.dir = d)

(* Mutant: a busy workspace is shared. *)
AcquireShared(t, r, q) ==
    /\ Idle(t) /\ ~shutdown /\ Fresh(r)
    /\ run' = [run EXCEPT ![r].request = q, ![r].locked = (q.dir # None)]
    /\ thread' = [thread EXCEPT ![t] = [at |-> "admitting", run |-> r, id |-> 0]]
    /\ UNCHANGED <<up, shutdown, worker, closer, row, events, missed>>

(* The flag is read first; a run that may write takes the workspace lock.   *)
Acquire(t, r, q) ==
    /\ Idle(t) /\ ~shutdown /\ Fresh(r) /\ DirFree(q.dir)
    /\ run' = [run EXCEPT ![r].request = q, ![r].locked = (q.dir # None)]
    /\ thread' = [thread EXCEPT ![t] = [at |-> "admitting", run |-> r, id |-> 0]]
    /\ UNCHANGED <<up, shutdown, worker, closer, row, events, missed>>

(* Mutant: only the bound is checked. *)
AdmissibleAnySession(r) == Cardinality(Active) < MaxActive

Admissible(r) ==
    /\ Cardinality(Active) < MaxActive
    /\ run[r].request.resume # None =>
           \A s \in Active : run[s].request.resume # run[r].request.resume

(* Under the records mutex: the bound, the native session, the insertion.   *)
(* The state of every record is read under its metadata.                    *)
Admit(t) ==
    /\ At(t, "admitting") /\ \A s \in Accepted : ~HoldsMetadata(s)
    /\ LET r == thread[t].run
       IN \/ /\ Admissible(r)
             /\ run' = [run EXCEPT ![r].state = "starting"] /\ Goes(t, "persisting")
          \/ /\ ~Admissible(r)
             /\ run' = [run EXCEPT ![r] = NoRun] /\ Returns(t)
    /\ UNCHANGED <<up, shutdown, worker, closer, row, events, missed>>

Persist(t) ==
    /\ At(t, "persisting")
    /\ LET r == thread[t].run
       IN row' = [row EXCEPT ![r] = "active"]
    /\ Goes(t, "spawning")
    /\ UNCHANGED <<up, shutdown, run, worker, closer, events, missed>>

(* A worker that cannot be spawned takes the record with it.                *)
Spawn(t) ==
    /\ At(t, "spawning")
    /\ LET r == thread[t].run
       IN \/ /\ Works(r, "born") /\ Goes(t, "storing")
             /\ UNCHANGED <<run, row, events>>
          \/ /\ run' = [run EXCEPT ![r] = NoRun]
             /\ Push(r, "failed") /\ row' = [row EXCEPT ![r] = "ended"]
             /\ Returns(t) /\ UNCHANGED worker
    /\ UNCHANGED <<up, shutdown, closer, missed>>

StoreHandle(t) ==
    /\ At(t, "storing")
    /\ run' = [run EXCEPT ![thread[t].run].handle = TRUE]
    /\ Returns(t)
    /\ UNCHANGED <<up, shutdown, worker, closer, row, events, missed>>

-----------------------------------------------------------------------------
(* The worker: run_worker, the provider's requests, complete.               *)

MarkRunning(r) ==
    /\ up /\ worker[r].at = "born" /\ ~HoldsMetadata(r)
    /\ \/ /\ run[r].state = "cancelling" /\ Ends(r, "completing", "cancelled")
          /\ UNCHANGED run
       \/ /\ run[r].state # "cancelling" /\ Works(r, "executing")
          /\ run' = [run EXCEPT ![r].state = IF @ = "starting" THEN "running" ELSE @]
    /\ UNCHANGED <<up, shutdown, thread, closer, row, events, missed>>

(* wait_for_provider_interaction up to its wait.  The approval channel may  *)
(* refuse the request, and always does once the manager shuts down.         *)
Ask(r) ==
    /\ up /\ worker[r].at = "executing" /\ run[r].asks < MaxAsks[r] /\ ~HoldsMetadata(r)
    /\ \/ /\ run[r].cancelled /\ Ends(r, "completing", "cancelled") /\ UNCHANGED run
       \/ /\ ~run[r].cancelled /\ (run[r].request.asks = "approval" => ~shutdown)
          /\ run' = [run EXCEPT ![r].state = "waiting", ![r].asks = @ + 1, ![r].response = 0,
                                ![r].pending = [id |-> run[r].asks + 1, kind |-> run[r].request.asks]]
          /\ Works(r, "waiting")
       \/ /\ ~run[r].cancelled /\ run[r].request.asks = "approval"
          /\ run' = [run EXCEPT ![r].state = "running", ![r].asks = @ + 1, ![r].response = 0,
                                ![r].pending = None]
          /\ Ends(r, "completing", IF shutdown THEN "cancelled" ELSE "failed")
    /\ UNCHANGED <<up, shutdown, thread, closer, row, events, missed>>

(* One turn of the waiting loop, which holds interaction_response: it gives *)
(* up, or takes the response, or sleeps.                                    *)
GiveUp(r) ==
    /\ up /\ worker[r].at = "waiting" /\ (run[r].cancelled \/ run[r].expired)
    /\ Ends(r, "unwinding", IF run[r].cancelled THEN "cancelled" ELSE "timed_out")
    /\ UNCHANGED <<up, shutdown, run, thread, closer, row, events, missed>>

TakeResponse(r) ==
    /\ up /\ worker[r].at = "waiting" /\ ~run[r].cancelled /\ ~run[r].expired
    /\ run[r].response # 0
    /\ run' = [run EXCEPT ![r].response = 0] /\ Works(r, "executing")
    /\ UNCHANGED <<up, shutdown, thread, closer, row, events, missed>>

(* With interaction_response held, pending_input is taken.                  *)
Unwind(r) ==
    /\ up /\ worker[r].at = "unwinding" /\ ~HoldsPending(r)
    /\ run' = [run EXCEPT ![r].pending = None] /\ Works(r, "completing")
    /\ UNCHANGED <<up, shutdown, thread, closer, row, events, missed>>

(* The adapter returns, whatever it was told.                               *)
Return(r) ==
    /\ up /\ worker[r].at = "executing"
    /\ \E result \in {"succeeded", "failed"}
               \cup (IF run[r].cancelled THEN {"cancelled"} ELSE {})
               \cup (IF run[r].expired THEN {"timed_out"} ELSE {}) :
           Ends(r, "completing", result)
    /\ UNCHANGED <<up, shutdown, run, thread, closer, row, events, missed>>

(* Mutant: the outcome of a cancelled run is the state it is in. *)
ReadOutcomeOfState(r) ==
    /\ up /\ worker[r].at = "completing" /\ ~HoldsPending(r)
    /\ run' = [run EXCEPT ![r].pending = None]
    /\ Ends(r, "outcome", IF run[r].cancelled /\ worker[r].result = "succeeded"
                          THEN run[r].state ELSE worker[r].result)
    /\ UNCHANGED <<up, shutdown, thread, closer, row, events, missed>>

(* complete: the request goes, then the cancellation is read, later the     *)
(* terminal state is set.                                                   *)
ReadOutcome(r) ==
    /\ up /\ worker[r].at = "completing" /\ ~HoldsPending(r)
    /\ run' = [run EXCEPT ![r].pending = None]
    /\ Ends(r, "outcome", IF run[r].cancelled /\ worker[r].result = "succeeded"
                          THEN "cancelled" ELSE worker[r].result)
    /\ UNCHANGED <<up, shutdown, thread, closer, row, events, missed>>

SetOutcome(r) ==
    /\ up /\ worker[r].at = "outcome" /\ ~HoldsMetadata(r)
    /\ run' = [run EXCEPT ![r].state = worker[r].result] /\ Works(r, "announcing")
    /\ UNCHANGED <<up, shutdown, thread, closer, row, events, missed>>

Announce(r) ==
    /\ up /\ worker[r].at = "announcing"
    /\ Push(r, run[r].state) /\ Works(r, "recording")
    /\ UNCHANGED <<up, shutdown, run, thread, closer, row, missed>>

RecordCompleted(r) ==
    /\ up /\ worker[r].at = "recording"
    /\ row' = [row EXCEPT ![r] = "ended"] /\ Works(r, "releasing")
    /\ UNCHANGED <<up, shutdown, run, thread, closer, events, missed>>

Release(r) ==
    /\ up /\ worker[r].at = "releasing"
    /\ run' = [run EXCEPT ![r].locked = FALSE] /\ Works(r, "done")
    /\ UNCHANGED <<up, shutdown, thread, closer, row, events, missed>>

Expire(r) ==
    /\ up /\ r \in Timed /\ worker[r].at \notin {"none", "done"} /\ ~run[r].expired
    /\ run' = [run EXCEPT ![r].expired = TRUE]
    /\ UNCHANGED <<up, shutdown, worker, thread, closer, row, events, missed>>

-----------------------------------------------------------------------------
(* answer_input.                                                            *)

AnswerReads(t, r) ==
    /\ Idle(t) /\ ~HoldsPending(r) /\ run[r].pending # None /\ run[r].pending.kind = "input"
    /\ thread' = [thread EXCEPT ![t] =
           [at |-> "answering", run |-> r, id |-> run[r].pending.id]]
    /\ UNCHANGED <<up, shutdown, run, worker, closer, row, events, missed>>

AnswerLocks(t) ==
    /\ At(t, "answering") /\ ~HoldsMetadata(thread[t].run)
    /\ IF Terminal(thread[t].run) THEN Returns(t) ELSE Goes(t, "locked")
    /\ UNCHANGED <<up, shutdown, run, worker, closer, row, events, missed>>

(* Mutant: the request is not compared again under the lock. *)
AnswerMatchesAnything(t) ==
    /\ At(t, "locked") /\ Goes(t, "matched")
    /\ UNCHANGED <<up, shutdown, run, worker, closer, row, events, missed>>

AnswerMatches(t) ==
    /\ At(t, "locked")
    /\ LET pending == run[thread[t].run].pending
       IN IF pending # None /\ pending.id = thread[t].id
          THEN Goes(t, "matched") ELSE Returns(t)
    /\ UNCHANGED <<up, shutdown, run, worker, closer, row, events, missed>>

(* With pending_input held, interaction_response is taken.                  *)
AnswerDelivers(t) ==
    /\ At(t, "matched") /\ ~HoldsResponse(thread[t].run)
    /\ run' = [run EXCEPT ![thread[t].run] =
           [@ EXCEPT !.pending = None, !.response = thread[t].id, !.state = "running"]]
    /\ Returns(t)
    /\ UNCHANGED <<up, shutdown, worker, closer, row, events, missed>>

-----------------------------------------------------------------------------
(* approve_locally, by the approval channel: one request at a time.         *)

ApproveReads(r) ==
    /\ Idle(Approver) /\ ~HoldsPending(r)
    /\ run[r].pending # None /\ run[r].pending.kind = "approval"
    /\ thread' = [thread EXCEPT ![Approver] =
           [at |-> "approving", run |-> r, id |-> run[r].pending.id]]
    /\ UNCHANGED <<up, shutdown, run, worker, closer, row, events, missed>>

ApproveClears ==
    /\ At(Approver, "approving") /\ ~HoldsPending(thread[Approver].run)
    /\ run' = [run EXCEPT ![thread[Approver].run].pending = None]
    /\ Goes(Approver, "approved")
    /\ UNCHANGED <<up, shutdown, worker, closer, row, events, missed>>

ApproveDelivers ==
    /\ At(Approver, "approved") /\ ~HoldsResponse(thread[Approver].run)
    /\ run' = [run EXCEPT ![thread[Approver].run].response = thread[Approver].id]
    /\ Goes(Approver, "resuming")
    /\ UNCHANGED <<up, shutdown, worker, closer, row, events, missed>>

(* Mutant: the state is not looked at. *)
ApproveResumesAnything ==
    /\ At(Approver, "resuming") /\ ~HoldsMetadata(thread[Approver].run)
    /\ run' = [run EXCEPT ![thread[Approver].run].state = "running"]
    /\ Returns(Approver)
    /\ UNCHANGED <<up, shutdown, worker, closer, row, events, missed>>

ApproveResumes ==
    /\ At(Approver, "resuming") /\ ~HoldsMetadata(thread[Approver].run)
    /\ run' = [run EXCEPT ![thread[Approver].run].state = IF @ \in Outcomes THEN @ ELSE "running"]
    /\ Returns(Approver)
    /\ UNCHANGED <<up, shutdown, worker, closer, row, events, missed>>

-----------------------------------------------------------------------------
(* cancel_run, by a caller, or by the channel for a cancelled approval.     *)

CancelMarks(t, r) ==
    /\ Idle(t) /\ r \in Active /\ ~HoldsMetadata(r)
    /\ t = Approver => run[r].pending # None /\ run[r].pending.kind = "approval"
    /\ run' = [run EXCEPT ![r].state = "cancelling"]
    /\ thread' = [thread EXCEPT ![t] = [at |-> "clearing", run |-> r, id |-> 0]]
    /\ UNCHANGED <<up, shutdown, worker, closer, row, events, missed>>

(* Mutant: the waiting worker is not told. *)
CancelOnlyClears(t) ==
    /\ At(t, "clearing") /\ ~HoldsPending(thread[t].run)
    /\ run' = [run EXCEPT ![thread[t].run].pending = None]
    /\ Returns(t)
    /\ UNCHANGED <<up, shutdown, worker, closer, row, events, missed>>

CancelTells(t) ==
    /\ At(t, "clearing") /\ ~HoldsPending(thread[t].run)
    /\ run' = [run EXCEPT ![thread[t].run] = [@ EXCEPT !.pending = None, !.cancelled = TRUE]]
    /\ Returns(t)
    /\ UNCHANGED <<up, shutdown, worker, closer, row, events, missed>>

-----------------------------------------------------------------------------
(* shutdown_inner.                                                          *)

ShutdownFlags ==
    /\ up /\ closer.at = "idle"
    /\ shutdown' = TRUE /\ closer' = [closer EXCEPT !.at = "flagged"]
    /\ UNCHANGED <<up, run, worker, thread, row, events, missed>>

(* The approval channel is joined, then the records are collected.          *)
ShutdownCollects ==
    /\ up /\ closer.at = "flagged" /\ thread[Approver].at = "idle"
    /\ closer' = [at |-> "signalling", todo |-> Accepted, all |-> Accepted]
    /\ missed' = {thread[t].run : t \in {c \in Callers : thread[c].at \in Starting}}
    /\ UNCHANGED <<up, shutdown, run, worker, thread, row, events>>

ShutdownSignals(r) ==
    /\ up /\ closer.at = "signalling" /\ r \in closer.todo /\ ~HoldsMetadata(r)
    /\ run' = IF Terminal(r) \/ run[r].state = None THEN run
              ELSE [run EXCEPT ![r] = [@ EXCEPT !.state = "cancelling", !.cancelled = TRUE]]
    /\ closer' = [closer EXCEPT !.todo = @ \ {r}]
    /\ UNCHANGED <<up, shutdown, worker, thread, row, events, missed>>

ShutdownJoins ==
    /\ up /\ closer.at = "signalling" /\ closer.todo = {}
    /\ closer' = [closer EXCEPT !.at = "joining", !.todo = closer.all]
    /\ UNCHANGED <<up, shutdown, run, worker, thread, row, events, missed>>

(* Mutant: a worker is told and left. *)
ShutdownForgets(r) ==
    /\ up /\ closer.at = "joining" /\ r \in closer.todo
    /\ closer' = [closer EXCEPT !.todo = @ \ {r}]
    /\ UNCHANGED <<up, shutdown, run, worker, thread, row, events, missed>>

(* A record without a handle yet is passed over.                            *)
ShutdownReaps(r) ==
    /\ up /\ closer.at = "joining" /\ r \in closer.todo
    /\ run[r].handle => worker[r].at = "done"
    /\ closer' = [closer EXCEPT !.todo = @ \ {r}]
    /\ UNCHANGED <<up, shutdown, run, worker, thread, row, events, missed>>

ShutdownReturns ==
    /\ up /\ closer.at = "joining" /\ closer.todo = {}
    /\ closer' = [closer EXCEPT !.at = "done"]
    /\ UNCHANGED <<up, shutdown, run, worker, thread, row, events, missed>>

-----------------------------------------------------------------------------
(* The owner dies; another process opens the store.                         *)

OwnerDies ==
    /\ Crashes /\ up /\ up' = FALSE
    /\ run' = [r \in Runs |-> NoRun] /\ worker' = [r \in Runs |-> NoWorker]
    /\ thread' = [t \in Threads |-> NoCall] /\ closer' = NoCloser
    /\ UNCHANGED <<shutdown, row, events, missed>>

Reconcile(r) ==
    /\ ~up /\ row[r] = "active"
    /\ row' = [row EXCEPT ![r] = "orphaned"]
    /\ UNCHANGED <<up, shutdown, run, worker, thread, closer, events, missed>>

HasEnding(r) == \E i \in 1 .. Len(events[r]) : events[r][i] \in Outcomes

(* The terminal event the stream never received.                            *)
ReconcileEvent(r) ==
    /\ ~up /\ row[r] = "orphaned" /\ ~HasEnding(r)
    /\ Push(r, "failed")
    /\ UNCHANGED <<up, shutdown, run, worker, thread, closer, row, missed>>

-----------------------------------------------------------------------------

WorkerSteps(r) ==
    \/ MarkRunning(r) \/ GiveUp(r) \/ TakeResponse(r) \/ Unwind(r)
    \/ ReadOutcome(r) \/ SetOutcome(r) \/ Announce(r) \/ RecordCompleted(r) \/ Release(r)

CallerSteps(t) ==
    \/ Admit(t) \/ Persist(t) \/ Spawn(t) \/ StoreHandle(t)
    \/ AnswerLocks(t) \/ AnswerMatches(t) \/ AnswerDelivers(t)
    \/ CancelTells(t)

ApproverSteps ==
    \/ ApproveClears \/ ApproveDelivers \/ ApproveResumes
    \/ CancelTells(Approver)

CloserSteps ==
    \/ ShutdownCollects \/ ShutdownJoins \/ ShutdownReturns
    \/ \E r \in Runs : ShutdownSignals(r) \/ ShutdownReaps(r)

Calls ==
    \/ \E t \in Callers, r \in Runs :
           \/ AnswerReads(t, r)
           \/ \E q \in Requests : Acquire(t, r, q)
    \/ \E r \in Runs : ApproveReads(r)
    \/ \E r \in Runs, t \in Threads : CancelMarks(t, r)
    \/ ShutdownFlags

Provider(r) == Return(r) \/ Ask(r)

Next ==
    \/ \E t \in Callers : CallerSteps(t)
    \/ ApproverSteps \/ CloserSteps \/ Calls
    \/ \E r \in Runs : WorkerSteps(r) \/ Provider(r) \/ Expire(r)
    \/ OwnerDies \/ \E r \in Runs : Reconcile(r) \/ ReconcileEvent(r)

Spec == Init /\ [][Next]_vars

(* Threads that are in a call go on, as a mutex or a join lets them, and an *)
(* adapter that was told to stop returns.                                   *)
Told(r) == run[r].cancelled \/ run[r].expired

Fairness ==
    /\ (\A t \in Callers : WF_vars(CallerSteps(t))) /\ WF_vars(ApproverSteps) /\ WF_vars(CloserSteps)
    /\ \A r \in Runs : WF_vars(WorkerSteps(r)) /\ WF_vars(Told(r) /\ Return(r))
                       /\ WF_vars(Reconcile(r)) /\ WF_vars(ReconcileEvent(r))

FairSpec == Spec /\ Fairness

-----------------------------------------------------------------------------
(* Properties.                                                              *)

(* start_run's admission holds at every moment, not only when it is made:   *)
(* the bound on active runs, and one active run per native session.         *)
AdmissionHolds ==
    /\ Cardinality(Active) <= MaxActive
    /\ \A r, s \in Active :
           run[r].request.resume # None /\ run[r].request.resume = run[s].request.resume => r = s

(* No two runs that may write work in one directory, from the provider's    *)
(* start until the last row of the run is written.                          *)
Writing(r) == run[r].request.dir # None /\ worker[r].at \notin {"none", "done"}
WritersExclusive == 
    \A r, s \in Runs : Writing(r) /\ Writing(s) /\ run[r].request.dir = run[s].request.dir => r = s

(* A response a worker may take answers the request it waits for, whoever   *)
(* else cancels, answers late, or is asked next.                            *)
AnswerReachesItsRequest ==
    \A r \in Runs : worker[r].at = "waiting" /\ run[r].response # 0 =>
        run[r].response = run[r].asks

(* A stream has one ending; a run that has completed shows it, and a row    *)
(* its owner closed never lacks it.                                         *)
OneEnding ==
    \A r \in Runs :
        /\ \A i, j \in 1 .. Len(events[r]) :
               events[r][i] \in Outcomes /\ events[r][j] \in Outcomes => i = j
        /\ row[r] = "ended" => HasEnding(r)
        /\ worker[r].at = "done" => \E i \in 1 .. Len(events[r]) : events[r][i] = run[r].state

(* What a run's hosts and readers are shown is true of it.                  *)
InteractionIsHonest == AnswerReachesItsRequest /\ OneEnding

(* shutdown returns when every worker is reaped, those of runs that were    *)
(* on their way in when it looked excepted.                                 *)
ShutdownLeavesNobody ==
    closer.at = "done" => \A r \in Runs : worker[r].at \in {"none", "done"} \/ r \in missed

(* Terminal outcomes are immutable.                                         *)
OutcomeStands == [][up' => \A r \in Runs : Terminal(r) => run'[r].state = run[r].state]_vars

(* The owner answers and the worker gives up, each with the mutex the other *)
(* one needs.                                                               *)
LockCycle(r) == HoldsPending(r) /\ HoldsResponse(r)

(* A run that is cancelled or out of time ends, and a dead owner's row is   *)
(* closed, unless the owner died before the run had a row.  Only the lock   *)
(* cycle stands in the way.                                                 *)
MustEnd(r) == Told(r) \/ run[r].state = "cancelling" \/ (row[r] = "active" /\ ~up)
HasEnded(r) ==
    \/ Terminal(r) \/ row[r] \in {"ended", "orphaned"}
    \/ ~up /\ row[r] = "none"
    \/ LockCycle(r)

EndsWhenTold == \A r \in Runs : MustEnd(r) ~> HasEnded(r)

(* Statements of the source and the docs that do not hold.                  *)

(* unified-agent-management.md: active runs end when cancelled, their       *)
(* deadline expires, or their owner closes.                                 *)
DeadlineEndsRun == \A r \in Runs : run[r].expired ~> Terminal(r)

(* shutdown: cancel active runs and join every owned worker.                *)
ShutdownLeavesNobodyAtAll == closer.at = "done" => \A r \in Runs : worker[r].at \in {"none", "done"}

(* unified-agent-management.md: cancelling, then cancelled or timed out.    *)
CancellingIsLast ==
    [][\A r \in Runs : run[r].state = "cancelling" =>
           run'[r].state \in {"cancelling", "cancelled", "timed_out"}]_vars
=============================================================================
