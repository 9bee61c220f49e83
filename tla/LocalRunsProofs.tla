--------------------------- MODULE LocalRunsProofs ---------------------------
(***************************************************************************)
(* About RunManagement, and then ExecutionDrain and ApprovalRecords, the   *)
(* parts MCLocalRuns puts together.                                        *)
(*                                                                         *)
(* What RunManagement keeps for any number of runs, callers and requests:  *)
(* the admission rules at every moment, terminal outcomes, the workspace   *)
(* locks, what a shutdown leaves behind, the endings of streams and the    *)
(* answers that reach their requests.                                      *)
(*                                                                         *)
(* What an execution and an approval keep on one machine: the drain, for   *)
(* agents that say and ask any number of things, reports what happened;    *)
(* for any processes, requests and submitters, who waits can be approved.  *)
(***************************************************************************)
EXTENDS MCLocalRuns, FiniteSetTheorems, TLAPS

-----------------------------------------------------------------------------
(* RunManagement.                                                           *)

Alive == {"born", "executing", "waiting", "unwinding", "completing", "outcome"}
Over == {"announcing", "recording", "releasing", "done"}
Reporting == {"unwinding", "completing", "outcome"}

(* A worker lives on an active run, has ended a terminal one, and reports   *)
(* an outcome.                                                              *)
WorkersMatchStates ==
    \A r \in Runs : /\ worker[r].at \in Alive => r \in Active
                    /\ worker[r].at \in Over => Terminal(r)
                    /\ worker[r].at = "none" => ~Terminal(r) /\ run[r].pending = None
                    /\ worker[r].at \in Reporting => worker[r].result \in Outcomes

(* A run is started by one thread, which has not spawned its worker yet.    *)
StartsMatchStates ==
    \A t \in Threads :
        /\ thread[t].at # "idle" => thread[t].run \in Runs
        /\ thread[t].at \in Starting =>
               /\ run[thread[t].run].request # NoRequest
               /\ \A u \in Threads : thread[u].at \in Starting /\ thread[u].run = thread[t].run => u = t
        /\ thread[t].at = "admitting" => run[thread[t].run].state = None
        /\ thread[t].at \in {"persisting", "spawning"} => run[thread[t].run].state # None
        /\ thread[t].at \in {"admitting", "persisting", "spawning"} => worker[thread[t].run].at = "none"

(* An answer is for a run that has a worker; one that holds the metadata    *)
(* keeps the run from ending.                                               *)
AnswersMatchStates ==
    \A t \in Threads :
        /\ thread[t].at \in {"answering", "locked", "matched", "approving", "approved", "resuming"}
               => worker[thread[t].run].at # "none"
        /\ thread[t].at \in {"locked", "matched"} => ~Terminal(thread[t].run)

Inv == TypeOK /\ WorkersMatchStates /\ StartsMatchStates /\ AnswersMatchStates

-----------------------------------------------------------------------------

(* What all steps but those of a start, a completion and a crash do to the  *)
(* runs, to the workers and to the threads.                                 *)
CalmRuns ==
    /\ run' \in [Runs -> RunRecord]
    /\ \A s \in Runs :
           /\ run'[s].request = run[s].request
           /\ \/ run'[s].state = run[s].state
              \/ s \in Active /\ run'[s].state \in States \ Outcomes
           /\ \/ run'[s].pending \in {run[s].pending, None}
              \/ worker'[s].at # "none"

CalmWorkers ==
    /\ worker' \in [Runs -> Worker]
    /\ \A s \in Runs :
           /\ \/ worker'[s].at = worker[s].at
              \/ worker[s].at \in Alive /\ worker'[s].at \in Alive
              \/ worker[s].at \in Over /\ worker'[s].at \in Over
           /\ worker'[s].at \in Reporting => worker'[s].result \in Outcomes

CalmThreads ==
    /\ thread' \in [Threads -> Call]
    /\ \A u \in Threads :
           \/ thread'[u].at = thread[u].at /\ thread'[u].run = thread[u].run
           \/ thread'[u].at = "idle"
           \/ thread'[u].at = "clearing" /\ thread'[u].run \in Runs
           \/ /\ thread'[u].at \in {"answering", "approving"} /\ thread'[u].run \in Runs
              /\ worker[thread'[u].run].at # "none"
           \/ /\ thread'[u].run = thread[u].run
              /\ \/ thread[u].at = "persisting" /\ thread'[u].at = "spawning"
                 \/ thread[u].at = "locked" /\ thread'[u].at = "matched"
                 \/ thread[u].at = "approving" /\ thread'[u].at = "approved"
                 \/ thread[u].at = "approved" /\ thread'[u].at = "resuming"
                 \/ /\ thread[u].at = "answering" /\ thread'[u].at = "locked"
                    /\ ~Terminal(thread[u].run)

(* The rest of the type invariant.                                          *)
RestOK ==
    /\ up \in BOOLEAN /\ shutdown \in BOOLEAN
    /\ closer \in Closer
    /\ row \in [Runs -> {"none", "active", "ended", "orphaned"}]
    /\ events \in [Runs -> Seq(Outcomes)]
    /\ missed \subseteq Runs

Calm == CalmRuns /\ CalmWorkers /\ CalmThreads /\ RestOK'

-----------------------------------------------------------------------------
(* Lemmas about names and updates.                                          *)

LEMMA Names ==
    /\ {"starting", "running", "waiting", "cancelling"} = States \ Outcomes
    /\ {"succeeded", "failed", "cancelled", "timed_out"} = Outcomes
    /\ None \notin States /\ Outcomes \subseteq States
  BY NoneAssumption DEF States, Outcomes

LEMMA Places ==
    /\ WorkerAt = {"none"} \cup Alive \cup Over
    /\ Alive \cap Over = {} /\ "none" \notin Alive \cup Over
    /\ Reporting \subseteq Alive
  BY DEF WorkerAt, Alive, Over, Reporting

LEMMA StartingPlaces ==
    /\ {"admitting", "persisting", "spawning"} \subseteq Starting /\ Starting \subseteq CallAt
    /\ Starting \cap {"idle", "answering", "locked", "matched", "clearing", "approving",
                        "approved", "resuming"} = {}
  BY DEF Starting, CallAt

(* A run with a worker has a state, an active one if it has not ended.      *)
LEMMA Staffed ==
    ASSUME Inv, NEW r \in Runs, worker[r].at # "none"
    PROVE  /\ run[r].state # None
           /\ ~Terminal(r) => r \in Active
  <1>1. worker[r].at \in WorkerAt
    BY DEF Inv, TypeOK, Worker
  <1>2. worker[r].at \in Alive \/ worker[r].at \in Over
    BY <1>1, Places
  <1>. QED
    BY <1>2, Names DEF Inv, WorkersMatchStates, Active, Accepted, Terminal

LEMMA RunUpdate ==
    ASSUME run \in [Runs -> RunRecord], NEW r \in Runs, NEW rec \in RunRecord,
           run' = [run EXCEPT ![r] = rec]
    PROVE  /\ run' \in [Runs -> RunRecord]
           /\ \A s \in Runs : run'[s] = IF s = r THEN rec ELSE run[s]
  OBVIOUS

(* A step that gives one run a calm record is calm.                         *)
LEMMA RunCalm ==
    ASSUME Inv, NEW r \in Runs, NEW rec \in RunRecord, run' = [run EXCEPT ![r] = rec],
           rec.request = run[r].request,
           rec.state = run[r].state \/ (r \in Active /\ rec.state \in States \ Outcomes),
           rec.pending \in {run[r].pending, None} \/ worker'[r].at # "none"
    PROVE  CalmRuns
  <1>1. run \in [Runs -> RunRecord]
    BY DEF Inv, TypeOK
  <1>. QED
    BY <1>1, RunUpdate DEF CalmRuns

LEMMA RunsSame == ASSUME Inv, run' = run PROVE CalmRuns
  BY DEF Inv, TypeOK, CalmRuns

LEMMA WorkersSame == ASSUME Inv, worker' = worker PROVE CalmWorkers
  BY DEF Inv, TypeOK, CalmWorkers, WorkersMatchStates

LEMMA ThreadsSame == ASSUME Inv, thread' = thread PROVE CalmThreads
  BY DEF Inv, TypeOK, CalmThreads

LEMMA WorkerWorks ==
    ASSUME Inv, NEW r \in Runs, NEW at \in WorkerAt, Works(r, at),
           \/ worker[r].at \in Alive /\ at \in Alive
           \/ worker[r].at \in Over /\ at \in Over,
           at \in Reporting => worker[r].at \in Reporting
    PROVE  CalmWorkers
  <1>1. worker \in [Runs -> Worker]
    BY DEF Inv, TypeOK
  <1>. QED
    BY <1>1 DEF CalmWorkers, Works, Worker, Inv, WorkersMatchStates

LEMMA WorkerEnds ==
    ASSUME Inv, NEW r \in Runs, NEW at \in Alive, NEW result \in Outcomes, Ends(r, at, result),
           worker[r].at \in Alive
    PROVE  CalmWorkers
  <1>1. worker \in [Runs -> Worker]
    BY DEF Inv, TypeOK
  <1>2. [at |-> at, result |-> result] \in Worker
    BY Places DEF Worker
  <1>. QED
    BY <1>1, <1>2 DEF CalmWorkers, Ends, Inv, WorkersMatchStates

LEMMA ThreadReturns ==
    ASSUME Inv, NEW t \in Threads, Returns(t)
    PROVE  CalmThreads
  <1>1. thread \in [Threads -> Call]
    BY DEF Inv, TypeOK
  <1>2. NoCall \in Call /\ NoCall.at = "idle"
    BY DEF NoCall, Call, CallAt
  <1>. QED
    BY <1>1, <1>2 DEF CalmThreads, Returns

LEMMA ThreadGoes ==
    ASSUME Inv, NEW t \in Threads, NEW at \in CallAt, Goes(t, at)
    PROVE  /\ thread' \in [Threads -> Call]
           /\ \A u \in Threads : /\ thread'[u].run = thread[u].run
                                 /\ thread'[u].at = IF u = t THEN at ELSE thread[u].at
  <1>1. thread \in [Threads -> Call]
    BY DEF Inv, TypeOK
  <1>. QED
    BY <1>1 DEF Goes, Call

LEMMA ThreadCalls ==
    ASSUME Inv, NEW t \in Threads, NEW call \in Call, thread' = [thread EXCEPT ![t] = call]
    PROVE  /\ thread' \in [Threads -> Call]
           /\ \A u \in Threads : thread'[u] = IF u = t THEN call ELSE thread[u]
  <1>1. thread \in [Threads -> Call]
    BY DEF Inv, TypeOK
  <1>. QED
    BY <1>1

(* A calm step keeps the invariant.                                         *)
LEMMA CalmKeepsInv == Inv /\ Calm => Inv'
  <1>. SUFFICES ASSUME Inv, Calm PROVE Inv'
    OBVIOUS
  <1>1. TypeOK'
    BY DEF Calm, CalmRuns, CalmWorkers, CalmThreads, RestOK, TypeOK
  <1>2. \A s \in Runs : /\ s \in Active => s \in Active'
                        /\ Terminal(s) => Terminal(s)'
                        /\ ~Terminal(s) => ~Terminal(s)'
                        /\ run[s].state = None <=> run'[s].state = None
    BY Names DEF Calm, CalmRuns, Active, Accepted, Terminal
  <1>3. \A s \in Runs : /\ worker'[s].at \in Alive <=> worker[s].at \in Alive
                        /\ worker'[s].at \in Over <=> worker[s].at \in Over
                        /\ worker'[s].at = "none" <=> worker[s].at = "none"
    BY Places DEF Calm, CalmWorkers
  <1>4. WorkersMatchStates'
    <2>. SUFFICES ASSUME NEW r \in Runs
                  PROVE  /\ worker'[r].at \in Alive => (r \in Active)'
                         /\ worker'[r].at \in Over => Terminal(r)'
                         /\ worker'[r].at = "none" => ~Terminal(r)' /\ run'[r].pending = None
                         /\ worker'[r].at \in Reporting => worker'[r].result \in Outcomes
      BY DEF WorkersMatchStates
    <2>1. worker'[r].at = "none" => run'[r].pending = None
      BY <1>3 DEF Inv, Calm, CalmRuns, WorkersMatchStates
    <2>2. worker'[r].at \in Reporting => worker'[r].result \in Outcomes
      BY DEF Calm, CalmWorkers
    <2>. QED
      BY <1>2, <1>3, <2>1, <2>2 DEF Inv, WorkersMatchStates
  <1>5. StartsMatchStates'
    <2>1. \A t \in Threads : thread'[t].at # "idle" => thread'[t].run \in Runs
      BY DEF Inv, StartsMatchStates, Calm, CalmThreads
    <2>2. \A t \in Threads : thread'[t].at \in Starting =>
             thread[t].at \in Starting /\ thread'[t].run = thread[t].run
      BY DEF Calm, CalmThreads, Starting
    <2>3. \A t \in Threads : thread'[t].at \in {"admitting", "persisting", "spawning"} =>
             /\ thread[t].at \in {"admitting", "persisting", "spawning"}
             /\ thread'[t].at = "admitting" <=> thread[t].at = "admitting"
      BY DEF Calm, CalmThreads
    <2>4. \A t \in Threads : thread'[t].at \in {"admitting", "persisting", "spawning"} =>
             thread'[t].at \in Starting /\ thread'[t].at # "idle"
      BY DEF Starting
    <2>5. \A t \in Threads : thread'[t].at \in Starting => thread'[t].at # "idle"
      BY DEF Starting
    <2>6. \A t \in Threads : thread'[t].at \in Starting =>
             /\ run'[thread'[t].run].request # NoRequest
             /\ \A u \in Threads :
                    thread'[u].at \in Starting /\ thread'[u].run = thread'[t].run => u = t
      BY <2>1, <2>2, <2>5 DEF Inv, StartsMatchStates, Calm, CalmRuns
    <2>7. \A t \in Threads :
             /\ thread'[t].at = "admitting" => run'[thread'[t].run].state = None
             /\ thread'[t].at \in {"persisting", "spawning"} => run'[thread'[t].run].state # None
             /\ thread'[t].at \in {"admitting", "persisting", "spawning"} =>
                    worker'[thread'[t].run].at = "none"
      BY <1>2, <1>3, <2>1, <2>2, <2>3, <2>4 DEF Inv, StartsMatchStates
    <2>. QED
      BY <2>1, <2>6, <2>7 DEF StartsMatchStates
  <1>6. AnswersMatchStates'
    <2>1. \A t \in Threads : thread[t].at # "idle" => thread[t].run \in Runs
      BY DEF Inv, StartsMatchStates
    <2>. SUFFICES ASSUME NEW t \in Threads
                  PROVE  /\ thread'[t].at \in {"answering", "locked", "matched", "approving",
                                              "approved", "resuming"}
                                => worker'[thread'[t].run].at # "none"
                         /\ thread'[t].at \in {"locked", "matched"} => ~Terminal(thread[t].run)'
                                /\ thread'[t].run = thread[t].run
      BY DEF AnswersMatchStates
    <2>2. CASE thread'[t].at = thread[t].at /\ thread'[t].run = thread[t].run
      BY <1>2, <1>3, <2>1, <2>2 DEF Inv, AnswersMatchStates
    <2>3. CASE thread'[t].at \in {"idle", "clearing", "spawning"}
      BY <2>3
    <2>4. CASE /\ thread'[t].at \in {"answering", "approving"} /\ thread'[t].run \in Runs
               /\ worker[thread'[t].run].at # "none"
      BY <1>3, <2>4
    <2>5. CASE /\ thread'[t].run = thread[t].run
               /\ thread[t].at \in {"answering", "locked", "approving", "approved"}
               /\ thread'[t].at = "locked" => ~Terminal(thread[t].run)
               /\ thread'[t].at = "matched" => thread[t].at = "locked"
      BY <1>2, <1>3, <2>1, <2>5 DEF Inv, AnswersMatchStates
    <2>. QED
      BY <2>2, <2>3, <2>4, <2>5 DEF Calm, CalmThreads
  <1>. QED
    BY <1>1, <1>4, <1>5, <1>6 DEF Inv

-----------------------------------------------------------------------------
(* The calm steps, by the thread that takes them.                           *)

LEMMA RestSame ==
    ASSUME Inv, UNCHANGED <<up, shutdown, closer, row, events, missed>>
    PROVE  RestOK'
  BY DEF Inv, TypeOK, RestOK

(* A record whose flags change.                                             *)
LEMMA RecordFields == ASSUME Inv, NEW r \in Runs PROVE run[r] \in RunRecord
  BY DEF Inv, TypeOK

LEMMA Flags ==
    ASSUME Inv, NEW r \in Runs, NEW b \in BOOLEAN
    PROVE  /\ [run[r] EXCEPT !.locked = b] \in RunRecord
           /\ [run[r] EXCEPT !.expired = b] \in RunRecord
           /\ [run[r] EXCEPT !.handle = b] \in RunRecord
  BY RecordFields DEF RunRecord

LEMMA GiveUpCalm == ASSUME NEW r \in Runs, Inv, GiveUp(r) PROVE Calm
  <1>1. CalmRuns
    BY RunsSame DEF GiveUp
  <1>2. CalmWorkers
    BY WorkerEnds, Names DEF GiveUp, Alive
  <1>3. CalmThreads
    BY ThreadsSame DEF GiveUp
  <1>4. RestOK'
    BY RestSame DEF GiveUp
  <1>. QED
    BY <1>1, <1>2, <1>3, <1>4 DEF Calm

LEMMA TakeResponseCalm == ASSUME NEW r \in Runs, Inv, TakeResponse(r) PROVE Calm
  <1>1. CalmRuns
    <2>. DEFINE rec == [run[r] EXCEPT !.response = 0]
    <2>1. rec \in RunRecord /\ rec.request = run[r].request /\ rec.state = run[r].state /\ rec.pending = run[r].pending
      BY RecordFields, Names DEF RunRecord
    <2>2. run' = [run EXCEPT ![r] = rec]
      BY DEF TakeResponse
    <2>. HIDE DEF rec
    <2>. QED
      BY <2>1, <2>2, RunCalm
  <1>2. CalmWorkers
    BY WorkerWorks, Places DEF TakeResponse, Alive, Over, Reporting
  <1>3. CalmThreads
    BY ThreadsSame DEF TakeResponse
  <1>4. RestOK'
    BY RestSame DEF TakeResponse
  <1>. QED
    BY <1>1, <1>2, <1>3, <1>4 DEF Calm

LEMMA UnwindCalm == ASSUME NEW r \in Runs, Inv, Unwind(r) PROVE Calm
  <1>1. CalmRuns
    <2>. DEFINE rec == [run[r] EXCEPT !.pending = None]
    <2>1. rec \in RunRecord /\ rec.request = run[r].request /\ rec.state = run[r].state /\ rec.pending = None
      BY RecordFields, Names DEF RunRecord
    <2>2. run' = [run EXCEPT ![r] = rec]
      BY DEF Unwind
    <2>. HIDE DEF rec
    <2>. QED
      BY <2>1, <2>2, RunCalm
  <1>2. CalmWorkers
    BY WorkerWorks, Places DEF Unwind, Alive, Over, Reporting
  <1>3. CalmThreads
    BY ThreadsSame DEF Unwind
  <1>4. RestOK'
    BY RestSame DEF Unwind
  <1>. QED
    BY <1>1, <1>2, <1>3, <1>4 DEF Calm

LEMMA ReturnCalm == ASSUME NEW r \in Runs, Inv, Return(r) PROVE Calm
  <1>1. CalmRuns
    BY RunsSame DEF Return
  <1>2. CalmWorkers
    BY WorkerEnds, Names DEF Return, Alive
  <1>3. CalmThreads
    BY ThreadsSame DEF Return
  <1>4. RestOK'
    BY RestSame DEF Return
  <1>. QED
    BY <1>1, <1>2, <1>3, <1>4 DEF Calm

LEMMA ReadOutcomeCalm == ASSUME NEW r \in Runs, Inv, ReadOutcome(r) PROVE Calm
  <1>1. CalmRuns
    <2>. DEFINE rec == [run[r] EXCEPT !.pending = None]
    <2>1. rec \in RunRecord /\ rec.request = run[r].request /\ rec.state = run[r].state /\ rec.pending = None
      BY RecordFields, Names DEF RunRecord
    <2>2. run' = [run EXCEPT ![r] = rec]
      BY DEF ReadOutcome
    <2>. HIDE DEF rec
    <2>. QED
      BY <2>1, <2>2, RunCalm
  <1>2. CalmWorkers
    <2>1. worker[r].result \in Outcomes
      BY DEF Inv, WorkersMatchStates, ReadOutcome, Reporting
    <2>. QED
      BY <2>1, WorkerEnds, Names DEF ReadOutcome, Alive
  <1>3. CalmThreads
    BY ThreadsSame DEF ReadOutcome
  <1>4. RestOK'
    BY RestSame DEF ReadOutcome
  <1>. QED
    BY <1>1, <1>2, <1>3, <1>4 DEF Calm

LEMMA AnnounceCalm == ASSUME NEW r \in Runs, Inv, Announce(r) PROVE Calm
  <1>1. CalmRuns
    BY RunsSame DEF Announce
  <1>2. CalmWorkers
    BY WorkerWorks, Places DEF Announce, Alive, Over, Reporting
  <1>3. CalmThreads
    BY ThreadsSame DEF Announce
  <1>4. RestOK'
    <2>1. run[r].state \in Outcomes
      BY DEF Inv, WorkersMatchStates, Announce, Over, Terminal
    <2>. QED
      BY <2>1 DEF Inv, TypeOK, RestOK, Announce, Push
  <1>. QED
    BY <1>1, <1>2, <1>3, <1>4 DEF Calm

LEMMA RecordCompletedCalm == ASSUME NEW r \in Runs, Inv, RecordCompleted(r) PROVE Calm
  <1>1. CalmRuns
    BY RunsSame DEF RecordCompleted
  <1>2. CalmWorkers
    BY WorkerWorks, Places DEF RecordCompleted, Alive, Over, Reporting
  <1>3. CalmThreads
    BY ThreadsSame DEF RecordCompleted
  <1>4. RestOK'
    BY DEF Inv, TypeOK, RestOK, RecordCompleted
  <1>. QED
    BY <1>1, <1>2, <1>3, <1>4 DEF Calm

LEMMA ReleaseCalm == ASSUME NEW r \in Runs, Inv, Release(r) PROVE Calm
  <1>1. CalmRuns
    <2>. DEFINE b == FALSE  rec == [run[r] EXCEPT !.locked = b]
    <2>1. b \in BOOLEAN /\ run' = [run EXCEPT ![r] = rec]
      BY DEF Release
    <2>. HIDE DEF b
    <2>2. rec \in RunRecord
      BY <2>1, Flags
    <2>3. rec.request = run[r].request /\ rec.state = run[r].state /\ rec.pending = run[r].pending
      BY RecordFields DEF RunRecord
    <2>. HIDE DEF rec
    <2>. QED
      BY <2>1, <2>2, <2>3, RunCalm
  <1>2. CalmWorkers
    BY WorkerWorks, Places DEF Release, Alive, Over, Reporting
  <1>3. CalmThreads
    BY ThreadsSame DEF Release
  <1>4. RestOK'
    BY RestSame DEF Release
  <1>. QED
    BY <1>1, <1>2, <1>3, <1>4 DEF Calm

LEMMA ExpireCalm == ASSUME NEW r \in Runs, Inv, Expire(r) PROVE Calm
  <1>1. CalmRuns
    <2>. DEFINE b == TRUE  rec == [run[r] EXCEPT !.expired = b]
    <2>1. b \in BOOLEAN /\ run' = [run EXCEPT ![r] = rec]
      BY DEF Expire
    <2>. HIDE DEF b
    <2>2. rec \in RunRecord
      BY <2>1, Flags
    <2>3. rec.request = run[r].request /\ rec.state = run[r].state /\ rec.pending = run[r].pending
      BY RecordFields DEF RunRecord
    <2>. HIDE DEF rec
    <2>. QED
      BY <2>1, <2>2, <2>3, RunCalm
  <1>2. CalmWorkers
    BY WorkersSame DEF Expire
  <1>3. CalmThreads
    BY ThreadsSame DEF Expire
  <1>4. RestOK'
    BY RestSame DEF Expire
  <1>. QED
    BY <1>1, <1>2, <1>3, <1>4 DEF Calm

LEMMA MarkRunningCalm == ASSUME NEW r \in Runs, Inv, MarkRunning(r) PROVE Calm
  <1>1. CalmRuns
    <2>1. r \in Active
      BY DEF Inv, WorkersMatchStates, MarkRunning, Alive
    <2>2. CASE run' = run
      BY <2>2, RunsSame
    <2>3. CASE run' = [run EXCEPT ![r].state = IF @ = "starting" THEN "running" ELSE @]
      <3>. DEFINE x == IF run[r].state = "starting" THEN "running" ELSE run[r].state
                  rec == [run[r] EXCEPT !.state = x]
      <3>1. x \in States \ Outcomes
        BY <2>1, Names, RecordFields DEF Active, Accepted, Terminal, RunRecord
      <3>2. run' = [run EXCEPT ![r] = rec]
        BY <2>3
      <3>. HIDE DEF x
      <3>3. rec \in RunRecord /\ rec.request = run[r].request /\ rec.state = x /\ rec.pending = run[r].pending
        BY <3>1, RecordFields DEF RunRecord
      <3>. HIDE DEF rec
      <3>. QED
        BY <2>1, <3>1, <3>2, <3>3, RunCalm
    <2>. QED
      BY <2>2, <2>3 DEF MarkRunning
  <1>2. CalmWorkers
    BY WorkerWorks, WorkerEnds, Names, Places DEF MarkRunning, Alive, Reporting
  <1>3. CalmThreads
    BY ThreadsSame DEF MarkRunning
  <1>4. RestOK'
    BY RestSame DEF MarkRunning
  <1>. QED
    BY <1>1, <1>2, <1>3, <1>4 DEF Calm

LEMMA AskCalm == ASSUME NEW r \in Runs, Inv, Ask(r) PROVE Calm
  <1>1. CalmRuns
    <2>1. r \in Active
      BY DEF Inv, WorkersMatchStates, Ask, Alive
    <2>2. worker'[r].at # "none"
      BY DEF Inv, TypeOK, Ask, Works, Ends, Worker
    <2>3. run \in [Runs -> RunRecord]
      BY DEF Inv, TypeOK
    <2>. QED
      BY <2>1, <2>2, <2>3, Names, RequestsAssumption DEF CalmRuns, Ask, RunRecord, Asked
  <1>2. CalmWorkers
    BY WorkerWorks, WorkerEnds, Names, Places DEF Ask, Alive, Reporting
  <1>3. CalmThreads
    BY ThreadsSame DEF Ask
  <1>4. RestOK'
    BY RestSame DEF Ask
  <1>. QED
    BY <1>1, <1>2, <1>3, <1>4 DEF Calm

-----------------------------------------------------------------------------
(* Callers.                                                                 *)

LEMMA PersistCalm == ASSUME NEW t \in Callers, Inv, Persist(t) PROVE Calm
  <1>1. CalmRuns
    BY RunsSame DEF Persist
  <1>2. CalmWorkers
    BY WorkersSame DEF Persist
  <1>3. CalmThreads
    <2>1. Goes(t, "spawning") /\ "spawning" \in CallAt /\ thread[t].at = "persisting" /\ t \in Threads
      BY DEF Persist, At, Idle, CallAt, Threads
    <2>. QED
      BY <2>1, ThreadGoes DEF CalmThreads
  <1>4. RestOK'
    BY DEF Inv, TypeOK, RestOK, Persist
  <1>. QED
    BY <1>1, <1>2, <1>3, <1>4 DEF Calm

LEMMA StoreHandleCalm == ASSUME NEW t \in Callers, Inv, StoreHandle(t) PROVE Calm
  <1>1. CalmRuns
    <2>. DEFINE r == thread[t].run
    <2>. DEFINE b == TRUE  rec == [run[r] EXCEPT !.handle = b]
    <2>0. r \in Runs
      BY DEF Inv, StartsMatchStates, StoreHandle, At, Threads
    <2>1. b \in BOOLEAN /\ run' = [run EXCEPT ![r] = rec]
      BY DEF StoreHandle
    <2>. HIDE DEF b, r
    <2>2. rec \in RunRecord
      BY <2>0, <2>1, Flags
    <2>3. rec.request = run[r].request /\ rec.state = run[r].state /\ rec.pending = run[r].pending
      BY <2>0, RecordFields DEF RunRecord
    <2>. HIDE DEF rec
    <2>. QED
      BY <2>0, <2>1, <2>2, <2>3, RunCalm
  <1>2. CalmWorkers
    BY WorkersSame DEF StoreHandle
  <1>3. CalmThreads
    BY ThreadReturns DEF StoreHandle, Threads
  <1>4. RestOK'
    BY RestSame DEF StoreHandle
  <1>. QED
    BY <1>1, <1>2, <1>3, <1>4 DEF Calm

LEMMA AnswerReadsCalm == ASSUME NEW t \in Callers, NEW r \in Runs, Inv, AnswerReads(t, r) PROVE Calm
  <1>1. CalmRuns
    BY RunsSame DEF AnswerReads
  <1>2. CalmWorkers
    BY WorkersSame DEF AnswerReads
  <1>3. CalmThreads
    <2>. DEFINE call == [at |-> "answering", run |-> r, id |-> run[r].pending.id]
    <2>1. worker[r].at # "none"
      BY DEF Inv, WorkersMatchStates, AnswerReads
    <2>2. call \in Call
      BY RecordFields DEF AnswerReads, Call, CallAt, RunRecord, Asked
    <2>3. thread' = [thread EXCEPT ![t] = call] /\ t \in Threads
      BY DEF AnswerReads, Threads
    <2>4. call.at = "answering" /\ call.run = r
      OBVIOUS
    <2>. HIDE DEF call
    <2>. QED
      BY <2>1, <2>2, <2>3, <2>4, ThreadCalls DEF CalmThreads
  <1>4. RestOK'
    BY RestSame DEF AnswerReads
  <1>. QED
    BY <1>1, <1>2, <1>3, <1>4 DEF Calm

LEMMA AnswerLocksCalm == ASSUME NEW t \in Callers, Inv, AnswerLocks(t) PROVE Calm
  <1>1. CalmRuns
    BY RunsSame DEF AnswerLocks
  <1>2. CalmWorkers
    BY WorkersSame DEF AnswerLocks
  <1>3. CalmThreads
    <2>0. t \in Threads /\ thread[t].at = "answering"
      BY DEF AnswerLocks, At, Threads
    <2>1. CASE Returns(t)
      BY <2>0, <2>1, ThreadReturns
    <2>2. CASE Goes(t, "locked") /\ ~Terminal(thread[t].run)
      <3>1. "locked" \in CallAt
        BY DEF CallAt
      <3>. QED
        BY <2>0, <2>2, <3>1, ThreadGoes DEF CalmThreads
    <2>. QED
      BY <2>1, <2>2 DEF AnswerLocks
  <1>4. RestOK'
    BY RestSame DEF AnswerLocks
  <1>. QED
    BY <1>1, <1>2, <1>3, <1>4 DEF Calm

LEMMA AnswerMatchesCalm == ASSUME NEW t \in Callers, Inv, AnswerMatches(t) PROVE Calm
  <1>1. CalmRuns
    BY RunsSame DEF AnswerMatches
  <1>2. CalmWorkers
    BY WorkersSame DEF AnswerMatches
  <1>3. CalmThreads
    <2>0. t \in Threads /\ thread[t].at = "locked"
      BY DEF AnswerMatches, At, Threads
    <2>1. CASE Returns(t)
      BY <2>0, <2>1, ThreadReturns
    <2>2. CASE Goes(t, "matched")
      <3>1. "matched" \in CallAt
        BY DEF CallAt
      <3>. QED
        BY <2>0, <2>2, <3>1, ThreadGoes DEF CalmThreads
    <2>. QED
      BY <2>1, <2>2 DEF AnswerMatches
  <1>4. RestOK'
    BY RestSame DEF AnswerMatches
  <1>. QED
    BY <1>1, <1>2, <1>3, <1>4 DEF Calm

LEMMA AnswerDeliversCalm == ASSUME NEW t \in Callers, Inv, AnswerDelivers(t) PROVE Calm
  <1>1. CalmRuns
    <2>. DEFINE r == thread[t].run
                rec == [run[r] EXCEPT !.pending = None, !.response = thread[t].id, !.state = "running"]
    <2>1. r \in Runs /\ worker[r].at # "none" /\ ~Terminal(r) /\ thread[t].id \in Nat
      BY DEF Inv, TypeOK, Call, StartsMatchStates, AnswersMatchStates, AnswerDelivers, At, Threads
    <2>2. run' = [run EXCEPT ![r] = rec]
      BY DEF AnswerDelivers
    <2>. HIDE DEF r
    <2>3. r \in Active
      BY <2>1, Staffed
    <2>4. rec \in RunRecord /\ rec.request = run[r].request /\ rec.state = "running" /\ rec.pending = None
      BY <2>1, RecordFields, Names DEF RunRecord
    <2>. HIDE DEF rec
    <2>. QED
      BY <2>1, <2>2, <2>3, <2>4, Names, RunCalm
  <1>2. CalmWorkers
    BY WorkersSame DEF AnswerDelivers
  <1>3. CalmThreads
    BY ThreadReturns DEF AnswerDelivers, Threads
  <1>4. RestOK'
    BY RestSame DEF AnswerDelivers
  <1>. QED
    BY <1>1, <1>2, <1>3, <1>4 DEF Calm

LEMMA CancelMarksCalm == ASSUME NEW t \in Threads, NEW r \in Runs, Inv, CancelMarks(t, r) PROVE Calm
  <1>1. CalmRuns
    <2>1. r \in Active
      BY DEF CancelMarks
    <2>. DEFINE rec == [run[r] EXCEPT !.state = "cancelling"]
    <2>2. run' = [run EXCEPT ![r] = rec]
      BY DEF CancelMarks
    <2>3. rec \in RunRecord /\ rec.request = run[r].request /\ rec.state = "cancelling" /\ rec.pending = run[r].pending
      BY RecordFields, Names DEF RunRecord
    <2>. HIDE DEF rec
    <2>. QED
      BY <2>1, <2>2, <2>3, Names, RunCalm
  <1>2. CalmWorkers
    BY WorkersSame DEF CancelMarks
  <1>3. CalmThreads
    <2>. DEFINE call == [at |-> "clearing", run |-> r, id |-> 0]
    <2>1. call \in Call /\ call.at = "clearing" /\ call.run = r
      BY DEF Call, CallAt
    <2>2. thread' = [thread EXCEPT ![t] = call]
      BY DEF CancelMarks
    <2>. HIDE DEF call
    <2>. QED
      BY <2>1, <2>2, ThreadCalls DEF CalmThreads
  <1>4. RestOK'
    BY RestSame DEF CancelMarks
  <1>. QED
    BY <1>1, <1>2, <1>3, <1>4 DEF Calm

LEMMA CancelTellsCalm == ASSUME NEW t \in Threads, Inv, CancelTells(t) PROVE Calm
  <1>1. CalmRuns
    <2>. DEFINE r == thread[t].run  b == TRUE
                rec == [run[r] EXCEPT !.pending = None, !.cancelled = b]
    <2>1. r \in Runs
      BY DEF Inv, StartsMatchStates, CancelTells, At
    <2>2. b \in BOOLEAN /\ run' = [run EXCEPT ![r] = rec]
      BY DEF CancelTells
    <2>. HIDE DEF r, b
    <2>3. rec \in RunRecord
      BY <2>1, <2>2, RecordFields DEF RunRecord
    <2>4. rec.request = run[r].request /\ rec.state = run[r].state /\ rec.pending = None
      BY <2>1, RecordFields DEF RunRecord
    <2>. HIDE DEF rec
    <2>. QED
      BY <2>1, <2>2, <2>3, <2>4, RunCalm
  <1>2. CalmWorkers
    BY WorkersSame DEF CancelTells
  <1>3. CalmThreads
    BY ThreadReturns DEF CancelTells
  <1>4. RestOK'
    BY RestSame DEF CancelTells
  <1>. QED
    BY <1>1, <1>2, <1>3, <1>4 DEF Calm

-----------------------------------------------------------------------------
(* The approval channel.                                                    *)

LEMMA ApproveReadsCalm == ASSUME NEW r \in Runs, Inv, ApproveReads(r) PROVE Calm
  <1>1. CalmRuns
    BY RunsSame DEF ApproveReads
  <1>2. CalmWorkers
    BY WorkersSame DEF ApproveReads
  <1>3. CalmThreads
    <2>. DEFINE call == [at |-> "approving", run |-> r, id |-> run[r].pending.id]
    <2>1. worker[r].at # "none"
      BY DEF Inv, WorkersMatchStates, ApproveReads
    <2>2. call \in Call
      BY RecordFields DEF ApproveReads, Call, CallAt, RunRecord, Asked
    <2>3. thread' = [thread EXCEPT ![Approver] = call] /\ Approver \in Threads
      BY DEF ApproveReads, Threads
    <2>4. call.at = "approving" /\ call.run = r
      OBVIOUS
    <2>. HIDE DEF call
    <2>. QED
      BY <2>1, <2>2, <2>3, <2>4, ThreadCalls DEF CalmThreads
  <1>4. RestOK'
    BY RestSame DEF ApproveReads
  <1>. QED
    BY <1>1, <1>2, <1>3, <1>4 DEF Calm

LEMMA ApproveClearsCalm == ASSUME Inv, ApproveClears PROVE Calm
  <1>1. CalmRuns
    <2>. DEFINE r == thread[Approver].run
                rec == [run[r] EXCEPT !.pending = None]
    <2>1. r \in Runs /\ worker[r].at # "none" /\ thread[Approver].id \in Nat
      BY DEF Inv, TypeOK, Call, StartsMatchStates, AnswersMatchStates, ApproveClears, At, Threads
    <2>2. run' = [run EXCEPT ![r] = rec]
      BY DEF ApproveClears
    <2>. HIDE DEF r
    <2>3. rec \in RunRecord /\ rec.request = run[r].request /\ rec.state = run[r].state /\ rec.pending = None
      BY <2>1, RecordFields, Names DEF RunRecord
    <2>. HIDE DEF rec
    <2>. QED
      BY <2>1, <2>2, <2>3, RunCalm
  <1>2. CalmWorkers
    BY WorkersSame DEF ApproveClears
  <1>3. CalmThreads
    <2>1. Goes(Approver, "approved") /\ "approved" \in CallAt /\ thread[Approver].at = "approving" /\ Approver \in Threads
      BY DEF ApproveClears, At, Idle, CallAt, Threads
    <2>. QED
      BY <2>1, ThreadGoes DEF CalmThreads
  <1>4. RestOK'
    BY RestSame DEF ApproveClears
  <1>. QED
    BY <1>1, <1>2, <1>3, <1>4 DEF Calm

LEMMA ApproveDeliversCalm == ASSUME Inv, ApproveDelivers PROVE Calm
  <1>1. CalmRuns
    <2>. DEFINE r == thread[Approver].run
                rec == [run[r] EXCEPT !.response = thread[Approver].id]
    <2>1. r \in Runs /\ worker[r].at # "none" /\ thread[Approver].id \in Nat
      BY DEF Inv, TypeOK, Call, StartsMatchStates, AnswersMatchStates, ApproveDelivers, At, Threads
    <2>2. run' = [run EXCEPT ![r] = rec]
      BY DEF ApproveDelivers
    <2>. HIDE DEF r
    <2>3. rec \in RunRecord /\ rec.request = run[r].request /\ rec.state = run[r].state /\ rec.pending = run[r].pending
      BY <2>1, RecordFields, Names DEF RunRecord
    <2>. HIDE DEF rec
    <2>. QED
      BY <2>1, <2>2, <2>3, RunCalm
  <1>2. CalmWorkers
    BY WorkersSame DEF ApproveDelivers
  <1>3. CalmThreads
    <2>1. Goes(Approver, "resuming") /\ "resuming" \in CallAt /\ thread[Approver].at = "approved" /\ Approver \in Threads
      BY DEF ApproveDelivers, At, Idle, CallAt, Threads
    <2>. QED
      BY <2>1, ThreadGoes DEF CalmThreads
  <1>4. RestOK'
    BY RestSame DEF ApproveDelivers
  <1>. QED
    BY <1>1, <1>2, <1>3, <1>4 DEF Calm

LEMMA ApproveResumesCalm == ASSUME Inv, ApproveResumes PROVE Calm
  <1>1. CalmRuns
    <2>. DEFINE r == thread[Approver].run
                x == IF run[r].state \in Outcomes THEN run[r].state ELSE "running"
                rec == [run[r] EXCEPT !.state = x]
    <2>1. r \in Runs /\ worker[r].at # "none"
      BY DEF Inv, StartsMatchStates, AnswersMatchStates, ApproveResumes, At, Threads
    <2>2. run' = [run EXCEPT ![r] = rec]
      BY DEF ApproveResumes
    <2>. HIDE DEF r
    <2>3. x = run[r].state \/ (r \in Active /\ x \in States \ Outcomes)
      BY <2>1, Staffed, Names DEF Terminal
    <2>4. x \in States
      BY <2>1, Names
    <2>. HIDE DEF x
    <2>5. rec \in RunRecord /\ rec.request = run[r].request /\ rec.state = x /\ rec.pending = run[r].pending
      BY <2>1, <2>4, RecordFields DEF RunRecord
    <2>. HIDE DEF rec
    <2>. QED
      BY <2>1, <2>2, <2>3, <2>5, RunCalm
  <1>2. CalmWorkers
    BY WorkersSame DEF ApproveResumes
  <1>3. CalmThreads
    BY ThreadReturns DEF ApproveResumes, Threads
  <1>4. RestOK'
    BY RestSame DEF ApproveResumes
  <1>. QED
    BY <1>1, <1>2, <1>3, <1>4 DEF Calm

-----------------------------------------------------------------------------
(* shutdown_inner, and the store of another process.                        *)

LEMMA ShutdownFlagsCalm == ASSUME Inv, ShutdownFlags PROVE Calm
  <1>1. CalmRuns
    BY RunsSame DEF ShutdownFlags
  <1>2. CalmWorkers
    BY WorkersSame DEF ShutdownFlags
  <1>3. CalmThreads
    BY ThreadsSame DEF ShutdownFlags
  <1>4. RestOK'
    BY DEF Inv, TypeOK, RestOK, Closer, Accepted, StartsMatchStates, Starting, Threads, ShutdownFlags
  <1>. QED
    BY <1>1, <1>2, <1>3, <1>4 DEF Calm

LEMMA ShutdownCollectsCalm == ASSUME Inv, ShutdownCollects PROVE Calm
  <1>1. CalmRuns
    BY RunsSame DEF ShutdownCollects
  <1>2. CalmWorkers
    BY WorkersSame DEF ShutdownCollects
  <1>3. CalmThreads
    BY ThreadsSame DEF ShutdownCollects
  <1>4. RestOK'
    BY DEF Inv, TypeOK, RestOK, Closer, Accepted, StartsMatchStates, Starting, Threads, ShutdownCollects
  <1>. QED
    BY <1>1, <1>2, <1>3, <1>4 DEF Calm

LEMMA ShutdownJoinsCalm == ASSUME Inv, ShutdownJoins PROVE Calm
  <1>1. CalmRuns
    BY RunsSame DEF ShutdownJoins
  <1>2. CalmWorkers
    BY WorkersSame DEF ShutdownJoins
  <1>3. CalmThreads
    BY ThreadsSame DEF ShutdownJoins
  <1>4. RestOK'
    BY DEF Inv, TypeOK, RestOK, Closer, Accepted, StartsMatchStates, Starting, Threads, ShutdownJoins
  <1>. QED
    BY <1>1, <1>2, <1>3, <1>4 DEF Calm

LEMMA ShutdownReturnsCalm == ASSUME Inv, ShutdownReturns PROVE Calm
  <1>1. CalmRuns
    BY RunsSame DEF ShutdownReturns
  <1>2. CalmWorkers
    BY WorkersSame DEF ShutdownReturns
  <1>3. CalmThreads
    BY ThreadsSame DEF ShutdownReturns
  <1>4. RestOK'
    BY DEF Inv, TypeOK, RestOK, Closer, Accepted, StartsMatchStates, Starting, Threads, ShutdownReturns
  <1>. QED
    BY <1>1, <1>2, <1>3, <1>4 DEF Calm

LEMMA ShutdownReapsCalm == ASSUME NEW r \in Runs, Inv, ShutdownReaps(r) PROVE Calm
  <1>1. CalmRuns
    BY RunsSame DEF ShutdownReaps
  <1>2. CalmWorkers
    BY WorkersSame DEF ShutdownReaps
  <1>3. CalmThreads
    BY ThreadsSame DEF ShutdownReaps
  <1>4. RestOK'
    BY DEF Inv, TypeOK, RestOK, Closer, ShutdownReaps
  <1>. QED
    BY <1>1, <1>2, <1>3, <1>4 DEF Calm

LEMMA ShutdownSignalsCalm == ASSUME NEW r \in Runs, Inv, ShutdownSignals(r) PROVE Calm
  <1>1. CalmRuns
    <2>1. CASE run' = run
      BY <2>1, RunsSame
    <2>2. CASE /\ ~Terminal(r) /\ run[r].state # None
               /\ run' = [run EXCEPT ![r] = [@ EXCEPT !.state = "cancelling", !.cancelled = TRUE]]
      <3>1. r \in Active
        BY <2>2 DEF Active, Accepted
      <3>. DEFINE b == TRUE  rec == [run[r] EXCEPT !.state = "cancelling", !.cancelled = b]
      <3>2. b \in BOOLEAN /\ run' = [run EXCEPT ![r] = rec]
        BY <2>2
      <3>. HIDE DEF b
      <3>3. rec \in RunRecord
        BY <3>2, RecordFields, Names DEF RunRecord
      <3>4. rec.request = run[r].request /\ rec.state = "cancelling" /\ rec.pending = run[r].pending
        BY RecordFields DEF RunRecord
      <3>. HIDE DEF rec
      <3>. QED
        BY <3>1, <3>2, <3>3, <3>4, Names, RunCalm
    <2>. QED
      BY <2>1, <2>2 DEF ShutdownSignals
  <1>2. CalmWorkers
    BY WorkersSame DEF ShutdownSignals
  <1>3. CalmThreads
    BY ThreadsSame DEF ShutdownSignals
  <1>4. RestOK'
    BY DEF Inv, TypeOK, RestOK, Closer, ShutdownSignals
  <1>. QED
    BY <1>1, <1>2, <1>3, <1>4 DEF Calm

LEMMA ReconcileCalm == ASSUME NEW r \in Runs, Inv, Reconcile(r) PROVE Calm
  <1>1. CalmRuns
    BY RunsSame DEF Reconcile
  <1>2. CalmWorkers
    BY WorkersSame DEF Reconcile
  <1>3. CalmThreads
    BY ThreadsSame DEF Reconcile
  <1>4. RestOK'
    BY DEF Inv, TypeOK, RestOK, Reconcile
  <1>. QED
    BY <1>1, <1>2, <1>3, <1>4 DEF Calm

LEMMA ReconcileEventCalm == ASSUME NEW r \in Runs, Inv, ReconcileEvent(r) PROVE Calm
  <1>1. CalmRuns
    BY RunsSame DEF ReconcileEvent
  <1>2. CalmWorkers
    BY WorkersSame DEF ReconcileEvent
  <1>3. CalmThreads
    BY ThreadsSame DEF ReconcileEvent
  <1>4. RestOK'
    BY Names DEF Inv, TypeOK, RestOK, ReconcileEvent, Push
  <1>. QED
    BY <1>1, <1>2, <1>3, <1>4 DEF Calm

-----------------------------------------------------------------------------
(* The other steps.                                                         *)

LEMMA InitInv == Init => Inv
  <1>. SUFFICES ASSUME Init PROVE Inv
    OBVIOUS
  <1>1. NoRun \in RunRecord /\ NoRun.state = None /\ NoRun.pending = None
    BY DEF NoRun, RunRecord
  <1>2. NoWorker \in Worker /\ NoWorker.at = "none"
    BY DEF NoWorker, Worker, WorkerAt
  <1>3. NoCall \in Call /\ NoCall.at = "idle"
    BY DEF NoCall, Call, CallAt
  <1>4. NoCloser \in Closer
    BY DEF NoCloser, Closer
  <1>5. TypeOK
    <2>1. events \in [Runs -> Seq(Outcomes)]
      <3>1. << >> \in Seq(Outcomes)
        OBVIOUS
      <3>. QED
        BY <3>1 DEF Init
    <2>2. up \in BOOLEAN /\ shutdown \in BOOLEAN
      BY DEF Init
    <2>3. row \in [Runs -> {"none", "active", "ended", "orphaned"}] /\ missed \subseteq Runs
      BY DEF Init
    <2>. QED
      BY <1>1, <1>2, <1>3, <1>4, <2>1, <2>2, <2>3 DEF Init, TypeOK
  <1>6. WorkersMatchStates
    BY <1>1, <1>2, Places, Names DEF Init, WorkersMatchStates, Terminal
  <1>7. StartsMatchStates
    BY <1>3, StartingPlaces DEF Init, StartsMatchStates
  <1>8. AnswersMatchStates
    BY <1>3 DEF Init, AnswersMatchStates
  <1>. QED
    BY <1>5, <1>6, <1>7, <1>8 DEF Inv

LEMMA OwnerDiesInv == Inv /\ OwnerDies => Inv'
  <1>. SUFFICES ASSUME Inv, OwnerDies PROVE Inv'
    OBVIOUS
  <1>1. NoRun \in RunRecord /\ NoRun.state = None /\ NoRun.pending = None
    BY DEF NoRun, RunRecord
  <1>2. NoWorker \in Worker /\ NoWorker.at = "none"
    BY DEF NoWorker, Worker, WorkerAt
  <1>3. NoCall \in Call /\ NoCall.at = "idle"
    BY DEF NoCall, Call, CallAt
  <1>4. NoCloser \in Closer
    BY DEF NoCloser, Closer
  <1>5. TypeOK'
    BY <1>1, <1>2, <1>3, <1>4 DEF Inv, OwnerDies, TypeOK
  <1>6. WorkersMatchStates'
    BY <1>1, <1>2, Places, Names DEF OwnerDies, WorkersMatchStates, Terminal
  <1>7. StartsMatchStates'
    BY <1>3, StartingPlaces DEF OwnerDies, StartsMatchStates
  <1>8. AnswersMatchStates'
    BY <1>3 DEF OwnerDies, AnswersMatchStates
  <1>. QED
    BY <1>5, <1>6, <1>7, <1>8 DEF Inv

(* A step of the thread that starts run r, which no other thread starts or  *)
(* answers, keeps the invariant when it keeps it for r and for the thread.  *)
LEMMA StartStep ==
    ASSUME Inv, TypeOK', NEW t \in Threads, NEW r \in Runs, worker[r].at = "none",
           \A s \in Runs \ {r} : run'[s] = run[s] /\ worker'[s] = worker[s],
           \A u \in Threads \ {t} : thread'[u] = thread[u],
           \A u \in Threads \ {t} : ~(thread[u].at \in Starting /\ thread[u].run = r),
           worker'[r].at \in {"none", "born"},
           worker'[r].at = "born" => run'[r].state \in States \ Outcomes,
           worker'[r].at = "none" => run'[r].state \notin Outcomes /\ run'[r].pending = None,
           \/ thread'[t].at = "idle"
           \/ /\ thread'[t].at \in Starting /\ thread'[t].run = r
              /\ run'[r].request # NoRequest
              /\ thread'[t].at = "admitting" => run'[r].state = None
              /\ thread'[t].at \in {"persisting", "spawning"} => run'[r].state # None
              /\ thread'[t].at # "storing" => worker'[r].at = "none"
    PROVE  Inv'
  <1>1. WorkersMatchStates'
    <2>1. \A s \in Runs \ {r} : /\ s \in Active => s \in Active'
                                /\ Terminal(s) <=> Terminal(s)'
      BY DEF Active, Accepted, Terminal
    <2>2. run'[r].state \in States \ Outcomes => r \in Active'
      BY Names DEF Active, Accepted, Terminal
    <2>3. "born" \in Alive /\ "born" \notin Over /\ "born" \notin Reporting
      BY DEF Alive, Over, Reporting
    <2>. SUFFICES ASSUME NEW s \in Runs
                  PROVE  /\ worker'[s].at \in Alive => (s \in Active)'
                         /\ worker'[s].at \in Over => Terminal(s)'
                         /\ worker'[s].at = "none" => ~Terminal(s)' /\ run'[s].pending = None
                         /\ worker'[s].at \in Reporting => worker'[s].result \in Outcomes
      BY DEF WorkersMatchStates
    <2>4. CASE s = r
      BY <2>2, <2>3, <2>4, Places DEF Terminal
    <2>5. CASE s # r
      BY <2>1, <2>5 DEF Inv, WorkersMatchStates
    <2>. QED
      BY <2>4, <2>5
  <1>2. \A u \in Threads \ {t} : thread[u].run = r => thread[u].at \notin Starting
    OBVIOUS
  <1>3. StartsMatchStates'
    <2>1. \A u \in Threads : thread'[u].at # "idle" => thread'[u].run \in Runs
      BY DEF Inv, StartsMatchStates
    <2>2. \A u \in Threads : thread'[u].at \in Starting => thread'[u].at # "idle"
      BY StartingPlaces
    <2>3. \A u, v \in Threads : thread'[u].at \in Starting /\ thread'[v].at \in Starting
                                  /\ thread'[u].run = thread'[v].run => u = v
      BY <1>2, <2>2 DEF Inv, StartsMatchStates
    <2>4. ASSUME NEW u \in Threads, thread'[u].at \in Starting
          PROVE  /\ run'[thread'[u].run].request # NoRequest
                 /\ thread'[u].at = "admitting" => run'[thread'[u].run].state = None
                 /\ thread'[u].at \in {"persisting", "spawning"} =>
                        run'[thread'[u].run].state # None
                 /\ thread'[u].at \in {"admitting", "persisting", "spawning"} =>
                        worker'[thread'[u].run].at = "none"
      <3>1. CASE u = t
        BY <2>2, <2>4, <3>1
      <3>2. CASE u # t
        <4>1. thread'[u] = thread[u] /\ thread[u].run # r /\ thread[u].run \in Runs
          BY <1>2, <2>1, <2>2, <2>4, <3>2
        <4>. QED
          BY <2>4, <4>1 DEF Inv, StartsMatchStates
      <3>. QED
        BY <3>1, <3>2
    <2>. QED
      BY <2>1, <2>3, <2>4, StartingPlaces DEF StartsMatchStates
  <1>4. AnswersMatchStates'
    <2>. SUFFICES ASSUME NEW u \in Threads
                  PROVE  /\ thread'[u].at \in {"answering", "locked", "matched", "approving",
                                              "approved", "resuming"}
                                => worker'[thread'[u].run].at # "none"
                         /\ thread'[u].at \in {"locked", "matched"} => ~Terminal(thread[u].run)'
                                /\ thread'[u].run = thread[u].run
      BY DEF AnswersMatchStates
    <2>1. CASE u = t
      BY <2>1, StartingPlaces
    <2>2. CASE u # t
      <3>1. thread'[u] = thread[u]
        BY <2>2
      <3>2. thread[u].at # "idle" => thread[u].run \in Runs
        BY DEF Inv, StartsMatchStates
      <3>. QED
        BY <3>1, <3>2 DEF Inv, AnswersMatchStates, Terminal
    <2>. QED
      BY <2>1, <2>2
  <1>. QED
    BY <1>1, <1>3, <1>4 DEF Inv

(* A run in no state has no worker.                                         *)
LEMMA Workless == ASSUME Inv, NEW r \in Runs, run[r].state = None PROVE worker[r].at = "none"
  BY Staffed

LEMMA AcquireInv ==
    ASSUME NEW t \in Callers, NEW r \in Runs, NEW q \in Requests, Inv, Acquire(t, r, q)
    PROVE  Inv'
  <1>. DEFINE b == q.dir # None  rec == [run[r] EXCEPT !.request = q, !.locked = b]
              call == [at |-> "admitting", run |-> r, id |-> 0]
  <1>1. run[r] = NoRun /\ run[r].state = None /\ run[r].pending = None /\ run[r].request = NoRequest
    BY DEF Acquire, Fresh, Used, NoRun
  <1>2. worker[r].at = "none"
    BY <1>1, Workless
  <1>3. b \in BOOLEAN /\ run' = [run EXCEPT ![r] = rec]
    BY DEF Acquire
  <1>4. q # NoRequest
    <2>1. q.asks # None
      BY RequestsAssumption, NoneAssumption
    <2>. QED
      BY <2>1 DEF NoRequest
  <1>5. call \in Call /\ call.at = "admitting" /\ call.run = r
    BY DEF Call, CallAt
  <1>6. thread' = [thread EXCEPT ![t] = call] /\ t \in Threads
    BY DEF Acquire, Threads
  <1>. HIDE DEF b, call
  <1>7. rec \in RunRecord
    BY <1>3, RecordFields DEF RunRecord
  <1>8. rec.state = None /\ rec.pending = None /\ rec.request = q
    BY <1>1, RecordFields DEF RunRecord
  <1>. HIDE DEF rec
  <1>9. run \in [Runs -> RunRecord] /\ thread \in [Threads -> Call]
    BY DEF Inv, TypeOK
  <1>10. TypeOK'
    <2>1. run' \in [Runs -> RunRecord] /\ thread' \in [Threads -> Call]
      BY <1>3, <1>5, <1>6, <1>7, <1>9
    <2>. QED
      BY <2>1 DEF Inv, TypeOK, Acquire
  <1>11. \A s \in Runs \ {r} : run'[s] = run[s] /\ worker'[s] = worker[s]
    BY <1>3, <1>9 DEF Acquire
  <1>12. \A u \in Threads \ {t} : thread'[u] = thread[u]
    BY <1>6, <1>9
  <1>13. \A u \in Threads \ {t} : ~(thread[u].at \in Starting /\ thread[u].run = r)
    BY <1>1 DEF Inv, StartsMatchStates
  <1>14. run'[r] = rec /\ worker'[r] = worker[r] /\ thread'[t] = call
    BY <1>3, <1>6, <1>9 DEF Acquire
  <1>15. None \notin Outcomes
    BY Names
  <1>. QED
    BY <1>2, <1>4, <1>5, <1>6, <1>8, <1>10, <1>11, <1>12, <1>13, <1>14, <1>15, StartStep, StartingPlaces

LEMMA NoRunFields == /\ NoRun \in RunRecord /\ NoRun.state = None /\ NoRun.pending = None
                     /\ NoCall \in Call /\ NoCall.at = "idle"
  <1>1. NoRun \in RunRecord /\ NoRun.state = None /\ NoRun.pending = None
    BY DEF NoRun, RunRecord
  <1>2. NoCall \in Call /\ NoCall.at = "idle"
    BY DEF NoCall, Call, CallAt
  <1>. QED
    BY <1>1, <1>2

LEMMA AdmitInv == ASSUME NEW t \in Callers, Inv, Admit(t) PROVE Inv'
  <1>. DEFINE r == thread[t].run
  <1>1. /\ t \in Threads /\ r \in Runs /\ run[r].state = None /\ worker[r].at = "none"
        /\ run[r].request # NoRequest /\ run[r].pending = None
        /\ \A u \in Threads \ {t} : ~(thread[u].at \in Starting /\ thread[u].run = r)
    BY StartingPlaces DEF Inv, StartsMatchStates, WorkersMatchStates, Admit, At, Threads
  <1>2. run \in [Runs -> RunRecord] /\ thread \in [Threads -> Call]
    BY DEF Inv, TypeOK
  <1>3. CASE run' = [run EXCEPT ![r].state = "starting"] /\ Goes(t, "persisting")
    <2>. DEFINE rec == [run[r] EXCEPT !.state = "starting"]
    <2>1. run' = [run EXCEPT ![r] = rec]
      BY <1>3
    <2>2. /\ thread' \in [Threads -> Call]
          /\ \A u \in Threads : /\ thread'[u].run = thread[u].run
                                /\ thread'[u].at = IF u = t THEN "persisting" ELSE thread[u].at
      <3>1. "persisting" \in CallAt
        BY DEF CallAt
      <3>. QED
        BY <1>1, <1>3, <3>1, ThreadGoes
    <2>3. \A u \in Threads \ {t} : thread'[u] = thread[u]
      BY <1>2, <1>3 DEF Goes
    <2>. HIDE DEF r
    <2>4. rec \in RunRecord /\ rec.state = "starting" /\ rec.pending = None /\ rec.request = run[r].request
      BY <1>1, RecordFields, Names DEF RunRecord
    <2>. HIDE DEF rec
    <2>5. TypeOK'
      <3>1. run' \in [Runs -> RunRecord]
        BY <1>1, <1>2, <2>1, <2>4
      <3>. QED
        BY <2>2, <3>1 DEF Inv, TypeOK, Admit
    <2>6. \A s \in Runs \ {r} : run'[s] = run[s] /\ worker'[s] = worker[s]
      BY <1>2, <2>1 DEF Admit
    <2>7. run'[r] = rec /\ worker'[r] = worker[r] /\ thread'[t].at = "persisting" /\ thread'[t].run = r
      BY <1>1, <1>2, <2>1, <2>2 DEF Admit, r
    <2>. QED
      BY <1>1, <2>3, <2>4, <2>5, <2>6, <2>7, StartStep, StartingPlaces, Names
  <1>4. CASE run' = [run EXCEPT ![r] = NoRun] /\ Returns(t)
    <2>. HIDE DEF r
    <2>1. thread' = [thread EXCEPT ![t] = NoCall]
      BY <1>4 DEF Returns
    <2>2. TypeOK'
      <3>1. run' \in [Runs -> RunRecord] /\ thread' \in [Threads -> Call]
        BY <1>1, <1>2, <1>4, <2>1, NoRunFields
      <3>. QED
        BY <3>1 DEF Inv, TypeOK, Admit
    <2>3. \A s \in Runs \ {r} : run'[s] = run[s] /\ worker'[s] = worker[s]
      BY <1>2, <1>4 DEF Admit
    <2>4. \A u \in Threads \ {t} : thread'[u] = thread[u]
      BY <1>2, <2>1
    <2>5. run'[r] = NoRun /\ worker'[r] = worker[r] /\ thread'[t] = NoCall
      BY <1>1, <1>2, <1>4, <2>1 DEF Admit
    <2>. QED
      BY <1>1, <2>2, <2>3, <2>4, <2>5, NoRunFields, StartStep, Names
  <1>. QED
    BY <1>3, <1>4 DEF Admit

LEMMA SpawnInv == ASSUME NEW t \in Callers, Inv, Spawn(t) PROVE Inv'
  <1>. DEFINE r == thread[t].run
  <1>1. /\ t \in Threads /\ r \in Runs /\ run[r].state # None /\ worker[r].at = "none"
        /\ run[r].request # NoRequest /\ ~Terminal(r)
        /\ \A u \in Threads \ {t} : ~(thread[u].at \in Starting /\ thread[u].run = r)
    BY StartingPlaces DEF Inv, StartsMatchStates, WorkersMatchStates, Spawn, At, Threads
  <1>2. run \in [Runs -> RunRecord] /\ thread \in [Threads -> Call] /\ worker \in [Runs -> Worker]
    BY DEF Inv, TypeOK
  <1>3. CASE Works(r, "born") /\ Goes(t, "storing") /\ UNCHANGED <<run, row, events>>
    <2>2. /\ thread' \in [Threads -> Call]
          /\ \A u \in Threads : /\ thread'[u].run = thread[u].run
                                /\ thread'[u].at = IF u = t THEN "storing" ELSE thread[u].at
      <3>1. "storing" \in CallAt
        BY DEF CallAt
      <3>. QED
        BY <1>1, <1>3, <3>1, ThreadGoes
    <2>3. \A u \in Threads \ {t} : thread'[u] = thread[u]
      BY <1>2, <1>3 DEF Goes
    <2>. HIDE DEF r
    <2>4. /\ worker' \in [Runs -> Worker] /\ worker'[r].at = "born"
          /\ \A s \in Runs \ {r} : worker'[s] = worker[s]
      <3>1. "born" \in WorkerAt
        BY DEF WorkerAt
      <3>. QED
        BY <1>1, <1>2, <1>3, <3>1 DEF Works, Worker
    <2>5. TypeOK'
      BY <1>3, <2>2, <2>4 DEF Inv, TypeOK, Spawn
    <2>6. \A s \in Runs : run'[s] = run[s]
      BY <1>3
    <2>7. run[r].state \in States \ Outcomes
      BY <1>1, <1>2 DEF RunRecord, Terminal
    <2>8. thread'[t].at = "storing" /\ thread'[t].run = r /\ "storing" \in Starting
      BY <1>1, <2>2 DEF r, Starting
    <2>. QED
      BY <1>1, <2>3, <2>4, <2>5, <2>6, <2>7, <2>8, StartStep
  <1>4. CASE /\ run' = [run EXCEPT ![r] = NoRun] /\ Push(r, "failed")
             /\ row' = [row EXCEPT ![r] = "ended"] /\ Returns(t) /\ UNCHANGED worker
    <2>. HIDE DEF r
    <2>1. thread' = [thread EXCEPT ![t] = NoCall]
      BY <1>4 DEF Returns
    <2>2. TypeOK'
      <3>1. run' \in [Runs -> RunRecord] /\ thread' \in [Threads -> Call]
        BY <1>1, <1>2, <1>4, <2>1, NoRunFields
      <3>2. events' \in [Runs -> Seq(Outcomes)]
        BY <1>1, <1>4, Names DEF Inv, TypeOK, Push
      <3>3. row' \in [Runs -> {"none", "active", "ended", "orphaned"}]
        BY <1>1, <1>4 DEF Inv, TypeOK
      <3>. QED
        BY <1>4, <3>1, <3>2, <3>3 DEF Inv, TypeOK, Spawn
    <2>3. \A s \in Runs \ {r} : run'[s] = run[s] /\ worker'[s] = worker[s]
      BY <1>2, <1>4
    <2>4. \A u \in Threads \ {t} : thread'[u] = thread[u]
      BY <1>2, <2>1
    <2>5. run'[r] = NoRun /\ worker'[r] = worker[r] /\ thread'[t] = NoCall
      BY <1>1, <1>2, <1>4, <2>1
    <2>. QED
      BY <1>1, <2>2, <2>3, <2>4, <2>5, NoRunFields, StartStep, Names
  <1>. QED
    BY <1>3, <1>4 DEF Spawn

LEMMA SetOutcomeInv == ASSUME NEW r \in Runs, Inv, SetOutcome(r) PROVE Inv'
  <1>. DEFINE x == worker[r].result  rec == [run[r] EXCEPT !.state = x]
  <1>1. x \in Outcomes /\ worker[r].at = "outcome" /\ r \in Active
    BY DEF Inv, WorkersMatchStates, SetOutcome, Alive, Reporting
  <1>2. run' = [run EXCEPT ![r] = rec]
    BY DEF SetOutcome
  <1>. HIDE DEF x
  <1>3. rec \in RunRecord /\ rec.state = x /\ rec.request = run[r].request /\ rec.pending = run[r].pending
    BY <1>1, Names, RecordFields DEF RunRecord
  <1>. HIDE DEF rec
  <1>4. run \in [Runs -> RunRecord] /\ worker \in [Runs -> Worker] /\ thread' = thread
    BY DEF Inv, TypeOK, SetOutcome
  <1>5. /\ worker' \in [Runs -> Worker] /\ worker'[r].at = "announcing"
        /\ \A s \in Runs \ {r} : worker'[s] = worker[s]
    <2>1. "announcing" \in WorkerAt
      BY DEF WorkerAt
    <2>. QED
      BY <1>4, <2>1 DEF SetOutcome, Works, Worker
  <1>6. run' \in [Runs -> RunRecord] /\ run'[r] = rec /\ \A s \in Runs \ {r} : run'[s] = run[s]
    BY <1>2, <1>3, <1>4
  <1>7. TypeOK'
    BY <1>5, <1>6 DEF Inv, TypeOK, SetOutcome
  <1>8. WorkersMatchStates'
    <2>1. "announcing" \in Over /\ "announcing" \notin Alive /\ "announcing" \notin Reporting
      BY DEF Over, Alive, Reporting
    <2>2. Terminal(r)'
      BY <1>1, <1>3, <1>6 DEF Terminal
    <2>. SUFFICES ASSUME NEW s \in Runs
                  PROVE  /\ worker'[s].at \in Alive => (s \in Active)'
                         /\ worker'[s].at \in Over => Terminal(s)'
                         /\ worker'[s].at = "none" => ~Terminal(s)' /\ run'[s].pending = None
                         /\ worker'[s].at \in Reporting => worker'[s].result \in Outcomes
      BY DEF WorkersMatchStates
    <2>3. CASE s = r
      BY <1>5, <2>1, <2>2, <2>3
    <2>4. CASE s # r
      BY <1>5, <1>6, <2>4 DEF Inv, WorkersMatchStates, Active, Accepted, Terminal
    <2>. QED
      BY <2>3, <2>4
  <1>9. StartsMatchStates'
    <2>1. \A t \in Threads : thread[t].at \in {"admitting", "persisting", "spawning"} => thread[t].run # r
      BY <1>1 DEF Inv, StartsMatchStates
    <2>2. \A t \in Threads : thread[t].at \in Starting => thread[t].run \in Runs
      BY StartingPlaces DEF Inv, StartsMatchStates
    <2>3. \A s \in Runs : run'[s].request = run[s].request
      BY <1>3, <1>6
    <2>. QED
      BY <1>4, <1>5, <1>6, <2>1, <2>2, <2>3, StartingPlaces DEF Inv, StartsMatchStates
  <1>10. AnswersMatchStates'
    <2>1. \A t \in Threads : thread[t].at \in {"locked", "matched"} => thread[t].run # r
      BY DEF SetOutcome, HoldsMetadata
    <2>2. \A t \in Threads : thread[t].at # "idle" => thread[t].run \in Runs
      BY DEF Inv, StartsMatchStates
    <2>. QED
      BY <1>4, <1>5, <1>6, <2>1, <2>2 DEF Inv, AnswersMatchStates, Terminal
  <1>. QED
    BY <1>7, <1>8, <1>9, <1>10 DEF Inv

-----------------------------------------------------------------------------
(* The next-state relation.                                                 *)

(* What a step does: it is calm, or one of the five others.                 *)
LEMMA StepCases ==
    ASSUME Inv, [Next]_vars
    PROVE  \/ Calm
           \/ \E t \in Callers, r \in Runs, q \in Requests : Acquire(t, r, q)
           \/ \E t \in Callers : Admit(t) \/ Spawn(t)
           \/ \E r \in Runs : SetOutcome(r)
           \/ OwnerDies
  <1>1. CASE UNCHANGED vars
    BY <1>1, RunsSame, WorkersSame, ThreadsSame, RestSame DEF vars, Calm
  <1>2. ASSUME NEW t \in Callers, CallerSteps(t)
        PROVE  Calm \/ Admit(t) \/ Spawn(t)
    <2>1. t \in Threads
      BY DEF Threads
    <2>. QED
      BY <1>2, <2>1, PersistCalm, StoreHandleCalm, AnswerLocksCalm, AnswerMatchesCalm, AnswerDeliversCalm,
         CancelTellsCalm DEF CallerSteps
  <1>3. CASE ApproverSteps
    <2>1. Approver \in Threads
      BY DEF Threads
    <2>. QED
      BY <1>3, <2>1, ApproveClearsCalm, ApproveDeliversCalm, ApproveResumesCalm, CancelTellsCalm
      DEF ApproverSteps
  <1>4. CASE CloserSteps
    BY <1>4, ShutdownCollectsCalm, ShutdownJoinsCalm, ShutdownReturnsCalm, ShutdownSignalsCalm,
       ShutdownReapsCalm DEF CloserSteps
  <1>5. ASSUME Calls
        PROVE  Calm \/ \E t \in Callers, r \in Runs, q \in Requests : Acquire(t, r, q)
    BY <1>5, AnswerReadsCalm, ApproveReadsCalm, CancelMarksCalm, ShutdownFlagsCalm DEF Calls
  <1>6. ASSUME NEW r \in Runs, WorkerSteps(r)
        PROVE  Calm \/ SetOutcome(r)
    BY <1>6, MarkRunningCalm, GiveUpCalm, TakeResponseCalm, UnwindCalm, ReadOutcomeCalm, AnnounceCalm,
       RecordCompletedCalm, ReleaseCalm DEF WorkerSteps
  <1>7. ASSUME NEW r \in Runs, Provider(r) \/ Expire(r)
        PROVE  Calm
    BY <1>7, ReturnCalm, AskCalm, ExpireCalm DEF Provider
  <1>8. ASSUME NEW r \in Runs, Reconcile(r) \/ ReconcileEvent(r)
        PROVE  Calm
    BY <1>8, ReconcileCalm, ReconcileEventCalm
  <1>. QED
    BY <1>1, <1>2, <1>3, <1>4, <1>5, <1>6, <1>7, <1>8 DEF Next

LEMMA NextInv == Inv /\ [Next]_vars => Inv'
  BY StepCases, CalmKeepsInv, AcquireInv, AdmitInv, SpawnInv, SetOutcomeInv, OwnerDiesInv

(* The types, and what the program counters say about the records, hold for *)
(* any number of runs and callers.                                          *)
THEOREM InvHolds == Spec => []Inv
  BY InitInv, NextInv, PTL DEF Spec

(* Every reachable state of a manager has the types TypeOK gives it.        *)
THEOREM TypeCorrect == Spec => []TypeOK
  <1>1. Inv => TypeOK
    BY DEF Inv
  <1>. QED
    BY <1>1, InvHolds, PTL

-----------------------------------------------------------------------------
(* Admission.                                                               *)

(* Losing active runs, with the rest asking for what they asked for, keeps  *)
(* the admission rules.                                                     *)
LEMMA AdmissionKept ==
    ASSUME AdmissionHolds, Active' \subseteq Active,
           \A r \in Active' : run'[r].request = run[r].request
    PROVE  AdmissionHolds'
  <1>1. IsFiniteSet(Active)
    BY RunsAssumption, FS_Subset DEF Active, Accepted
  <1>2. Cardinality(Active') <= Cardinality(Active) /\ Cardinality(Active') \in Nat /\ Cardinality(Active) \in Nat
    BY <1>1, FS_Subset, FS_CardinalityType
  <1>3. Cardinality(Active') <= MaxActive
    BY <1>2, BoundsAssumption DEF AdmissionHolds
  <1>4. \A r, s \in Active' :
            run'[r].request.resume # None /\ run'[r].request.resume = run'[s].request.resume => r = s
    BY DEF AdmissionHolds
  <1>. QED
    BY <1>3, <1>4 DEF AdmissionHolds

LEMMA AdmissionAdmit == ASSUME NEW t \in Callers, Inv, AdmissionHolds, Admit(t) PROVE AdmissionHolds'
  <1>. DEFINE r == thread[t].run
  <1>1. r \in Runs /\ run[r].state = None /\ run \in [Runs -> RunRecord]
    BY DEF Inv, TypeOK, StartsMatchStates, Admit, At, Threads
  <1>2. CASE Admissible(r) /\ run' = [run EXCEPT ![r].state = "starting"]
    <2>. HIDE DEF r
    <2>. DEFINE rec == [run[r] EXCEPT !.state = "starting"]
    <2>1. run' = [run EXCEPT ![r] = rec]
      BY <1>2
    <2>2. rec.state = "starting" /\ rec.request = run[r].request
      BY <1>1, RecordFields, Names DEF RunRecord
    <2>. HIDE DEF rec
    <2>3. /\ run'[r] = rec
          /\ \A s \in Runs \ {r} : run'[s] = run[s]
      BY <1>1, <2>1
    <2>4. Active' = Active \cup {r} /\ r \notin Active
      BY <1>1, <2>2, <2>3, Names DEF Active, Accepted, Terminal
    <2>5. IsFiniteSet(Active)
      BY RunsAssumption, FS_Subset DEF Active, Accepted
    <2>6. Cardinality(Active') = Cardinality(Active) + 1 /\ Cardinality(Active) \in Nat
      BY <2>4, <2>5, FS_AddElement, FS_CardinalityType
    <2>7. Cardinality(Active') <= MaxActive
      BY <1>2, <2>6, BoundsAssumption DEF Admissible
    <2>8. \A s \in Runs : run'[s].request = run[s].request
      BY <2>2, <2>3
    <2>9. ASSUME NEW u \in Active', NEW v \in Active', run'[u].request.resume # None,
                 run'[u].request.resume = run'[v].request.resume
          PROVE  u = v
      <3>1. u \in Runs /\ v \in Runs
        BY DEF Active, Accepted
      <3>2. CASE u = r /\ v # r
        BY <1>2, <2>4, <2>8, <2>9, <3>1, <3>2 DEF Admissible
      <3>3. CASE v = r /\ u # r
        BY <1>2, <2>4, <2>8, <2>9, <3>1, <3>3 DEF Admissible
      <3>4. CASE u # r /\ v # r
        BY <2>4, <2>8, <2>9, <3>1, <3>4 DEF AdmissionHolds
      <3>. QED
        BY <3>2, <3>3, <3>4
    <2>. QED
      BY <2>7, <2>9 DEF AdmissionHolds
  <1>3. CASE run' = [run EXCEPT ![r] = NoRun]
    <2>1. run'[r].state = None /\ \A s \in Runs \ {r} : run'[s] = run[s]
      BY <1>1, <1>3, NoRunFields
    <2>. HIDE DEF r
    <2>2. Active' \subseteq Active /\ \A s \in Active' : run'[s] = run[s]
      BY <2>1 DEF Active, Accepted, Terminal
    <2>. QED
      BY <2>2, AdmissionKept
  <1>. QED
    BY <1>2, <1>3 DEF Admit

LEMMA AdmissionStep == Inv /\ AdmissionHolds /\ [Next]_vars => AdmissionHolds'
  <1>. SUFFICES ASSUME Inv, AdmissionHolds, [Next]_vars PROVE AdmissionHolds'
    OBVIOUS
  <1>0. run \in [Runs -> RunRecord]
    BY DEF Inv, TypeOK
  <1>1. CASE Calm
    <2>1. Active' \subseteq Active
      BY <1>1, Names DEF Calm, CalmRuns, Active, Accepted, Terminal
    <2>2. \A r \in Active' : run'[r].request = run[r].request
      BY <1>1 DEF Calm, CalmRuns, Active, Accepted
    <2>. QED
      BY <2>1, <2>2, AdmissionKept
  <1>2. ASSUME NEW t \in Callers, NEW r \in Runs, NEW q \in Requests, Acquire(t, r, q)
        PROVE  AdmissionHolds'
    <2>1. run[r].state = None
      BY <1>2 DEF Acquire, Fresh, Used, NoRun
    <2>2. run'[r].state = None /\ \A s \in Runs \ {r} : run'[s] = run[s]
      BY <1>0, <1>2, <2>1 DEF Acquire, RunRecord
    <2>3. Active' \subseteq Active /\ \A s \in Active' : run'[s] = run[s]
      BY <2>1, <2>2 DEF Active, Accepted, Terminal
    <2>. QED
      BY <2>3, AdmissionKept
  <1>3. ASSUME NEW t \in Callers, Admit(t)
        PROVE  AdmissionHolds'
    BY <1>3, AdmissionAdmit
  <1>4. ASSUME NEW t \in Callers, Spawn(t)
        PROVE  AdmissionHolds'
    <2>1. CASE run' = run
      BY <2>1, AdmissionKept DEF Active, Accepted, Terminal
    <2>2. CASE run' = [run EXCEPT ![thread[t].run] = NoRun]
      <3>1. Active' \subseteq Active /\ \A s \in Active' : run'[s] = run[s]
        BY <1>0, <2>2, NoRunFields DEF Active, Accepted, Terminal
      <3>. QED
        BY <3>1, AdmissionKept
    <2>. QED
      BY <1>4, <2>1, <2>2 DEF Spawn
  <1>5. ASSUME NEW r \in Runs, SetOutcome(r)
        PROVE  AdmissionHolds'
    <2>1. worker[r].result \in Outcomes
      BY <1>5 DEF Inv, WorkersMatchStates, SetOutcome, Reporting
    <2>2. run'[r].state \in Outcomes /\ \A s \in Runs \ {r} : run'[s] = run[s]
      BY <1>0, <1>5, <2>1 DEF SetOutcome, RunRecord
    <2>3. Active' \subseteq Active /\ \A s \in Active' : run'[s] = run[s]
      BY <2>2 DEF Active, Accepted, Terminal
    <2>. QED
      BY <2>3, AdmissionKept
  <1>6. CASE OwnerDies
    <2>1. Active' = {}
      BY <1>6, NoRunFields DEF OwnerDies, Active, Accepted
    <2>. QED
      BY <2>1, AdmissionKept
  <1>. QED
    BY <1>1, <1>2, <1>3, <1>4, <1>5, <1>6, StepCases

(* start_run's bound on active runs and its one active run per native       *)
(* session hold at every moment, whatever the callers, the approval channel *)
(* and the workers do meanwhile.                                            *)
THEOREM AdmissionHoldsAlways == Spec => []AdmissionHolds
  <1>1. Init => AdmissionHolds
    <2>. SUFFICES ASSUME Init PROVE AdmissionHolds
      OBVIOUS
    <2>1. Active = {}
      BY NoRunFields DEF Init, Active, Accepted
    <2>. QED
      BY <2>1, FS_EmptySet, BoundsAssumption DEF AdmissionHolds
  <1>. QED
    BY <1>1, AdmissionStep, InvHolds, PTL DEF Spec

-----------------------------------------------------------------------------
(* Outcomes.                                                                *)

LEMMA OutcomeStep ==
    Inv /\ [Next]_vars => (up' => \A r \in Runs : Terminal(r) => run'[r].state = run[r].state)
  <1>. SUFFICES ASSUME Inv, [Next]_vars, up', NEW r \in Runs, Terminal(r)
                PROVE  run'[r].state = run[r].state
    OBVIOUS
  <1>0. run \in [Runs -> RunRecord] /\ run[r].state # None
    BY Names DEF Inv, TypeOK, Terminal
  <1>1. CASE Calm
    BY <1>1 DEF Calm, CalmRuns, Active
  <1>2. ASSUME NEW t \in Callers, NEW s \in Runs, NEW q \in Requests, Acquire(t, s, q)
        PROVE  run'[r].state = run[r].state
    <2>1. run[s].state = None
      BY <1>2 DEF Acquire, Fresh, Used, NoRun
    <2>. QED
      BY <1>0, <1>2, <2>1 DEF Acquire
  <1>3. ASSUME NEW t \in Callers, Admit(t) \/ Spawn(t)
        PROVE  run'[r].state = run[r].state
    <2>1. thread[t].run # r
      <3>1. worker[r].at # "none"
        BY DEF Inv, WorkersMatchStates
      <3>. QED
        BY <1>3, <3>1 DEF Inv, StartsMatchStates, Admit, Spawn, At, Threads
    <2>. QED
      BY <1>0, <1>3, <2>1 DEF Admit, Spawn
  <1>4. ASSUME NEW s \in Runs, SetOutcome(s)
        PROVE  run'[r].state = run[r].state
    <2>1. s \in Active
      BY <1>4 DEF Inv, WorkersMatchStates, SetOutcome, Alive
    <2>2. s # r
      BY <2>1 DEF Active
    <2>. QED
      BY <1>0, <1>4, <2>2 DEF SetOutcome
  <1>5. CASE OwnerDies
    BY <1>5 DEF OwnerDies
  <1>. QED
    BY <1>1, <1>2, <1>3, <1>4, <1>5, StepCases

(* Terminal outcomes are immutable: no answer, approval, cancellation or    *)
(* second completion that was under way when the run ended rewrites one.    *)
THEOREM OutcomeStandsAlways == Spec => OutcomeStands
  <1>1. Inv /\ [Next]_vars
        => [up' => \A r \in Runs : Terminal(r) => run'[r].state = run[r].state]_vars
    BY OutcomeStep
  <1>. QED
    BY <1>1, InvHolds, PTL DEF Spec, OutcomeStands

-----------------------------------------------------------------------------
(* Workspace locks.                                                         *)

Entering == {"admitting", "persisting", "spawning"}

(* A workspace lock has one holder.  A run that may write holds it from its *)
(* start until its worker is done.                                          *)
LocksHeld ==
    /\ \A r, s \in Runs :
           run[r].locked /\ run[s].locked /\ run[r].request.dir = run[s].request.dir => r = s
    /\ \A r \in Runs : Writing(r) => run[r].locked
    /\ \A t \in Threads : thread[t].at \in Entering /\ run[thread[t].run].request.dir # None
           => run[thread[t].run].locked

(* What the steps that neither start a run nor lose it leave alone: the     *)
(* lock, the handle and a worker that is done.                              *)
Kept ==
    /\ \A s \in Runs :
           /\ worker[s].at = "done" => worker'[s].at = "done"
           /\ run'[s].locked = run[s].locked \/ (worker'[s].at = "done" /\ ~run'[s].locked)
           /\ run[s].handle => run'[s].handle
    /\ \A t \in Threads : thread[t].at = "storing" =>
           thread'[t] = thread[t] \/ run'[thread[t].run].handle

Typed == /\ run \in [Runs -> RunRecord] /\ worker \in [Runs -> Worker]
         /\ thread \in [Threads -> Call]

LEMMA InvTyped == Inv => Typed
  BY DEF Inv, TypeOK, Typed

LEMMA KeptSteps ==
    ASSUME Inv, [Next]_vars
    PROVE  \/ Calm /\ Kept
           \/ \E t \in Callers, r \in Runs, q \in Requests : Acquire(t, r, q)
           \/ \E t \in Callers : Admit(t) \/ Spawn(t)
           \/ \E r \in Runs : SetOutcome(r)
           \/ OwnerDies
  <1>. USE InvTyped
  <1>1. CASE UNCHANGED vars
    <2>1. Calm
      BY <1>1, RunsSame, WorkersSame, ThreadsSame, RestSame DEF vars, Calm
    <2>. QED
      BY <1>1, <2>1 DEF vars, Kept
  <1>2. ASSUME NEW t \in Callers, CallerSteps(t) PROVE (Calm /\ Kept) \/ Admit(t) \/ Spawn(t)
    <2>0. t \in Threads /\ (thread[t].at # "idle" => thread[t].run \in Runs)
      BY DEF Threads, Inv, StartsMatchStates
    <2>1. Persist(t) => Kept
      BY DEF Persist, Kept, Typed, Call, Worker, RunRecord, At, Goes
    <2>2. StoreHandle(t) => Kept
      BY <2>0 DEF StoreHandle, Kept, Typed, Call, Worker, RunRecord, At, Returns, NoCall
    <2>3. AnswerLocks(t) => Kept
      BY DEF AnswerLocks, Kept, Typed, Call, Worker, RunRecord, At, Goes, Returns, NoCall
    <2>4. AnswerMatches(t) => Kept
      BY DEF AnswerMatches, Kept, Typed, Call, Worker, RunRecord, At, Goes, Returns, NoCall
    <2>5. AnswerDelivers(t) => Kept
      BY <2>0 DEF AnswerDelivers, Kept, Typed, Call, Worker, RunRecord, At, Goes, Returns, NoCall
    <2>6. CancelTells(t) => Kept
      BY <2>0 DEF CancelTells, Kept, Typed, Call, Worker, RunRecord, At, Goes, Returns, NoCall
    <2>. QED
      BY <1>2, <2>0, <2>1, <2>2, <2>3, <2>4, <2>5, <2>6, PersistCalm, StoreHandleCalm, AnswerLocksCalm,
         AnswerMatchesCalm, AnswerDeliversCalm, CancelTellsCalm DEF CallerSteps
  <1>3. CASE ApproverSteps
    <2>0. Approver \in Threads /\ (thread[Approver].at # "idle" => thread[Approver].run \in Runs)
      BY DEF Threads, Inv, StartsMatchStates
    <2>1. ApproveClears => Kept
      BY <2>0 DEF ApproveClears, Kept, Typed, Call, Worker, RunRecord, At, Goes
    <2>2. ApproveDelivers => Kept
      BY <2>0 DEF ApproveDelivers, Kept, Typed, Call, Worker, RunRecord, At, Goes
    <2>3. ApproveResumes => Kept
      BY <2>0 DEF ApproveResumes, Kept, Typed, Call, Worker, RunRecord, At, Goes, Returns, NoCall
    <2>4. CancelTells(Approver) => Kept
      BY <2>0 DEF CancelTells, Kept, Typed, Call, Worker, RunRecord, At, Goes, Returns, NoCall
    <2>. QED
      BY <1>3, <2>0, <2>1, <2>2, <2>3, <2>4, ApproveClearsCalm, ApproveDeliversCalm, ApproveResumesCalm,
         CancelTellsCalm DEF ApproverSteps
  <1>4. CASE CloserSteps
    <2>1. ShutdownCollects \/ ShutdownJoins \/ ShutdownReturns => Kept
      BY DEF ShutdownCollects, ShutdownJoins, ShutdownReturns, Kept
    <2>2. \A r \in Runs : ShutdownReaps(r) => Kept
      BY DEF ShutdownReaps, Kept
    <2>3. \A r \in Runs : ShutdownSignals(r) => Kept
      BY DEF ShutdownSignals, Kept, Typed, Call, Worker, RunRecord
    <2>. QED
      BY <1>4, <2>1, <2>2, <2>3, ShutdownCollectsCalm, ShutdownJoinsCalm, ShutdownReturnsCalm,
         ShutdownSignalsCalm, ShutdownReapsCalm DEF CloserSteps
  <1>5. CASE Calls
    <2>1. \A t \in Callers, r \in Runs : AnswerReads(t, r) => Kept
      BY DEF AnswerReads, Kept, Typed, Call, Idle, Threads
    <2>2. \A r \in Runs : ApproveReads(r) => Kept
      BY DEF ApproveReads, Kept, Typed, Call, Idle, Threads
    <2>3. \A r \in Runs, t \in Threads : CancelMarks(t, r) => Kept
      BY DEF CancelMarks, Kept, Typed, Call, Idle, RunRecord
    <2>4. ShutdownFlags => Kept
      BY DEF ShutdownFlags, Kept
    <2>. QED
      BY <1>5, <2>1, <2>2, <2>3, <2>4, AnswerReadsCalm, ApproveReadsCalm, CancelMarksCalm,
         ShutdownFlagsCalm DEF Calls
  <1>6. ASSUME NEW r \in Runs, WorkerSteps(r) PROVE (Calm /\ Kept) \/ SetOutcome(r)
    <2>1. MarkRunning(r) => Kept
      BY DEF MarkRunning, Kept, Typed, Worker, RunRecord, Works, Ends
    <2>2. GiveUp(r) => Kept
      BY DEF GiveUp, Kept, Typed, Worker, RunRecord, Works, Ends
    <2>3. TakeResponse(r) => Kept
      BY DEF TakeResponse, Kept, Typed, Worker, RunRecord, Works, Ends
    <2>4. Unwind(r) => Kept
      BY DEF Unwind, Kept, Typed, Worker, RunRecord, Works, Ends
    <2>5. ReadOutcome(r) => Kept
      BY DEF ReadOutcome, Kept, Typed, Worker, RunRecord, Works, Ends
    <2>6. Announce(r) => Kept
      BY DEF Announce, Kept, Typed, Worker, RunRecord, Works, Ends
    <2>7. RecordCompleted(r) => Kept
      BY DEF RecordCompleted, Kept, Typed, Worker, RunRecord, Works, Ends
    <2>8. Release(r) => Kept
      <3>. SUFFICES ASSUME Release(r) PROVE Kept
        OBVIOUS
      <3>1. \A s \in Runs : run'[s] = IF s = r THEN [run[r] EXCEPT !.locked = FALSE] ELSE run[s]
        BY DEF Release, Typed
      <3>2. \A s \in Runs : worker'[s] = IF s = r THEN [worker[r] EXCEPT !.at = "done"] ELSE worker[s]
        BY DEF Release, Works, Typed
      <3>3. worker'[r].at = "done"
        BY <3>2 DEF Typed, Worker
      <3>4. run'[r].handle = run[r].handle /\ run'[r].locked = FALSE
        BY <3>1 DEF Typed, RunRecord
      <3>. QED
        BY <3>1, <3>2, <3>3, <3>4 DEF Release, Kept
    <2>. QED
      BY <1>6, <2>1, <2>2, <2>3, <2>4, <2>5, <2>6, <2>7, <2>8, MarkRunningCalm, GiveUpCalm,
         TakeResponseCalm, UnwindCalm, ReadOutcomeCalm, AnnounceCalm, RecordCompletedCalm, ReleaseCalm
      DEF WorkerSteps
  <1>7. ASSUME NEW r \in Runs, Provider(r) \/ Expire(r) PROVE Calm /\ Kept
    <2>1. Return(r) => Kept
      BY DEF Return, Kept, Typed, Worker, RunRecord, Ends
    <2>2. Ask(r) => Kept
      <3>. SUFFICES ASSUME Ask(r) PROVE Kept
        OBVIOUS
      <3>1. \A s \in Runs \ {r} : run'[s] = run[s] /\ worker'[s] = worker[s]
        BY DEF Ask, Works, Ends, Typed
      <3>2. run'[r].locked = run[r].locked /\ run'[r].handle = run[r].handle
        BY DEF Ask, Typed, RunRecord
      <3>. QED
        BY <3>1, <3>2 DEF Ask, Kept
    <2>3. Expire(r) => Kept
      BY DEF Expire, Kept, Typed, Worker, RunRecord
    <2>. QED
      BY <1>7, <2>1, <2>2, <2>3, ReturnCalm, AskCalm, ExpireCalm DEF Provider
  <1>8. ASSUME NEW r \in Runs, Reconcile(r) \/ ReconcileEvent(r) PROVE Calm /\ Kept
    BY <1>8, ReconcileCalm, ReconcileEventCalm DEF Reconcile, ReconcileEvent, Kept
  <1>. QED
    BY <1>1, <1>2, <1>3, <1>4, <1>5, <1>6, <1>7, <1>8 DEF Next

(* What the steps of a start and of an outcome do to the run they concern.  *)
LEMMA AcquireStep ==
    ASSUME NEW t \in Callers, NEW r \in Runs, NEW q \in Requests, Inv, Acquire(t, r, q)
    PROVE  /\ t \in Threads /\ run[r] = NoRun /\ worker[r].at = "none" /\ worker' = worker
           /\ run'[r].request = q /\ (run'[r].locked <=> q.dir # None)
           /\ run'[r].pending = None /\ run'[r].response = 0
           /\ \A s \in Runs \ {r} : run'[s] = run[s]
           /\ thread'[t].at = "admitting" /\ thread'[t].run = r /\ thread[t].at = "idle"
           /\ \A u \in Threads \ {t} : thread'[u] = thread[u]
           /\ \A u \in Threads : ~(thread[u].at \in Starting /\ thread[u].run = r)
  <1>1. run[r] = NoRun /\ row[r] = "none"
    BY DEF Acquire, Fresh, Used
  <1>2. run[r].state = None /\ run[r].request = NoRequest
    BY <1>1 DEF NoRun
  <1>3. worker[r].at = "none"
    BY <1>2, Workless
  <1>4. run[r].pending = None /\ run[r].response = 0
    BY <1>1 DEF NoRun
  <1>5. \A u \in Threads : ~(thread[u].at \in Starting /\ thread[u].run = r)
    BY <1>2 DEF Inv, StartsMatchStates
  <1>6. /\ run'[r].request = q /\ (run'[r].locked <=> q.dir # None)
        /\ run'[r].pending = run[r].pending /\ run'[r].response = run[r].response
        /\ \A s \in Runs \ {r} : run'[s] = run[s]
    BY InvTyped DEF Acquire, Typed, RunRecord
  <1>7. /\ t \in Threads /\ thread[t].at = "idle"
        /\ thread'[t].at = "admitting" /\ thread'[t].run = r
        /\ \A u \in Threads \ {t} : thread'[u] = thread[u]
    BY InvTyped DEF Acquire, Typed, Threads, Idle
  <1>. QED
    BY <1>1, <1>3, <1>4, <1>5, <1>6, <1>7 DEF Acquire

LEMMA AdmitStep ==
    ASSUME NEW t \in Callers, Inv, Admit(t)
    PROVE  LET r == thread[t].run IN
           /\ t \in Threads /\ r \in Runs /\ run[r].state = None /\ worker[r].at = "none"
           /\ thread[t].at = "admitting" /\ worker' = worker
           /\ \A u \in Threads \ {t} : ~(thread[u].at \in Starting /\ thread[u].run = r)
           /\ \A u \in Threads \ {t} : thread'[u] = thread[u]
           /\ \A s \in Runs \ {r} : run'[s] = run[s]
           /\ \/ /\ run'[r].request = run[r].request /\ run'[r].locked = run[r].locked
                 /\ run'[r].pending = run[r].pending /\ run'[r].response = run[r].response
                 /\ thread'[t].at = "persisting" /\ thread'[t].run = r
              \/ run'[r] = NoRun /\ thread'[t] = NoCall
  <1>1. /\ t \in Threads /\ thread[t].run \in Runs /\ run[thread[t].run].state = None
        /\ worker[thread[t].run].at = "none" /\ thread[t].at = "admitting"
        /\ \A u \in Threads \ {t} : ~(thread[u].at \in Starting /\ thread[u].run = thread[t].run)
    BY StartingPlaces DEF Inv, StartsMatchStates, Admit, At, Threads
  <1>2. CASE run' = [run EXCEPT ![thread[t].run].state = "starting"] /\ Goes(t, "persisting")
    BY <1>1, <1>2, InvTyped DEF Admit, Typed, Goes, RunRecord, Call
  <1>3. CASE run' = [run EXCEPT ![thread[t].run] = NoRun] /\ Returns(t)
    BY <1>1, <1>3, InvTyped DEF Admit, Typed, Returns
  <1>. QED
    BY <1>2, <1>3 DEF Admit

LEMMA SpawnStep ==
    ASSUME NEW t \in Callers, Inv, Spawn(t)
    PROVE  LET r == thread[t].run IN
           /\ t \in Threads /\ r \in Runs /\ run[r].state # None /\ worker[r].at = "none"
           /\ thread[t].at = "spawning"
           /\ \A u \in Threads \ {t} : ~(thread[u].at \in Starting /\ thread[u].run = r)
           /\ \A u \in Threads \ {t} : thread'[u] = thread[u]
           /\ \A s \in Runs \ {r} : run'[s] = run[s] /\ worker'[s] = worker[s]
           /\ \/ /\ worker'[r].at = "born" /\ run' = run
                 /\ thread'[t].at = "storing" /\ thread'[t].run = r
                 /\ row' = row /\ events' = events
              \/ /\ run'[r] = NoRun /\ thread'[t] = NoCall /\ worker' = worker
                 /\ Push(r, "failed") /\ row' = [row EXCEPT ![r] = "ended"]
  <1>1. /\ t \in Threads /\ thread[t].run \in Runs /\ run[thread[t].run].state # None
        /\ worker[thread[t].run].at = "none" /\ thread[t].at = "spawning"
        /\ \A u \in Threads \ {t} : ~(thread[u].at \in Starting /\ thread[u].run = thread[t].run)
    BY StartingPlaces DEF Inv, StartsMatchStates, Spawn, At, Threads
  <1>2. CASE Works(thread[t].run, "born") /\ Goes(t, "storing") /\ UNCHANGED <<run, row, events>>
    BY <1>1, <1>2, InvTyped DEF Typed, Works, Goes, Worker, Call
  <1>3. CASE /\ run' = [run EXCEPT ![thread[t].run] = NoRun] /\ Push(thread[t].run, "failed")
             /\ row' = [row EXCEPT ![thread[t].run] = "ended"] /\ Returns(t) /\ UNCHANGED worker
    BY <1>1, <1>3, InvTyped DEF Typed, Returns
  <1>. QED
    BY <1>2, <1>3 DEF Spawn

LEMMA SetOutcomeStep ==
    ASSUME NEW r \in Runs, Inv, SetOutcome(r)
    PROVE  /\ worker[r].at = "outcome" /\ worker'[r].at = "announcing"
           /\ thread' = thread
           /\ run'[r] = [run[r] EXCEPT !.state = worker[r].result]
           /\ \A s \in Runs \ {r} : run'[s] = run[s] /\ worker'[s] = worker[s]
  BY InvTyped DEF SetOutcome, Works, Typed, Worker

LEMMA NoRunShape ==
    /\ NoRun.locked = FALSE /\ NoRun.handle = FALSE /\ NoRun.request = NoRequest
    /\ NoRun.pending = None /\ NoRun.response = 0 /\ NoRun.asks = 0
    /\ NoRequest.dir = None /\ NoWorker.at = "none" /\ NoCall.at = "idle"
  BY DEF NoRun, NoRequest, NoWorker, NoCall

LEMMA LocksStep == Inv /\ LocksHeld /\ [Next]_vars => LocksHeld'
  <1>. SUFFICES ASSUME Inv, LocksHeld, [Next]_vars PROVE LocksHeld'
    OBVIOUS
  <1>0. Typed /\ Typed'
    BY NextInv DEF Inv, TypeOK, Typed
  <1>1. CASE Calm /\ Kept
    <2>1. \A r \in Runs : run'[r].request = run[r].request /\ (run'[r].locked => run[r].locked)
      BY <1>0, <1>1 DEF Calm, CalmRuns, Kept, Typed, RunRecord
    <2>2. \A r \in Runs : Writing(r)' => Writing(r) /\ run'[r].locked = run[r].locked
      <3>1. \A r \in Runs : worker'[r].at = "none" <=> worker[r].at = "none"
        BY <1>1, Places DEF Calm, CalmWorkers
      <3>. QED
        BY <1>1, <2>1, <3>1 DEF Writing, Kept
    <2>3. \A t \in Threads : thread'[t].at \in Entering =>
              /\ thread[t].at \in Entering /\ thread'[t].run = thread[t].run
              /\ thread[t].run \in Runs
              /\ run'[thread[t].run].locked = run[thread[t].run].locked
      <3>. SUFFICES ASSUME NEW t \in Threads, thread'[t].at \in Entering
                    PROVE  /\ thread[t].at \in Entering /\ thread'[t].run = thread[t].run
                           /\ thread[t].run \in Runs
                           /\ run'[thread[t].run].locked = run[thread[t].run].locked
        OBVIOUS
      <3>1. thread[t].at \in Entering /\ thread'[t].run = thread[t].run
        BY <1>1 DEF Calm, CalmThreads, Entering
      <3>2. thread[t].run \in Runs /\ worker[thread[t].run].at = "none"
        BY <3>1 DEF Inv, StartsMatchStates, Entering
      <3>3. worker'[thread[t].run].at = "none"
        BY <1>1, <3>2, Places DEF Calm, CalmWorkers
      <3>. QED
        BY <1>1, <3>1, <3>2, <3>3 DEF Kept
    <2>. QED
      BY <2>1, <2>2, <2>3 DEF LocksHeld
  <1>2. ASSUME NEW t \in Callers, NEW r \in Runs, NEW q \in Requests, Acquire(t, r, q)
        PROVE  LocksHeld'
    <2>0. /\ t \in Threads /\ run[r] = NoRun /\ worker[r].at = "none" /\ worker' = worker
          /\ \A s \in Runs \ {r} : run'[s] = run[s]
          /\ thread'[t].at = "admitting" /\ thread'[t].run = r
          /\ \A u \in Threads \ {t} : thread'[u] = thread[u]
          /\ \A u \in Threads : ~(thread[u].at \in Starting /\ thread[u].run = r)
      BY <1>2, AcquireStep
    <2>1. run'[r].request = q /\ (run'[r].locked <=> q.dir # None)
      BY <1>2, AcquireStep
    <2>2. \A s \in Runs : ~(run[s].locked /\ run[s].request.dir = q.dir)
      BY <1>2 DEF Acquire, DirFree
    <2>3. \A u \in Threads : thread[u].at \in Entering =>
              thread[u].at \in Starting /\ thread[u].run \in Runs
      BY StartingPlaces DEF Entering, Inv, StartsMatchStates
    <2>. QED
      BY <2>0, <2>1, <2>2, <2>3 DEF LocksHeld, Writing
  <1>3. ASSUME NEW t \in Callers, Admit(t)
        PROVE  LocksHeld'
    <2>. DEFINE r == thread[t].run
    <2>0. /\ t \in Threads /\ r \in Runs /\ worker[r].at = "none" /\ worker' = worker
          /\ \A u \in Threads \ {t} : ~(thread[u].at \in Starting /\ thread[u].run = r)
          /\ \A u \in Threads \ {t} : thread'[u] = thread[u]
          /\ \A s \in Runs \ {r} : run'[s] = run[s]
      BY <1>3, AdmitStep
    <2>1. \/ /\ run'[r].locked = run[r].locked /\ run'[r].request = run[r].request
             /\ thread'[t].run = r
          \/ ~run'[r].locked /\ run'[r].request.dir = None /\ thread'[t].at = "idle"
      BY <1>3, AdmitStep, NoRunShape
    <2>2. \A u \in Threads : thread[u].at \in Entering =>
              thread[u].at \in Starting /\ thread[u].run \in Runs
      BY StartingPlaces DEF Entering, Inv, StartsMatchStates
    <2>3. thread[t].at \in Entering /\ "idle" \notin Entering
      BY <1>3, AdmitStep DEF Entering
    <2>. HIDE DEF r
    <2>4. \A u \in Threads \ {t} : thread[u].at \in Entering => thread[u].run # r
      BY <2>0, <2>2
    <2>. QED
      BY <2>0, <2>1, <2>2, <2>3, <2>4 DEF LocksHeld, Writing, r
  <1>4. ASSUME NEW t \in Callers, Spawn(t)
        PROVE  LocksHeld'
    <2>. DEFINE r == thread[t].run
    <2>0. /\ t \in Threads /\ r \in Runs /\ worker[r].at = "none"
          /\ \A u \in Threads \ {t} : ~(thread[u].at \in Starting /\ thread[u].run = r)
          /\ \A u \in Threads \ {t} : thread'[u] = thread[u]
          /\ \A s \in Runs \ {r} : run'[s] = run[s] /\ worker'[s] = worker[s]
      BY <1>4, SpawnStep
    <2>1. \/ run' = run /\ thread'[t].at = "storing"
          \/ /\ ~run'[r].locked /\ run'[r].request.dir = None /\ thread'[t].at = "idle"
             /\ worker' = worker
      BY <1>4, SpawnStep, NoRunShape
    <2>2. \A u \in Threads : thread[u].at \in Entering =>
              thread[u].at \in Starting /\ thread[u].run \in Runs
      BY StartingPlaces DEF Entering, Inv, StartsMatchStates
    <2>3. thread[t].at \in Entering /\ "idle" \notin Entering /\ "storing" \notin Entering
      BY <1>4, SpawnStep DEF Entering
    <2>. HIDE DEF r
    <2>4. \A u \in Threads \ {t} : thread[u].at \in Entering => thread[u].run # r
      BY <2>0, <2>2
    <2>5. run[r].request.dir # None => run[r].locked
      BY <2>0, <2>3 DEF LocksHeld, r
    <2>. QED
      BY <2>0, <2>1, <2>2, <2>3, <2>4, <2>5 DEF LocksHeld, Writing
  <1>5. ASSUME NEW r \in Runs, SetOutcome(r)
        PROVE  LocksHeld'
    <2>1. \A s \in Runs : run'[s].locked = run[s].locked /\ run'[s].request = run[s].request
      BY <1>0, <1>5, SetOutcomeStep DEF Typed, RunRecord
    <2>2. \A s \in Runs : Writing(s)' => Writing(s)
      BY <1>5, <2>1, SetOutcomeStep DEF Writing
    <2>3. thread' = thread /\ \A u \in Threads : thread[u].at \in Entering => thread[u].run \in Runs
      BY <1>5, SetOutcomeStep DEF Entering, Inv, StartsMatchStates
    <2>. QED
      BY <2>1, <2>2, <2>3 DEF LocksHeld
  <1>6. CASE OwnerDies
    BY <1>6, NoRunShape DEF OwnerDies, LocksHeld, Writing, Entering
  <1>. QED
    BY <1>1, <1>2, <1>3, <1>4, <1>5, <1>6, KeptSteps

(* No two runs that may write ever work in one directory, from the start of *)
(* the provider to the last row: whoever starts, fails, ends or cancels     *)
(* runs meanwhile, the workspace lock has one holder.                       *)
THEOREM WritersAreExclusive == Spec => []WritersExclusive
  <1>1. Init => LocksHeld
    BY NoRunShape DEF Init, LocksHeld, Writing, Entering
  <1>2. LocksHeld => WritersExclusive
    BY DEF LocksHeld, WritersExclusive, Writing
  <1>. QED
    BY <1>1, <1>2, LocksStep, InvHolds, PTL DEF Spec

-----------------------------------------------------------------------------
(* Shutdown.                                                                *)

(* A worker whose handle is not stored is in its starter's hands.           *)
HandlesStored ==
    /\ thread[Approver].at \notin Starting
    /\ \A r \in Runs : worker[r].at # "none" /\ ~run[r].handle =>
           \E t \in Callers : thread[t].at = "storing" /\ thread[t].run = r

(* What the shutdown has yet to wait for.                                   *)
Collected == {"signalling", "joining", "done"}
ShutdownKeepsCount ==
    /\ closer.at # "idle" => shutdown
    /\ closer.at \in Collected =>
           /\ \A t \in Callers : thread[t].at \in Starting => thread[t].run \in missed
           /\ \A r \in Runs : worker[r].at # "none" => r \in closer.all \cup missed
    /\ closer.at \in {"joining", "done"} =>
           \A r \in closer.all \ closer.todo : worker[r].at \in {"none", "done"} \/ r \in missed
    /\ closer.at = "done" => closer.todo = {}

LEMMA HandlesStep == Inv /\ HandlesStored /\ [Next]_vars => HandlesStored'
  <1>. SUFFICES ASSUME Inv, HandlesStored, [Next]_vars PROVE HandlesStored'
    OBVIOUS
  <1>0. Approver \in Threads /\ Approver \notin Callers /\ Callers \subseteq Threads
    BY ApproverAssumption DEF Threads
  <1>1. CASE Calm /\ Kept
    <2>1. thread'[Approver].at \notin Starting
      BY <1>0, <1>1 DEF Calm, CalmThreads, HandlesStored, Starting
    <2>2. \A r \in Runs : worker'[r].at = "none" <=> worker[r].at = "none"
      BY <1>1, Places DEF Calm, CalmWorkers
    <2>. QED
      BY <1>0, <1>1, <2>1, <2>2 DEF HandlesStored, Kept
  <1>2. ASSUME NEW t \in Callers, NEW r \in Runs, NEW q \in Requests, Acquire(t, r, q)
        PROVE  HandlesStored'
    <2>1. /\ worker' = worker /\ worker[r].at = "none" /\ thread[t].at = "idle"
          /\ \A s \in Runs \ {r} : run'[s] = run[s]
          /\ \A u \in Threads \ {t} : thread'[u] = thread[u]
      BY <1>2, AcquireStep
    <2>. QED
      BY <1>0, <2>1 DEF HandlesStored
  <1>3. ASSUME NEW t \in Callers, Admit(t)
        PROVE  HandlesStored'
    <2>1. /\ worker' = worker /\ worker[thread[t].run].at = "none" /\ thread[t].at = "admitting"
          /\ \A s \in Runs \ {thread[t].run} : run'[s] = run[s]
          /\ \A u \in Threads \ {t} : thread'[u] = thread[u]
      BY <1>3, AdmitStep
    <2>. QED
      BY <1>0, <2>1 DEF HandlesStored
  <1>4. ASSUME NEW t \in Callers, Spawn(t)
        PROVE  HandlesStored'
    <2>. DEFINE r == thread[t].run
    <2>1. /\ thread[t].at = "spawning" /\ worker[r].at = "none"
          /\ \A u \in Threads \ {t} : thread'[u] = thread[u]
          /\ \A s \in Runs \ {r} : run'[s] = run[s] /\ worker'[s] = worker[s]
      BY <1>4, SpawnStep
    <2>2. worker' = worker \/ (thread'[t].at = "storing" /\ thread'[t].run = r)
      BY <1>4, SpawnStep
    <2>. HIDE DEF r
    <2>. QED
      BY <1>0, <2>1, <2>2 DEF HandlesStored
  <1>5. ASSUME NEW r \in Runs, SetOutcome(r)
        PROVE  HandlesStored'
    <2>1. \A s \in Runs : run'[s].handle = run[s].handle
      BY <1>5, InvTyped DEF SetOutcome, Typed, RunRecord
    <2>2. thread' = thread /\ \A s \in Runs : worker'[s].at # "none" => worker[s].at # "none"
      BY <1>5, SetOutcomeStep
    <2>. QED
      BY <2>1, <2>2 DEF HandlesStored
  <1>6. CASE OwnerDies
    BY <1>0, <1>6, NoRunShape DEF OwnerDies, HandlesStored, Starting
  <1>. QED
    BY <1>1, <1>2, <1>3, <1>4, <1>5, <1>6, KeptSteps

(* The closer moves in steps of its own, or with the owner's death.         *)
LEMMA CloserMoves ==
    ASSUME [Next]_vars
    PROVE  \/ UNCHANGED <<closer, shutdown, missed>>
           \/ UNCHANGED <<worker, thread>> /\
                 (ShutdownFlags \/ ShutdownCollects \/ ShutdownJoins \/ ShutdownReturns
                    \/ \E r \in Runs : ShutdownSignals(r) \/ ShutdownReaps(r))
           \/ OwnerDies
  <1>1. CASE \E t \in Callers : CallerSteps(t)
    BY <1>1 DEF CallerSteps, Admit, Persist, Spawn, StoreHandle, AnswerLocks, AnswerMatches,
                AnswerDelivers, CancelTells
  <1>2. CASE ApproverSteps
    BY <1>2 DEF ApproverSteps, ApproveClears, ApproveDelivers, ApproveResumes, CancelTells
  <1>3. CASE CloserSteps \/ ShutdownFlags
    BY <1>3 DEF CloserSteps, ShutdownFlags, ShutdownCollects, ShutdownJoins, ShutdownReturns,
                ShutdownSignals, ShutdownReaps
  <1>4. CASE Calls /\ ~ShutdownFlags
    BY <1>4 DEF Calls, AnswerReads, Acquire, ApproveReads, CancelMarks
  <1>5. CASE \E r \in Runs : WorkerSteps(r)
    BY <1>5 DEF WorkerSteps, MarkRunning, GiveUp, TakeResponse, Unwind, ReadOutcome, SetOutcome,
                Announce, RecordCompleted, Release
  <1>6. CASE \E r \in Runs : Provider(r) \/ Expire(r) \/ Reconcile(r) \/ ReconcileEvent(r)
    BY <1>6 DEF Provider, Return, Ask, Expire, Reconcile, ReconcileEvent
  <1>. QED
    BY <1>1, <1>2, <1>3, <1>4, <1>5, <1>6 DEF Next, vars

LEMMA ShutdownStep == Inv /\ HandlesStored /\ ShutdownKeepsCount /\ [Next]_vars => ShutdownKeepsCount'
  <1>. SUFFICES ASSUME Inv, HandlesStored, ShutdownKeepsCount, [Next]_vars
                PROVE  ShutdownKeepsCount'
    OBVIOUS
  <1>0. Callers \subseteq Threads
    BY DEF Threads
  <1>1. CASE UNCHANGED <<closer, shutdown, missed>> /\ ~OwnerDies
    <2>1. closer.at \in Collected => shutdown
      BY DEF ShutdownKeepsCount, Collected
    (* Nobody starts once the flag is up: who is starting was already.       *)
    <2>2. shutdown => \A t \in Callers : thread'[t].at \in Starting =>
              thread[t].at \in Starting /\ thread'[t].run = thread[t].run
      <3>. SUFFICES ASSUME shutdown, NEW t \in Callers, thread'[t].at \in Starting
                    PROVE  thread[t].at \in Starting /\ thread'[t].run = thread[t].run
        OBVIOUS
      <3>1. CASE Calm
        BY <1>0, <3>1 DEF Calm, CalmThreads, Starting
      <3>2. CASE \E u \in Callers : Admit(u) \/ Spawn(u)
        BY <1>0, <3>2, AdmitStep, SpawnStep, NoRunShape, StartingPlaces
      <3>3. CASE \E r \in Runs : SetOutcome(r)
        BY <3>3, SetOutcomeStep
      <3>4. ~ \E u \in Callers, r \in Runs, q \in Requests : Acquire(u, r, q)
        BY DEF Acquire
      <3>. QED
        BY <1>1, <3>1, <3>2, <3>3, <3>4, KeptSteps
    (* A worker is spawned by who was starting; one that is done stays so.   *)
    <2>3. \A r \in Runs :
              /\ worker'[r].at # "none" => worker[r].at # "none" \/
                     \E t \in Callers : thread[t].at \in Starting /\ thread[t].run = r
              /\ worker[r].at = "done" => worker'[r].at = "done"
      <3>. SUFFICES ASSUME NEW r \in Runs
                    PROVE  /\ worker'[r].at # "none" => worker[r].at # "none" \/
                                  \E t \in Callers : thread[t].at \in Starting /\ thread[t].run = r
                           /\ worker[r].at = "done" => worker'[r].at = "done"
        OBVIOUS
      <3>1. CASE Calm /\ Kept
        BY <3>1, Places DEF Calm, CalmWorkers, Kept
      <3>2. CASE \E t \in Callers, s \in Runs, q \in Requests : Acquire(t, s, q)
        BY <3>2 DEF Acquire
      <3>3. ASSUME NEW t \in Callers, Admit(t) \/ Spawn(t)
            PROVE  /\ worker'[r].at # "none" => worker[r].at # "none"
                                                \/ (thread[t].at \in Starting /\ thread[t].run = r)
                   /\ worker[r].at = "done" => worker'[r].at = "done"
        <4>. DEFINE x == thread[t].run
        <4>1. /\ worker[x].at = "none" /\ thread[t].at \in Starting
              /\ \A s \in Runs \ {x} : worker'[s] = worker[s]
          BY <3>3, AdmitStep, SpawnStep, StartingPlaces
        <4>. QED
          BY <4>1
      <3>4. CASE \E s \in Runs : SetOutcome(s)
        BY <3>4, SetOutcomeStep
      <3>. QED
        BY <1>1, <3>1, <3>2, <3>3, <3>4, KeptSteps
    <2>4. (closer.at # "idle" => shutdown)' /\ (closer.at = "done" => closer.todo = {})'
      BY <1>1 DEF ShutdownKeepsCount
    <2>5. ASSUME closer.at \in Collected, NEW t \in Callers, thread'[t].at \in Starting
          PROVE  thread'[t].run \in missed
      BY <2>1, <2>2, <2>5 DEF ShutdownKeepsCount
    <2>6. ASSUME closer.at \in Collected, NEW r \in Runs, worker'[r].at # "none"
          PROVE  r \in closer.all \cup missed
      BY <2>3, <2>6 DEF ShutdownKeepsCount
    <2>7. ASSUME closer.at \in {"joining", "done"}, NEW r \in Runs, r \in closer.all \ closer.todo
          PROVE  worker'[r].at \in {"none", "done"} \/ r \in missed
      BY <2>3, <2>7 DEF ShutdownKeepsCount, Collected
    <2>8. closer.all \subseteq Runs
      BY DEF Inv, TypeOK, Closer
    <2>. QED
      BY <1>1, <2>4, <2>5, <2>6, <2>7, <2>8 DEF ShutdownKeepsCount
  <1>2. CASE UNCHANGED <<worker, thread>> /\ ShutdownFlags
    BY <1>2 DEF ShutdownFlags, ShutdownKeepsCount, Collected, Inv, TypeOK, Closer
  <1>3. CASE UNCHANGED <<worker, thread>> /\ ShutdownCollects
    <2>1. \A r \in Runs : worker[r].at # "none" => r \in Accepted
      BY Staffed DEF Accepted
    <2>. QED
      BY <1>3, <2>1 DEF ShutdownCollects, ShutdownKeepsCount, Collected
  <1>4. CASE UNCHANGED <<worker, thread>> /\ ShutdownJoins
    BY <1>4 DEF ShutdownJoins, ShutdownKeepsCount, Collected, Inv, TypeOK, Closer
  <1>5. CASE UNCHANGED <<worker, thread>> /\ ShutdownReturns
    BY <1>5 DEF ShutdownReturns, ShutdownKeepsCount, Collected, Inv, TypeOK, Closer
  <1>6. ASSUME NEW r \in Runs, UNCHANGED <<worker, thread>>, ShutdownSignals(r)
        PROVE  ShutdownKeepsCount'
    BY <1>6 DEF ShutdownSignals, ShutdownKeepsCount, Collected, Inv, TypeOK, Closer
  <1>7. ASSUME NEW r \in Runs, UNCHANGED <<worker, thread>>, ShutdownReaps(r)
        PROVE  ShutdownKeepsCount'
    (* Without a handle, the run is being started: it was when records were  *)
    (* collected.                                                            *)
    <2>1. worker[r].at \in {"none", "done"} \/ r \in missed
      BY <1>7, StartingPlaces DEF ShutdownReaps, HandlesStored, ShutdownKeepsCount, Collected, Starting
    <2>. QED
      BY <1>7, <2>1 DEF ShutdownReaps, ShutdownKeepsCount, Collected, Inv, TypeOK, Closer
  <1>8. CASE OwnerDies
    BY <1>8 DEF OwnerDies, ShutdownKeepsCount, Collected, NoCloser
  <1>. QED
    BY <1>1, <1>2, <1>3, <1>4, <1>5, <1>6, <1>7, <1>8, CloserMoves

(* When shutdown returns, no worker of the manager runs but those of runs   *)
(* that were on their way in when it collected the records, whatever starts *)
(* and handles the callers were storing meanwhile.                          *)
THEOREM ShutdownReapsAll == Spec => []ShutdownLeavesNobody
  <1>1. Init => HandlesStored /\ ShutdownKeepsCount
    BY NoRunShape DEF Init, HandlesStored, ShutdownKeepsCount, NoCloser, Collected, Starting, Threads
  <1>2. Inv /\ HandlesStored /\ ShutdownKeepsCount => ShutdownLeavesNobody
    BY DEF ShutdownKeepsCount, ShutdownLeavesNobody, Collected
  <1>. QED
    BY <1>1, <1>2, HandlesStep, ShutdownStep, InvHolds, PTL DEF Spec

-----------------------------------------------------------------------------
(* Endings.                                                                 *)

(* A stream gets its ending once, with the outcome of the run.              *)
Announced == {"recording", "releasing", "done"}
EndingsMatchRows ==
    /\ \A r \in Runs :
           /\ events[r] # <<>> => \E o \in Outcomes : events[r] = <<o>>
           /\ row[r] = "none" => events[r] = <<>>
           /\ row[r] = "ended" => events[r] # <<>>
           /\ worker[r].at \in Announced => events[r] = <<run[r].state>>
           /\ up /\ events[r] # <<>> => worker[r].at \in Announced \/ (worker[r].at = "none" /\ row[r] = "ended")
           /\ worker[r].at # "none" => row[r] # "none"
           /\ ~up => worker[r].at = "none"
    /\ \A t \in Threads :
           /\ ~up => thread[t].at = "idle"
           /\ thread[t].at \in {"admitting", "persisting"} => row[thread[t].run] = "none"
           /\ thread[t].at = "spawning" => row[thread[t].run] = "active"

(* A step that neither starts a run, nor ends one, nor writes a row.        *)
Quiet ==
    /\ UNCHANGED <<up, row, events>> /\ (up \/ UNCHANGED thread)
    /\ \A r \in Runs : /\ worker'[r].at \in Announced <=> worker[r].at \in Announced
                       /\ worker'[r].at = "none" <=> worker[r].at = "none"
    /\ \A t \in Threads :
           /\ thread'[t].at \in {"admitting", "persisting"} =>
                  thread[t].at \in {"admitting", "persisting"} /\ thread'[t].run = thread[t].run
           /\ thread'[t].at = "spawning" =>
                  thread[t].at = "spawning" /\ thread'[t].run = thread[t].run

LEMMA AnnouncedPlaces ==
    /\ Announced \subseteq Over
    /\ Announced \cap (Alive \cup {"none", "announcing"}) = {}
  BY DEF Announced, Over, Alive

LEMMA QuietSteps ==
    ASSUME Inv, [Next]_vars
    PROVE  \/ Quiet
           \/ \E t \in Callers, r \in Runs, q \in Requests : Acquire(t, r, q)
           \/ \E t \in Callers : Persist(t) \/ Spawn(t)
           \/ \E r \in Runs : Announce(r) \/ RecordCompleted(r)
           \/ OwnerDies
           \/ \E r \in Runs : Reconcile(r) \/ ReconcileEvent(r)
  <1>. USE InvTyped, AnnouncedPlaces
  <1>1. CASE UNCHANGED vars
    BY <1>1 DEF vars, Quiet
  <1>2. ASSUME NEW t \in Callers, CallerSteps(t) PROVE Quiet \/ Persist(t) \/ Spawn(t)
    <2>0. t \in Threads
      BY DEF Threads
    <2>1. Admit(t) => Quiet
      BY <2>0, AdmitStep, NoRunShape DEF At, Idle, Admit, Quiet
    <2>2. StoreHandle(t) \/ AnswerDelivers(t) \/ CancelTells(t) => Quiet
      BY <2>0 DEF At, Idle, StoreHandle, AnswerDelivers, CancelTells, Quiet, Typed, Returns, NoCall
    <2>3. AnswerLocks(t) \/ AnswerMatches(t) => Quiet
      BY <2>0 DEF At, Idle, AnswerLocks, AnswerMatches, Quiet, Typed, Call, Goes, Returns, NoCall
    <2>. QED
      BY <1>2, <2>1, <2>2, <2>3 DEF CallerSteps
  <1>3. CASE ApproverSteps
    <2>0. Approver \in Threads
      BY DEF Threads
    <2>1. ApproveClears \/ ApproveDelivers => Quiet
      BY <2>0 DEF At, Idle, ApproveClears, ApproveDelivers, Quiet, Typed, Call, Goes
    <2>2. ApproveResumes \/ CancelTells(Approver) => Quiet
      BY <2>0 DEF At, Idle, ApproveResumes, CancelTells, Quiet, Typed, Returns, NoCall
    <2>. QED
      BY <1>3, <2>1, <2>2 DEF ApproverSteps
  <1>4. CASE CloserSteps \/ ShutdownFlags
    BY <1>4 DEF CloserSteps, ShutdownFlags, ShutdownCollects, ShutdownJoins, ShutdownReturns,
                ShutdownSignals, ShutdownReaps, Quiet
  <1>5. CASE Calls /\ ~ShutdownFlags /\ ~ \E t \in Callers, r \in Runs, q \in Requests : Acquire(t, r, q)
    <2>1. Approver \in Threads /\ Callers \subseteq Threads
      BY DEF Threads
    <2>. QED
      BY <1>5, <2>1 DEF Idle, Calls, AnswerReads, ApproveReads, CancelMarks, Quiet, Typed
  <1>6. ASSUME NEW r \in Runs, WorkerSteps(r) PROVE Quiet \/ Announce(r) \/ RecordCompleted(r)
    <2>1. MarkRunning(r) \/ GiveUp(r) => Quiet
      BY DEF At, Idle, MarkRunning, GiveUp, Quiet, Typed, Worker, Works, Ends, Announced
    <2>2. TakeResponse(r) \/ Unwind(r) => Quiet
      BY DEF At, Idle, TakeResponse, Unwind, Quiet, Typed, Worker, Works, Ends, Announced
    <2>3. ReadOutcome(r) \/ SetOutcome(r) => Quiet
      BY DEF At, Idle, ReadOutcome, SetOutcome, Quiet, Typed, Worker, Works, Ends, Announced
    <2>4. Release(r) => Quiet
      BY DEF At, Idle, Release, Quiet, Typed, Worker, Works, Announced
    <2>. QED
      BY <1>6, <2>1, <2>2, <2>3, <2>4 DEF WorkerSteps
  <1>7. ASSUME NEW r \in Runs, Provider(r) \/ Expire(r) PROVE Quiet
    BY <1>7 DEF Provider, Return, Ask, Expire, Quiet, Typed, Worker, Works, Ends, Announced
  <1>. QED
    BY <1>1, <1>2, <1>3, <1>4, <1>5, <1>6, <1>7 DEF Next, Calls

LEMMA EndingsStep == Inv /\ EndingsMatchRows /\ [Next]_vars => EndingsMatchRows'
  <1>. SUFFICES ASSUME Inv, EndingsMatchRows, [Next]_vars PROVE EndingsMatchRows'
    OBVIOUS
  <1>. DEFINE Ending(r, e, w, f, s, u) ==
              /\ e # <<>> => \E o \in Outcomes : e = <<o>>
              /\ f = "none" => e = <<>>
              /\ f = "ended" => e # <<>>
              /\ w \in Announced => e = <<s>>
              /\ u /\ e # <<>> => w \in Announced \/ (w = "none" /\ f = "ended")
              /\ w # "none" => f # "none"
              /\ ~u => w = "none"
  <1>. DEFINE Entry(at, f, u) ==
                              /\ ~u => at = "idle"
                              /\ at \in {"admitting", "persisting"} => f = "none"
                              /\ at = "spawning" => f = "active"
  <1>a. /\ \A r \in Runs : Ending(r, events[r], worker[r].at, row[r], run[r].state, up)
        /\ \A t \in Threads : Entry(thread[t].at, row[thread[t].run], up)
    BY DEF EndingsMatchRows
  <1>b. SUFFICES /\ \A r \in Runs : Ending(r, events'[r], worker'[r].at, row'[r], run'[r].state, up')
                 /\ \A t \in Threads : Entry(thread'[t].at, row'[thread'[t].run], up')
    BY Zenon DEF EndingsMatchRows
  <1>c. /\ Typed /\ row \in [Runs -> {"none", "active", "ended", "orphaned"}]
        /\ events \in [Runs -> Seq(Outcomes)]
    BY DEF Inv, TypeOK, Typed
  <1>d. \A t \in Threads : thread[t].at # "idle" => thread[t].run \in Runs
    BY DEF Inv, StartsMatchStates
  <1>1. CASE Quiet
    <2>1. \A r \in Runs : worker[r].at \in Announced /\ up' => run'[r].state = run[r].state
      BY OutcomeStep, AnnouncedPlaces DEF Inv, WorkersMatchStates
    <2>2. \A r \in Runs : Ending(r, events'[r], worker'[r].at, row'[r], run'[r].state, up')
      BY <1>1, <1>a, <2>1, AnnouncedPlaces DEF Quiet
    <2>3. \A t \in Threads : Entry(thread'[t].at, row'[thread'[t].run], up')
      BY <1>1, <1>a DEF Quiet
    <2>. QED
      BY <2>2, <2>3
  <1>2. ASSUME NEW t \in Callers, NEW r \in Runs, NEW q \in Requests, Acquire(t, r, q)
        PROVE  /\ \A s \in Runs : Ending(s, events'[s], worker'[s].at, row'[s], run'[s].state, up')
               /\ \A u \in Threads : Entry(thread'[u].at, row'[thread'[u].run], up')
    <2>0. worker' = worker /\ worker[r].at = "none" /\ \A s \in Runs \ {r} : run'[s] = run[s]
      BY <1>2, AcquireStep
    <2>1. UNCHANGED <<row, events, up>> /\ up
      BY <1>2 DEF Acquire, Idle
    <2>2. /\ row[r] = "none" /\ t \in Threads /\ thread'[t].at = "admitting" /\ thread'[t].run = r
          /\ \A u \in Threads \ {t} : thread'[u] = thread[u]
      <3>1. row[r] = "none"
        BY <1>2 DEF Acquire, Fresh, Used
      <3>. QED
        BY <1>2, <3>1, AcquireStep
    <2>3. \A s \in Runs : Ending(s, events'[s], worker'[s].at, row'[s], run'[s].state, up')
      BY <1>a, <2>0, <2>1, AnnouncedPlaces
    <2>4. \A u \in Threads : Entry(thread'[u].at, row'[thread'[u].run], up')
      BY <1>a, <2>1, <2>2
    <2>. QED
      BY <2>3, <2>4
  <1>3. ASSUME NEW t \in Callers, Persist(t)
        PROVE  /\ \A s \in Runs : Ending(s, events'[s], worker'[s].at, row'[s], run'[s].state, up')
               /\ \A u \in Threads : Entry(thread'[u].at, row'[thread'[u].run], up')
    <2>. DEFINE r == thread[t].run
    <2>1. /\ t \in Threads /\ thread[t].at = "persisting" /\ r \in Runs /\ row[r] = "none"
          /\ \A u \in Threads \ {t} : ~(thread[u].at \in Starting /\ thread[u].run = r)
      BY <1>3, <1>a, <1>d, StartingPlaces DEF Persist, At, Threads, Inv, StartsMatchStates
    <2>2. /\ UNCHANGED <<up, run, worker, events>>
          /\ \A s \in Runs : row'[s] = IF s = r THEN "active" ELSE row[s]
      BY <1>3, <1>c DEF Persist
    <2>3. /\ thread'[t].at = "spawning" /\ thread'[t].run = r
          /\ \A u \in Threads \ {t} : thread'[u] = thread[u]
      BY <1>3, <1>c, <2>1 DEF Persist, Goes, Typed, Call
    <2>. HIDE DEF r
    <2>4. \A s \in Runs : Ending(s, events'[s], worker'[s].at, row'[s], run'[s].state, up')
      BY <1>a, <2>1, <2>2
    <2>5. \A u \in Threads : Entry(thread'[u].at, row'[thread'[u].run], up')
      <3>1. \A u \in Threads \ {t} : thread[u].at \in {"admitting", "persisting", "spawning"} =>
                thread[u].run # r /\ thread[u].run \in Runs
        BY <1>d, <2>1, StartingPlaces
      <3>. QED
        BY <1>a, <2>1, <2>2, <2>3, <3>1
    <2>. QED
      BY <2>4, <2>5
  <1>4. ASSUME NEW t \in Callers, Spawn(t)
        PROVE  /\ \A s \in Runs : Ending(s, events'[s], worker'[s].at, row'[s], run'[s].state, up')
               /\ \A u \in Threads : Entry(thread'[u].at, row'[thread'[u].run], up')
    <2>. DEFINE r == thread[t].run
    <2>1. /\ t \in Threads /\ thread[t].at = "spawning" /\ r \in Runs /\ worker[r].at = "none"
          /\ \A u \in Threads \ {t} : ~(thread[u].at \in Starting /\ thread[u].run = r)
          /\ \A u \in Threads \ {t} : thread'[u] = thread[u]
          /\ \A s \in Runs \ {r} : run'[s] = run[s] /\ worker'[s] = worker[s]
      BY <1>4, SpawnStep
    <2>2. up /\ up' = up /\ row[r] = "active" /\ events[r] = <<>>
      <3>1. up /\ up' = up
        BY <1>4 DEF Spawn, At
      <3>2. row[r] = "active"
        BY <1>a, <2>1
      <3>. QED
        BY <1>a, <2>1, <3>1, <3>2, AnnouncedPlaces
    <2>3. \A u \in Threads \ {t} : thread[u].at \in {"admitting", "persisting", "spawning"} =>
              thread[u].run # r /\ thread[u].run \in Runs
      BY <1>d, <2>1, StartingPlaces
    <2>4. CASE /\ worker'[r].at = "born" /\ thread'[t].at = "storing"
               /\ row' = row /\ events' = events
      <3>1. "born" \notin Announced
        BY DEF Announced
      <3>. QED
        BY <1>a, <2>1, <2>2, <2>4, <3>1
    <2>5. CASE /\ worker' = worker /\ thread'[t] = NoCall
               /\ Push(r, "failed") /\ row' = [row EXCEPT ![r] = "ended"]
      <3>1. \A s \in Runs : row'[s] = IF s = r THEN "ended" ELSE row[s]
        BY <1>c, <2>5
      <3>2. "failed" \in Outcomes /\ events'[r] = <<"failed">>
            /\ \A s \in Runs \ {r} : events'[s] = events[s]
        BY <1>c, <2>1, <2>2, <2>5, Names DEF Push
      <3>3. thread'[t].at = "idle"
        BY <2>5, NoRunShape
      <3>. HIDE DEF r
      <3>4. \A s \in Runs : Ending(s, events'[s], worker'[s].at, row'[s], run'[s].state, up')
        BY <1>a, <2>1, <2>2, <2>5, <3>1, <3>2, AnnouncedPlaces
      <3>5. \A u \in Threads : Entry(thread'[u].at, row'[thread'[u].run], up')
        BY <1>a, <2>1, <2>2, <2>3, <3>1, <3>3
      <3>. QED
        BY <3>4, <3>5
    <2>. QED
      BY <1>4, <2>4, <2>5, SpawnStep
  <1>5. ASSUME NEW r \in Runs, Announce(r)
        PROVE  /\ \A s \in Runs : Ending(s, events'[s], worker'[s].at, row'[s], run'[s].state, up')
               /\ \A u \in Threads : Entry(thread'[u].at, row'[thread'[u].run], up')
    <2>1. /\ worker[r].at = "announcing" /\ up /\ UNCHANGED <<up, run, thread, row>>
          /\ worker'[r].at = "recording" /\ \A s \in Runs \ {r} : worker'[s] = worker[s]
      BY <1>5, <1>c DEF Announce, Works, Typed, Worker
    <2>2. run[r].state \in Outcomes
      BY <2>1 DEF Inv, WorkersMatchStates, Over, Terminal
    <2>3. events[r] = <<>>
      BY <1>a, <2>1, AnnouncedPlaces
    <2>4. events'[r] = <<run[r].state>> /\ \A s \in Runs \ {r} : events'[s] = events[s]
      BY <1>5, <1>c, <2>2, <2>3 DEF Announce, Push
    <2>5. "recording" \in Announced /\ row[r] # "none"
      BY <1>a, <2>1 DEF Announced
    <2>. QED
      BY <1>a, <2>1, <2>2, <2>4, <2>5
  <1>6. ASSUME NEW r \in Runs, RecordCompleted(r)
        PROVE  /\ \A s \in Runs : Ending(s, events'[s], worker'[s].at, row'[s], run'[s].state, up')
               /\ \A u \in Threads : Entry(thread'[u].at, row'[thread'[u].run], up')
    <2>1. /\ worker[r].at = "recording" /\ UNCHANGED <<up, run, thread, events>>
          /\ worker'[r].at = "releasing" /\ \A s \in Runs \ {r} : worker'[s] = worker[s]
      BY <1>6, <1>c DEF RecordCompleted, Works, Typed, Worker
    <2>2. \A s \in Runs : row'[s] = IF s = r THEN "ended" ELSE row[s]
      BY <1>6, <1>c DEF RecordCompleted
    <2>3. "recording" \in Announced /\ "releasing" \in Announced
      BY DEF Announced
    <2>4. \A u \in Threads : thread[u].at \in {"admitting", "persisting", "spawning"} =>
              thread[u].run # r /\ thread[u].run \in Runs
      BY <1>d, <2>1 DEF Inv, StartsMatchStates
    <2>5. \A s \in Runs : Ending(s, events'[s], worker'[s].at, row'[s], run'[s].state, up')
      BY <1>a, <2>1, <2>2, <2>3
    <2>6. \A u \in Threads : Entry(thread'[u].at, row'[thread'[u].run], up')
      BY <1>a, <2>1, <2>2, <2>4
    <2>. QED
      BY <2>5, <2>6
  <1>7. CASE OwnerDies
    <2>1. /\ up' = FALSE /\ UNCHANGED <<row, events>>
          /\ \A s \in Runs : worker'[s].at = "none" /\ \A u \in Threads : thread'[u].at = "idle"
      BY <1>7, NoRunShape DEF OwnerDies
    <2>2. \A s \in Runs : Ending(s, events'[s], worker'[s].at, row'[s], run'[s].state, up')
      BY <1>a, <2>1, AnnouncedPlaces
    <2>3. \A u \in Threads : thread'[u].at = "idle"
      BY <1>7, NoRunShape DEF OwnerDies
    <2>. QED
      BY <2>2, <2>3
  <1>8. ASSUME NEW r \in Runs, Reconcile(r) \/ ReconcileEvent(r)
        PROVE  /\ \A s \in Runs : Ending(s, events'[s], worker'[s].at, row'[s], run'[s].state, up')
               /\ \A u \in Threads : Entry(thread'[u].at, row'[thread'[u].run], up')
    <2>1. ~up /\ UNCHANGED <<up, run, worker, thread>>
      BY <1>8 DEF Reconcile, ReconcileEvent
    <2>2. \A u \in Threads : thread[u].at = "idle"
      BY <1>a, <2>1
    <2>3. CASE Reconcile(r)
      <3>1. row[r] = "active" /\ \A s \in Runs : row'[s] = IF s = r THEN "orphaned" ELSE row[s]
        BY <1>c, <2>3 DEF Reconcile
      <3>. QED
        BY <1>a, <2>1, <2>2, <2>3, <3>1 DEF Reconcile
    <2>4. CASE ReconcileEvent(r)
      <3>1. row' = row /\ row[r] = "orphaned" /\ "failed" \in Outcomes
        BY <2>4, Names DEF ReconcileEvent
      <3>2. events[r] = <<>>
        <4>. SUFFICES ASSUME NEW o \in Outcomes, events[r] = <<o>> PROVE FALSE
          BY <1>a
        <4>. QED
          BY <2>4 DEF ReconcileEvent, HasEnding
      <3>3. events'[r] = <<"failed">> /\ \A s \in Runs \ {r} : events'[s] = events[s]
        BY <1>c, <2>4, <3>1, <3>2 DEF ReconcileEvent, Push
      <3>4. worker[r].at = "none"
        BY <1>a, <2>1
      <3>. QED
        BY <1>a, <2>1, <2>2, <3>1, <3>3, <3>4, AnnouncedPlaces
    <2>. QED
      BY <1>8, <2>3, <2>4
  <1>. QED
    BY <1>1, <1>2, <1>3, <1>4, <1>5, <1>6, <1>7, <1>8, QuietSteps

-----------------------------------------------------------------------------
(* Requests and answers.                                                    *)

(* The request a run waits for is the last it made, and has no answer yet;  *)
(* a host that holds its locks answers that one.                            *)
Stopped == {"waiting", "unwinding", "completing", "outcome"} \cup Over
RequestsMatchAnswers ==
    /\ \A r \in Runs :
           /\ run[r].pending # None =>
                  /\ worker[r].at \in {"waiting", "unwinding", "completing"}
                  /\ run[r].pending.id = run[r].asks /\ run[r].response = 0
                  /\ run[r].pending.kind = run[r].request.asks
           /\ worker[r].at = "waiting" => run[r].response \in {0, run[r].asks}
    /\ \A t \in Threads :
           /\ thread[t].at \in {"locked", "matched"} =>
                  \A u \in Threads : thread[u].at \in {"locked", "matched"}
                                       /\ thread[u].run = thread[t].run => u = t
           /\ thread[t].at = "matched" =>
                  run[thread[t].run].pending # None /\ run[thread[t].run].pending.id = thread[t].id
           /\ thread[t].at \in {"answering", "locked", "matched"} =>
                  t \in Callers /\ run[thread[t].run].request.asks = "input"
           /\ thread[t].at \in {"approving", "approved", "resuming"} => t = Approver
           /\ thread[t].at \in {"approving", "approved"} =>
                  /\ run[thread[t].run].request.asks = "approval"
                  /\ thread[t].id = run[thread[t].run].asks
                  /\ worker[thread[t].run].at \in Stopped
                  /\ run[thread[t].run].response = 0
           /\ thread[t].at = "approved" => run[thread[t].run].pending = None

LEMMA StoppedPlaces ==
    /\ {"waiting", "unwinding", "completing", "outcome"} \cup Over \subseteq Stopped
    /\ Over \subseteq Stopped /\ Stopped \cap {"none", "born", "executing"} = {}
  BY DEF Stopped, Over

LEMMA RequestsStep == Inv /\ RequestsMatchAnswers /\ [Next]_vars => RequestsMatchAnswers'
  <1>. SUFFICES ASSUME Inv, RequestsMatchAnswers, [Next]_vars PROVE RequestsMatchAnswers'
    OBVIOUS
  <1>0. Typed
    BY InvTyped
  <1>a. Approver \in Threads /\ Approver \notin Callers /\ Callers \subseteq Threads
    BY ApproverAssumption DEF Threads
  <1>b. \A t \in Threads : thread[t].at # "idle" => thread[t].run \in Runs
    BY DEF Inv, StartsMatchStates
  <1>1. CASE UNCHANGED vars
    BY <1>1 DEF vars, RequestsMatchAnswers
  <1>2. ASSUME NEW t \in Callers, Persist(t) PROVE RequestsMatchAnswers'
    BY <1>0, <1>a, <1>2 DEF Persist, RequestsMatchAnswers, Typed, Call, Goes
  <1>3. ASSUME NEW t \in Callers, StoreHandle(t) PROVE RequestsMatchAnswers'
    BY <1>0, <1>a, <1>b, <1>3, NoRunShape DEF StoreHandle, RequestsMatchAnswers, Typed, RunRecord, Returns, At
  <1>4. ASSUME NEW t \in Callers, AnswerLocks(t) PROVE RequestsMatchAnswers'
    <2>1. CASE Returns(t)
      BY <1>0, <1>a, <1>b, <1>4, <2>1, NoRunShape DEF AnswerLocks, RequestsMatchAnswers, Typed, Returns, At
    <2>2. CASE Goes(t, "locked")
      <3>1. /\ thread[t].at = "answering" /\ UNCHANGED <<run, worker>>
            /\ \A u \in Threads : thread[u].run = thread[t].run => thread[u].at \notin {"locked", "matched"}
        BY <1>4 DEF AnswerLocks, At, HoldsMetadata
      <3>2. \A u \in Threads : thread'[u] = IF u = t THEN [thread[t] EXCEPT !.at = "locked"] ELSE thread[u]
        BY <1>0, <1>a, <2>2 DEF Goes, Typed
      <3>3. thread'[t].at = "locked" /\ thread'[t].run = thread[t].run
        BY <1>0, <1>a, <3>2 DEF Typed, Call
      <3>. QED
        BY <1>a, <1>b, <3>1, <3>2, <3>3 DEF RequestsMatchAnswers
    <2>. QED
      BY <1>4, <2>1, <2>2 DEF AnswerLocks
  <1>5. ASSUME NEW t \in Callers, AnswerMatches(t) PROVE RequestsMatchAnswers'
    BY <1>0, <1>a, <1>b, <1>5, NoRunShape
    DEF AnswerMatches, RequestsMatchAnswers, Typed, Call, Goes, Returns, At
  <1>6. ASSUME NEW t \in Callers, AnswerDelivers(t) PROVE RequestsMatchAnswers'
    BY <1>0, <1>a, <1>b, <1>6, NoRunShape
    DEF AnswerDelivers, RequestsMatchAnswers, Typed, Call, RunRecord, Returns, At
  <1>7. ASSUME NEW t \in Threads, CancelTells(t) PROVE RequestsMatchAnswers'
    BY <1>0, <1>a, <1>b, <1>7, NoRunShape
    DEF CancelTells, RequestsMatchAnswers, Typed, Call, RunRecord, Returns, At, HoldsPending
  <1>8. CASE ApproveClears
    BY <1>0, <1>a, <1>b, <1>8
    DEF ApproveClears, RequestsMatchAnswers, Typed, Call, RunRecord, Goes, At, HoldsPending
  <1>9. CASE ApproveDelivers
    BY <1>0, <1>a, <1>b, <1>9
    DEF ApproveDelivers, RequestsMatchAnswers, Typed, Call, RunRecord, Goes, At, HoldsPending
  <1>10. CASE ApproveResumes
    BY <1>0, <1>a, <1>b, <1>10, NoRunShape
    DEF ApproveResumes, RequestsMatchAnswers, Typed, Call, RunRecord, Returns, At
  <1>11. CASE ShutdownFlags \/ ShutdownCollects \/ ShutdownJoins \/ ShutdownReturns
    BY <1>11 DEF ShutdownFlags, ShutdownCollects, ShutdownJoins, ShutdownReturns, RequestsMatchAnswers
  <1>12. ASSUME NEW r \in Runs, ShutdownReaps(r) PROVE RequestsMatchAnswers'
    BY <1>12 DEF ShutdownReaps, RequestsMatchAnswers
  <1>13. ASSUME NEW r \in Runs, ShutdownSignals(r) PROVE RequestsMatchAnswers'
    BY <1>0, <1>b, <1>13 DEF ShutdownSignals, RequestsMatchAnswers, Typed, RunRecord
  <1>14. ASSUME NEW t \in Callers, NEW r \in Runs, AnswerReads(t, r) PROVE RequestsMatchAnswers'
    BY <1>0, <1>a, <1>b, <1>14 DEF AnswerReads, RequestsMatchAnswers, Typed, RunRecord, Call, Idle
  <1>15. ASSUME NEW r \in Runs, ApproveReads(r) PROVE RequestsMatchAnswers'
    BY <1>0, <1>a, <1>b, <1>15, StoppedPlaces DEF ApproveReads, RequestsMatchAnswers, Typed, RunRecord, Call, Idle
  <1>16. ASSUME NEW t \in Threads, NEW r \in Runs, CancelMarks(t, r) PROVE RequestsMatchAnswers'
    BY <1>0, <1>a, <1>b, <1>16 DEF CancelMarks, RequestsMatchAnswers, Typed, RunRecord, Call, Idle
  <1>17. ASSUME NEW r \in Runs, MarkRunning(r) PROVE RequestsMatchAnswers'
    <2>1. /\ worker[r].at = "born" /\ worker'[r].at \in {"completing", "executing"} /\ thread' = thread
          /\ \A s \in Runs \ {r} : worker'[s] = worker[s]
      BY <1>0, <1>17 DEF MarkRunning, Typed, Worker, Works, Ends
    <2>2. \A s \in Runs : /\ run'[s].pending = run[s].pending /\ run'[s].response = run[s].response
                          /\ run'[s].asks = run[s].asks /\ run'[s].request = run[s].request
      BY <1>0, <1>17 DEF MarkRunning, Typed, RunRecord
    <2>. QED
      BY <1>b, <2>1, <2>2, StoppedPlaces DEF RequestsMatchAnswers
  <1>18. ASSUME NEW r \in Runs, GiveUp(r) PROVE RequestsMatchAnswers'
    BY <1>0, <1>b, <1>18, StoppedPlaces DEF GiveUp, RequestsMatchAnswers, Typed, Worker, Ends
  <1>19. ASSUME NEW r \in Runs, TakeResponse(r) PROVE RequestsMatchAnswers'
    BY <1>0, <1>b, <1>19, StoppedPlaces DEF TakeResponse, RequestsMatchAnswers, Typed, RunRecord, Worker, Works
  <1>20. ASSUME NEW r \in Runs, Unwind(r) PROVE RequestsMatchAnswers'
    BY <1>0, <1>b, <1>20, StoppedPlaces
    DEF Unwind, RequestsMatchAnswers, Typed, RunRecord, Worker, Works, HoldsPending
  <1>21. ASSUME NEW r \in Runs, ReadOutcome(r) PROVE RequestsMatchAnswers'
    BY <1>0, <1>b, <1>21, StoppedPlaces
    DEF ReadOutcome, RequestsMatchAnswers, Typed, RunRecord, Worker, Ends, HoldsPending
  <1>22. ASSUME NEW r \in Runs, SetOutcome(r) PROVE RequestsMatchAnswers'
    BY <1>0, <1>b, <1>22, StoppedPlaces DEF SetOutcome, RequestsMatchAnswers, Typed, RunRecord, Worker, Works, Over
  <1>23. ASSUME NEW r \in Runs, Announce(r) \/ RecordCompleted(r) PROVE RequestsMatchAnswers'
    BY <1>0, <1>b, <1>23, StoppedPlaces DEF Announce, RecordCompleted, RequestsMatchAnswers, Typed, Worker, Works, Over
  <1>24. ASSUME NEW r \in Runs, Release(r) PROVE RequestsMatchAnswers'
    BY <1>0, <1>b, <1>24, StoppedPlaces DEF Release, RequestsMatchAnswers, Typed, RunRecord, Worker, Works, Over
  <1>25. ASSUME NEW r \in Runs, Return(r) PROVE RequestsMatchAnswers'
    BY <1>0, <1>b, <1>25, StoppedPlaces DEF Return, RequestsMatchAnswers, Typed, Worker, Ends
  <1>26. ASSUME NEW r \in Runs, Ask(r) PROVE RequestsMatchAnswers'
    <2>1. /\ worker[r].at = "executing" /\ thread' = thread
          /\ worker'[r].at \in {"completing", "waiting"}
          /\ \A s \in Runs \ {r} : worker'[s] = worker[s] /\ run'[s] = run[s]
          /\ \A u \in Threads : thread[u].run = r => thread[u].at \notin {"locked", "matched"}
      BY <1>0, <1>26 DEF Ask, Typed, Worker, Works, Ends, HoldsMetadata
    <2>2. \/ run' = run /\ worker'[r].at = "completing"
          \/ /\ run'[r].pending = [id |-> run[r].asks + 1, kind |-> run[r].request.asks]
             /\ run'[r].response = 0 /\ run'[r].asks = run[r].asks + 1
             /\ run'[r].request = run[r].request
          \/ /\ run'[r].pending = None /\ worker'[r].at = "completing"
             /\ run'[r].request = run[r].request
      BY <1>0, <1>26 DEF Ask, Typed, RunRecord, Worker, Works, Ends
    <2>3. /\ run'[r].pending # None =>
                 /\ worker'[r].at \in {"waiting", "unwinding", "completing"}
                 /\ run'[r].pending.id = run'[r].asks /\ run'[r].response = 0
                 /\ run'[r].pending.kind = run'[r].request.asks
          /\ worker'[r].at = "waiting" => run'[r].response \in {0, run'[r].asks}
          /\ run'[r].request = run[r].request
      BY <2>1, <2>2 DEF RequestsMatchAnswers
    <2>4. \A u \in Threads : thread[u].at \in {"approving", "approved", "locked", "matched"} =>
              thread[u].run # r
      BY <2>1, StoppedPlaces DEF RequestsMatchAnswers
    <2>. QED
      BY <1>b, <2>1, <2>3, <2>4 DEF RequestsMatchAnswers
  <1>27. ASSUME NEW r \in Runs, Expire(r) PROVE RequestsMatchAnswers'
    BY <1>0, <1>b, <1>27 DEF Expire, RequestsMatchAnswers, Typed, RunRecord
  <1>28. ASSUME NEW r \in Runs, Reconcile(r) \/ ReconcileEvent(r) PROVE RequestsMatchAnswers'
    BY <1>28 DEF Reconcile, ReconcileEvent, RequestsMatchAnswers
  <1>29. CASE OwnerDies
    BY <1>29, NoRunShape DEF OwnerDies, RequestsMatchAnswers
  <1>30. ASSUME NEW t \in Callers, NEW r \in Runs, NEW q \in Requests, Acquire(t, r, q)
        PROVE  RequestsMatchAnswers'
    <2>1. \A u \in Threads : thread[u].at \in {"answering", "locked", "matched", "approving", "approved"} =>
              thread[u].run # r
      BY <1>30, AcquireStep DEF Inv, AnswersMatchStates
    <2>. QED
      BY <1>b, <1>30, <2>1, AcquireStep DEF RequestsMatchAnswers
  <1>31. ASSUME NEW t \in Callers, Admit(t) PROVE RequestsMatchAnswers'
    <2>1. \A u \in Threads : thread[u].at \in {"answering", "locked", "matched", "approving", "approved"} =>
              thread[u].run # thread[t].run
      BY <1>31, AdmitStep DEF Inv, AnswersMatchStates
    <2>. QED
      BY <1>b, <1>31, <2>1, AdmitStep, NoRunShape DEF RequestsMatchAnswers
  <1>32. ASSUME NEW t \in Callers, Spawn(t) PROVE RequestsMatchAnswers'
    <2>1. \A u \in Threads : thread[u].at \in {"answering", "locked", "matched", "approving", "approved"} =>
              thread[u].run # thread[t].run
      BY <1>32, SpawnStep DEF Inv, AnswersMatchStates
    <2>. QED
      BY <1>b, <1>32, <2>1, SpawnStep, NoRunShape DEF RequestsMatchAnswers
  <1>. QED
    BY <1>a, <1>1, <1>2, <1>3, <1>4, <1>5, <1>6, <1>7, <1>8, <1>9, <1>10, <1>11, <1>12, <1>13, <1>14,
       <1>15, <1>16, <1>17, <1>18, <1>19, <1>20, <1>21, <1>22, <1>23, <1>24, <1>25, <1>26, <1>27, <1>28,
       <1>29, <1>30, <1>31, <1>32
    DEF Next, CallerSteps, ApproverSteps, CloserSteps, Calls, WorkerSteps, Provider

(* A response a worker may take answers the request it waits for; a stream  *)
(* has one ending, which a closed row never lacks and which is the outcome  *)
(* the run completed with.  It holds through late answers, cancellations    *)
(* and approvals, a failed spawn, the owner's death and a reconciliation.   *)
THEOREM InteractionStaysHonest == Spec => []InteractionIsHonest
  <1>1. Init => EndingsMatchRows /\ RequestsMatchAnswers
    <2>. SUFFICES ASSUME Init PROVE EndingsMatchRows /\ RequestsMatchAnswers
      OBVIOUS
    <2>1. EndingsMatchRows
      BY NoRunShape, AnnouncedPlaces DEF Init, EndingsMatchRows
    <2>2. RequestsMatchAnswers
      BY NoRunShape, StoppedPlaces DEF Init, RequestsMatchAnswers
    <2>. QED
      BY <2>1, <2>2
  <1>2. Inv /\ EndingsMatchRows /\ RequestsMatchAnswers => InteractionIsHonest
    <2>. SUFFICES ASSUME Inv, EndingsMatchRows, RequestsMatchAnswers PROVE InteractionIsHonest
      OBVIOUS
    <2>1. AnswerReachesItsRequest
      BY DEF RequestsMatchAnswers, AnswerReachesItsRequest
    <2>. SUFFICES ASSUME NEW r \in Runs
                  PROVE  /\ \A i, j \in 1 .. Len(events[r]) :
                                events[r][i] \in Outcomes /\ events[r][j] \in Outcomes => i = j
                         /\ row[r] = "ended" => HasEnding(r)
                         /\ worker[r].at = "done" =>
                                \E i \in 1 .. Len(events[r]) : events[r][i] = run[r].state
      BY <2>1 DEF InteractionIsHonest, OneEnding
    <2>2. CASE events[r] = <<>>
      BY <2>2 DEF EndingsMatchRows, Announced
    <2>3. ASSUME NEW o \in Outcomes, events[r] = <<o>>
          PROVE  /\ Len(events[r]) = 1 /\ events[r][1] = o
                 /\ worker[r].at = "done" => run[r].state = o
      BY <2>3 DEF EndingsMatchRows, Announced
    <2>. QED
      BY <2>2, <2>3 DEF EndingsMatchRows, HasEnding
  <1>. QED
    BY <1>1, <1>2, EndingsStep, RequestsStep, InvHolds, PTL DEF Spec

-----------------------------------------------------------------------------
(* The drain. *)

Ending == Finals \cup {"fatal", "closed"}

(* A tally of the word e over a queue: how often it was said before each    *)
(* place, counting from what was taken (lo) to what was said (hi).  After   *)
(* an ending it is not said any more.                                       *)
Tally(n, queue, e, lo, hi) ==
    /\ n \in [1 .. Len(queue) + 1 -> Nat]
    /\ n[1] = lo /\ n[Len(queue) + 1] = hi
    /\ \A j \in 1 .. Len(queue) : n[j + 1] = n[j] + (IF queue[j] = e THEN 1 ELSE 0)
    /\ \A j \in 1 .. Len(queue) : n[j + 1] <= hi
    /\ \A j \in 1 .. Len(queue) : queue[j] \in Ending => n[j] = hi

Tallied(queue, e, lo, hi) == \E n \in [1 .. Len(queue) + 1 -> Nat] : Tally(n, queue, e, lo, hi)

(* Everything the agent said and asked was taken or is on its way.          *)
WordsAreCounted ==
    drain.at \in {"create", "subscribe", "start", "loop", "receive", "asking"} =>
        /\ Tallied(channel, "delta", drain.output, agent.said)
        /\ Tallied(channel, "approval", drain.asks, agent.asked)

(* The endings on their way are the run's own, and the first of them says   *)
(* how it ended.                                                            *)
EndingsAreTrue ==
    /\ \A i \in 1 .. Len(channel) : channel[i] \in Ending =>
           agent.run \in {"none", "over"} /\ (channel[i] # "closed" => channel[i] = agent.end)
    /\ drain.at \in {"loop", "receive", "asking"} =>
           \A i \in 1 .. Len(channel) : channel[i] = "closed" =>
              agent.end = "closed" \/ \E j \in 1 .. i - 1 : channel[j] \in Ending \ {"closed"}
    /\ drain.at \in {"loop", "receive", "asking"} /\ agent.run = "over" =>
           \E i \in 1 .. Len(channel) : channel[i] = agent.end /\ agent.end \in Ending
    /\ agent.run \in {"running", "waiting"} => agent.session = "open"
    /\ agent.run # "over" => agent.end = "none"

(* A run is started once, in an open session, and its result is known when  *)
(* the guard is dropped.                                                    *)
DrainIsStaged ==
    /\ drain.at \in {"create", "subscribe", "start"} => agent.run = "none"
    /\ drain.at = "create" => agent.session = "none"
    /\ agent.run = "none" /\ agent.session # "closed" => channel = << >>
    /\ drain.at \in {"loop", "receive", "asking"} => agent.run # "none"
    /\ drain.result # "none" => drain.at \in {"close", "over"}

DrainInv == DrainIsHonest /\ WordsAreCounted /\ EndingsAreTrue /\ DrainIsStaged

LEMMA TallyPush ==
  ASSUME NEW S, NEW queue \in Seq(S), NEW e, NEW x \in S, NEW lo \in Nat, NEW hi \in Nat,
         e \notin Ending, Tallied(queue, e, lo, hi),
         x = e => \A j \in 1 .. Len(queue) : queue[j] \notin Ending
  PROVE  Tallied(Append(queue, x), e, lo, hi + (IF x = e THEN 1 ELSE 0))
  <1>1. PICK n \in [1 .. Len(queue) + 1 -> Nat] : Tally(n, queue, e, lo, hi)
    BY DEF Tallied
  <1>. DEFINE q == Append(queue, x)
              top == hi + (IF x = e THEN 1 ELSE 0)
              m == [j \in 1 .. Len(q) + 1 |-> IF j = Len(q) + 1 THEN top ELSE n[j]]
  <1>2. /\ Len(q) = Len(queue) + 1 /\ Len(queue) \in Nat /\ q[Len(q)] = x
        /\ \A j \in 1 .. Len(queue) : q[j] = queue[j]
    OBVIOUS
  <1>3. top \in Nat /\ (x # e => top = hi) /\ hi <= top
    OBVIOUS
  <1>. HIDE DEF q, top
  <1>4. m \in [1 .. Len(q) + 1 -> Nat] /\ m[1] = lo /\ m[Len(q) + 1] = top
    BY <1>1, <1>2, <1>3 DEF Tally
  <1>5. \A j \in 1 .. Len(queue) + 1 : m[j] = n[j]
    BY <1>2
  <1>6. m[Len(q)] = hi
    BY <1>1, <1>2, <1>5 DEF Tally
  <1>7. \A j \in 1 .. Len(q) : m[j + 1] = m[j] + (IF q[j] = e THEN 1 ELSE 0)
    <2>. SUFFICES ASSUME NEW j \in 1 .. Len(q)
                  PROVE  m[j + 1] = m[j] + (IF q[j] = e THEN 1 ELSE 0)
      OBVIOUS
    <2>1. CASE j \in 1 .. Len(queue)
      BY <2>1, <1>1, <1>2, <1>5 DEF Tally
    <2>2. CASE j = Len(q)
      BY <2>2, <1>2, <1>4, <1>6 DEF top
    <2>. QED
      BY <2>1, <2>2, <1>2
  <1>8. \A j \in 1 .. Len(q) : m[j + 1] <= top
    <2>. SUFFICES ASSUME NEW j \in 1 .. Len(q) PROVE m[j + 1] <= top
      OBVIOUS
    <2>1. CASE j \in 1 .. Len(queue)
      <3>1. n[j + 1] <= hi /\ n[j + 1] \in Nat /\ m[j + 1] = n[j + 1]
        BY <2>1, <1>1, <1>2, <1>5 DEF Tally
      <3>. QED
        BY <3>1, <1>3
    <2>2. CASE j = Len(q)
      BY <2>2, <1>4, <1>3
    <2>. QED
      BY <2>1, <2>2, <1>2
  <1>9. \A j \in 1 .. Len(q) : q[j] \in Ending => m[j] = top
    <2>. SUFFICES ASSUME NEW j \in 1 .. Len(q), q[j] \in Ending PROVE m[j] = top
      OBVIOUS
    <2>1. CASE j \in 1 .. Len(queue)
      BY <2>1, <1>1, <1>2, <1>3, <1>5 DEF Tally
    <2>2. CASE j = Len(q)
      BY <2>2, <1>2, <1>3, <1>6
    <2>. QED
      BY <2>1, <2>2, <1>2
  <1>. QED
    <2>. HIDE DEF m
    <2>1. Tally(m, q, e, lo, top)
      BY <1>4, <1>7, <1>8, <1>9 DEF Tally
    <2>2. Tallied(q, e, lo, top)
      BY <2>1, <1>4 DEF Tallied
    <2>. QED
      BY <2>2 DEF q, top

LEMMA TallyTake ==
  ASSUME NEW S, NEW queue \in Seq(S), NEW e, NEW lo \in Nat, NEW hi \in Nat,
         queue # << >>, Tallied(queue, e, lo, hi)
  PROVE  /\ Tallied(Tail(queue), e, lo + (IF Head(queue) = e THEN 1 ELSE 0), hi)
         /\ lo + (IF Head(queue) = e THEN 1 ELSE 0) <= hi
         /\ Head(queue) \in Ending => lo = hi
  <1>1. PICK n \in [1 .. Len(queue) + 1 -> Nat] : Tally(n, queue, e, lo, hi)
    BY DEF Tallied
  <1>. DEFINE q == Tail(queue)
              m == [j \in 1 .. Len(q) + 1 |-> n[j + 1]]
              low == lo + (IF Head(queue) = e THEN 1 ELSE 0)
  <1>2. /\ Len(queue) \in Nat /\ Len(q) \in Nat /\ Len(queue) = Len(q) + 1
        /\ Head(queue) = queue[1]
        /\ \A j \in 1 .. Len(q) : q[j] = queue[j + 1]
    OBVIOUS
  <1>. HIDE DEF q
  <1>3. low = n[2] /\ low <= hi /\ (Head(queue) \in Ending => lo = hi)
    <2>1. 1 \in 1 .. Len(queue)
      BY <1>2
    <2>2. n[1 + 1] = n[1] + (IF queue[1] = e THEN 1 ELSE 0) /\ n[1 + 1] <= hi /\ n[1] = lo
          /\ (queue[1] \in Ending => n[1] = hi)
      BY <2>1, <1>1 DEF Tally
    <2>3. 1 + 1 = 2
      OBVIOUS
    <2>. QED
      BY <2>2, <2>3, <1>2
  <1>. HIDE DEF low
  <1>4. m \in [1 .. Len(q) + 1 -> Nat] /\ m[1] = low /\ m[Len(q) + 1] = hi
    BY <1>1, <1>2, <1>3 DEF Tally
  <1>5. \A j \in 1 .. Len(q) + 1 : m[j] = n[j + 1]
    OBVIOUS
  <1>. HIDE DEF m
  <1>6. \A j \in 1 .. Len(q) : /\ m[j + 1] = m[j] + (IF q[j] = e THEN 1 ELSE 0)
                               /\ m[j + 1] <= hi
                               /\ q[j] \in Ending => m[j] = hi
    <2>. SUFFICES ASSUME NEW j \in 1 .. Len(q)
                  PROVE  /\ m[j + 1] = m[j] + (IF q[j] = e THEN 1 ELSE 0)
                         /\ m[j + 1] <= hi
                         /\ q[j] \in Ending => m[j] = hi
      OBVIOUS
    <2>1. j + 1 \in 1 .. Len(queue) /\ j \in 1 .. Len(q) + 1 /\ j + 1 \in 1 .. Len(q) + 1
      BY <1>2
    <2>2. /\ n[(j + 1) + 1] = n[j + 1] + (IF queue[j + 1] = e THEN 1 ELSE 0)
          /\ n[(j + 1) + 1] <= hi
          /\ queue[j + 1] \in Ending => n[j + 1] = hi
      BY <2>1, <1>1 DEF Tally
    <2>3. m[j] = n[j + 1] /\ m[j + 1] = n[(j + 1) + 1] /\ q[j] = queue[j + 1]
      BY <2>1, <1>2, <1>5
    <2>. QED
      BY <2>2, <2>3
  <1>7. Tallied(q, e, low, hi)
    BY <1>4, <1>6 DEF Tally, Tallied
  <1>. QED
    BY <1>3, <1>7 DEF q, low

DrainRec == [at : {"create", "subscribe", "start", "loop", "receive", "asking", "close", "over"},
             cancelSent : BOOLEAN, output : 0 .. MaxSaid, asks : 0 .. MaxAsked,
             result : DrainEnds \cup {"none"}]
AgentRec == [session : {"none", "open", "closed"}, told : BOOLEAN,
             run : {"none", "running", "waiting", "over"}, said : 0 .. MaxSaid,
             asked : 0 .. MaxAsked, end : Finals \cup {"none", "fatal", "closed"}]

LEMMA DrainShape ==
  DrainTypeOK <=> /\ drain \in DrainRec /\ agent \in AgentRec /\ channel \in Seq(AgentEvents)
                  /\ control \in [cancelled : BOOLEAN, expired : BOOLEAN, settled : BOOLEAN]
  BY DEF DrainTypeOK, DrainRec, AgentRec

LEMMA DrainShapeNext ==
  ASSUME drain' \in DrainRec, agent' \in AgentRec, channel' \in Seq(AgentEvents),
         control' \in [cancelled : BOOLEAN, expired : BOOLEAN, settled : BOOLEAN]
  PROVE  DrainTypeOK'
  BY DEF DrainTypeOK, DrainRec, AgentRec

LEMMA DrainSays ==
  ASSUME channel \in Seq(AgentEvents), NEW e \in AgentEvents, Posts(e)
  PROVE  channel' \in Seq(AgentEvents)
  BY DEF Posts

LEMMA DrainTypes == DrainTypeOK /\ WordsAreCounted /\ DrainNext => DrainTypeOK'
  <1>. SUFFICES ASSUME DrainTypeOK, WordsAreCounted PROVE DrainNext => DrainTypeOK'
    OBVIOUS
  <1>0. /\ drain.output \in Nat /\ drain.asks \in Nat /\ agent.said \in Nat /\ agent.asked \in Nat
        /\ agent.said <= MaxSaid /\ agent.asked <= MaxAsked
    BY DrainBoundsAssumption DEF DrainTypeOK
  <1>1. ASSUME SessionCreate PROVE DrainTypeOK'
    BY <1>1 DEF DrainTypeOK, SessionCreate, Leave, DrainEnds
  <1>2. ASSUME SessionSubscribe PROVE DrainTypeOK'
    <2>1. drain' = [drain EXCEPT !.at = "start"] \/ drain' = [drain EXCEPT !.at = "over", !.result = "error"]
      BY <1>2 DEF SessionSubscribe, Leave
    <2>2. drain' \in DrainRec
      BY <2>1, DrainShape DEF DrainRec, DrainEnds
    <2>. QED
      BY <1>2, <2>2, DrainShape, DrainShapeNext DEF SessionSubscribe
  <1>3. ASSUME start_run PROVE DrainTypeOK'
    BY <1>3 DEF DrainTypeOK, start_run, Leave, DrainEnds
  <1>4. ASSUME Watch PROVE DrainTypeOK'
    <2>1. finish(TRUE, control.expired, "none") \in DrainEnds
      BY DEF finish, DrainEnds
    <2>2. agent' \in AgentRec
      BY <1>4 DEF DrainTypeOK, AgentRec, Watch, cancel_run, RunIsOn
    <2>3. drain' \in DrainRec
      <3>1. drain \in DrainRec
        BY DrainShape
      <3>2. \/ drain' = [drain EXCEPT !.at = "receive", !.cancelSent = TRUE]
            \/ drain' = [drain EXCEPT !.at = "close", !.result = finish(TRUE, control.expired, "none")]
            \/ drain' = [drain EXCEPT !.at = "receive"]
        BY <1>4 DEF Watch, Leave
      <3>. QED
        BY <3>1, <3>2, <2>1 DEF DrainRec
    <2>. QED
      BY <1>4, <2>2, <2>3, DrainShape, DrainShapeNext DEF Watch
  <1>5. ASSUME recv_timeout PROVE DrainTypeOK'
    BY <1>5 DEF DrainTypeOK, recv_timeout
  <1>6. ASSUME Receive PROVE DrainTypeOK'
    <2>1. channel # << >> /\ channel \in Seq(AgentEvents)
      BY <1>6 DEF Receive, DrainTypeOK
    <2>2. channel' \in Seq(AgentEvents) /\ Head(channel) \in AgentEvents
      BY <2>1, <1>6 DEF Receive
    <2>3. /\ Head(channel) = "delta" => drain.output + 1 \in 0 .. MaxSaid
          /\ Head(channel) = "approval" => drain.asks + 1 \in 0 .. MaxAsked
      <3>1. Tallied(channel, "delta", drain.output, agent.said) /\ Tallied(channel, "approval", drain.asks, agent.asked)
        BY <1>6 DEF Receive, Drains, WordsAreCounted
      <3>2. drain.output + (IF Head(channel) = "delta" THEN 1 ELSE 0) <= agent.said
        BY <3>1, <2>1, <1>0, TallyTake
      <3>3. drain.asks + (IF Head(channel) = "approval" THEN 1 ELSE 0) <= agent.asked
        BY <3>1, <2>1, <1>0, TallyTake
      <3>. QED
        BY <3>2, <3>3, <1>0, DrainBoundsAssumption
    <2>4. \A o \in AgentEvents \cup {"none"} : finish(drain.cancelSent, control.expired, o) \in DrainEnds
      BY DEF finish, DrainEnds
    <2>5. drain' \in DrainRec
      <3>1. CASE Head(channel) = "delta"
        <4>1. drain' = [drain EXCEPT !.at = "loop", !.output = @ + 1]
          BY <3>1, <1>6 DEF Receive
        <4>. QED
          BY <3>1, <4>1, <2>3, DrainShape DEF DrainRec
      <3>2. CASE Head(channel) = "approval"
        <4>1. drain' = [drain EXCEPT !.at = "asking", !.asks = @ + 1]
          BY <3>2, <1>6 DEF Receive
        <4>. QED
          BY <3>2, <4>1, <2>3, DrainShape DEF DrainRec
      <3>3. CASE Head(channel) \notin {"delta", "approval"}
        <4>1. \E o \in AgentEvents \cup {"none"} :
                 drain' = [drain EXCEPT !.at = "close", !.result = finish(drain.cancelSent, control.expired, o)]
          BY <3>3, <1>6, <2>2 DEF Receive, Leave
        <4>2. PICK v \in DrainEnds : drain' = [drain EXCEPT !.at = "close", !.result = v]
          BY <4>1, <2>4
        <4>. QED
          BY <4>2, DrainShape DEF DrainRec
      <3>. QED
        BY <3>1, <3>2, <3>3
    <2>. QED
      BY <1>6, <2>2, <2>5, DrainShape, DrainShapeNext DEF Receive
  <1>7. ASSUME OwnerAnswers PROVE DrainTypeOK'
    BY <1>7 DEF DrainTypeOK, OwnerAnswers
  <1>8. ASSUME OwnerGivesUp PROVE DrainTypeOK'
    BY <1>8 DEF DrainTypeOK, OwnerGivesUp, Leave, DrainEnds, cancel_run, RunIsOn
  <1>9. ASSUME close_session PROVE DrainTypeOK'
    BY <1>9 DEF DrainTypeOK, close_session, RunIsOn
  <1>10. ASSUME AgentSays PROVE DrainTypeOK'
    <2>1. channel' \in Seq(AgentEvents)
      BY <1>10, DrainShape, DrainSays DEF AgentSays, AgentEvents
    <2>2. agent' \in AgentRec
      BY <1>10, <1>0, DrainBoundsAssumption, DrainShape DEF AgentRec, AgentSays
    <2>. QED
      BY <1>10, <2>1, <2>2, DrainShape, DrainShapeNext DEF AgentSays
  <1>11. ASSUME AgentAsks PROVE DrainTypeOK'
    <2>1. channel' \in Seq(AgentEvents)
      BY <1>11, DrainShape, DrainSays DEF AgentAsks, AgentEvents
    <2>2. agent' \in AgentRec
      <3>1. agent \in AgentRec /\ agent' = [agent EXCEPT !.run = "waiting", !.asked = agent.asked + 1]
        BY <1>11, DrainShape DEF AgentAsks
      <3>2. agent.asked + 1 \in 0 .. MaxAsked
        BY <1>11, <1>0, DrainBoundsAssumption DEF AgentAsks
      <3>. QED
        BY <3>1, <3>2 DEF AgentRec
    <2>. QED
      BY <1>11, <2>1, <2>2, DrainShape, DrainShapeNext DEF AgentAsks
  <1>12. ASSUME OtherAnswers PROVE DrainTypeOK'
    BY <1>12 DEF DrainTypeOK, OtherAnswers
  <1>13. ASSUME NEW e \in Finals \cup {"fatal"}, AgentEnds(e) PROVE DrainTypeOK'
    <2>1. channel' \in Seq(AgentEvents)
      BY <1>13, DrainShape, DrainSays DEF AgentEnds, AgentEvents
    <2>2. agent' \in AgentRec
      BY <1>13, DrainShape DEF AgentRec, AgentEnds
    <2>. QED
      BY <1>13, <2>1, <2>2, DrainShape, DrainShapeNext DEF AgentEnds
  <1>14. ASSUME AgentDies PROVE DrainTypeOK'
    <2>1. channel' \in Seq(AgentEvents)
      BY <1>14, DrainShape, DrainSays DEF AgentDies, AgentEvents
    <2>2. agent' \in AgentRec
      BY <1>14, DrainShape DEF AgentRec, AgentDies, RunIsOn
    <2>. QED
      BY <1>14, <2>1, <2>2, DrainShape, DrainShapeNext DEF AgentDies
  <1>15. ASSUME TokenCancelled \/ DeadlinePasses \/ SettlePasses PROVE DrainTypeOK'
    BY <1>15 DEF DrainTypeOK, TokenCancelled, DeadlinePasses, SettlePasses
  <1>. QED
    BY <1>1, <1>2, <1>3, <1>4, <1>5, <1>6, <1>7, <1>8, <1>9, <1>10, <1>11, <1>12, <1>13, <1>14, <1>15
    DEF DrainNext, DrainStep

(* A step that leaves the queue and the counts alone leaves the tally, if   *)
(* the drain does not come back from its end.                               *)
LEMMA WordsStay ==
  ASSUME WordsAreCounted, UNCHANGED channel, drain'.output = drain.output, drain'.asks = drain.asks,
         agent'.said = agent.said, agent'.asked = agent.asked,
         drain'.at \in {"close", "over"}
         \/ drain.at \in {"create", "subscribe", "start", "loop", "receive", "asking"}
  PROVE  WordsAreCounted'
  BY DEF WordsAreCounted, Tallied, Tally

LEMMA WordsPosted ==
  ASSUME DrainTypeOK, WordsAreCounted, UNCHANGED drain, NEW e \in AgentEvents, Posts(e),
         agent'.said = agent.said + (IF e = "delta" THEN 1 ELSE 0),
         agent'.asked = agent.asked + (IF e = "approval" THEN 1 ELSE 0),
         e \in {"delta", "approval"} => \A j \in 1 .. Len(channel) : channel[j] \notin Ending
  PROVE  WordsAreCounted'
  <1>. SUFFICES ASSUME drain.at \in {"create", "subscribe", "start", "loop", "receive", "asking"}
                PROVE  /\ Tallied(Append(channel, e), "delta", drain.output, agent'.said)
                       /\ Tallied(Append(channel, e), "approval", drain.asks, agent'.asked)
    BY DEF WordsAreCounted, Posts, Tallied, Tally
  <1>1. /\ drain.output \in Nat /\ drain.asks \in Nat /\ agent.said \in Nat /\ agent.asked \in Nat
        /\ channel \in Seq(AgentEvents)
    BY DrainBoundsAssumption DEF DrainTypeOK
  <1>2. /\ Tallied(channel, "delta", drain.output, agent.said)
        /\ Tallied(channel, "approval", drain.asks, agent.asked)
    BY DEF WordsAreCounted
  <1>3. "delta" \notin Ending /\ "approval" \notin Ending
    BY DEF Ending, Finals
  <1>4. Tallied(Append(channel, e), "delta", drain.output, agent.said + (IF e = "delta" THEN 1 ELSE 0))
    BY <1>1, <1>2, <1>3, TallyPush
  <1>5. Tallied(Append(channel, e), "approval", drain.asks, agent.asked + (IF e = "approval" THEN 1 ELSE 0))
    BY <1>1, <1>2, <1>3, TallyPush
  <1>. QED
    BY <1>4, <1>5

LEMMA WordsStep == DrainTypeOK /\ WordsAreCounted /\ EndingsAreTrue /\ DrainNext => WordsAreCounted'
  <1>. SUFFICES ASSUME DrainTypeOK, WordsAreCounted, EndingsAreTrue PROVE DrainNext => WordsAreCounted'
    OBVIOUS
  <1>0. agent \in AgentRec /\ drain \in DrainRec /\ channel \in Seq(AgentEvents)
    BY DrainShape
  <1>1. ASSUME SessionCreate PROVE WordsAreCounted'
    BY <1>0, <1>1, WordsStay DEF DrainRec, AgentRec, SessionCreate, Leave, Drains
  <1>2. ASSUME SessionSubscribe PROVE WordsAreCounted'
    BY <1>0, <1>2, WordsStay DEF DrainRec, SessionSubscribe, Leave, Drains
  <1>3. ASSUME start_run PROVE WordsAreCounted'
    BY <1>0, <1>3, WordsStay DEF DrainRec, AgentRec, start_run, Leave, Drains
  <1>4. ASSUME Watch PROVE WordsAreCounted'
    BY <1>0, <1>4, WordsStay DEF DrainRec, AgentRec, Watch, cancel_run, Leave, Drains
  <1>5. ASSUME recv_timeout PROVE WordsAreCounted'
    BY <1>0, <1>5, WordsStay DEF DrainRec, recv_timeout, Drains
  <1>6. ASSUME Receive PROVE WordsAreCounted'
    <2>1. /\ drain.output \in Nat /\ drain.asks \in Nat /\ agent.said \in Nat /\ agent.asked \in Nat
          /\ channel # << >>
      BY <1>6, DrainBoundsAssumption DEF DrainTypeOK, Receive
    <2>2. /\ Tallied(channel, "delta", drain.output, agent.said)
          /\ Tallied(channel, "approval", drain.asks, agent.asked)
      BY <1>6 DEF Receive, Drains, WordsAreCounted
    <2>3. /\ Tallied(Tail(channel), "delta", drain.output + (IF Head(channel) = "delta" THEN 1 ELSE 0), agent.said)
          /\ Tallied(Tail(channel), "approval", drain.asks + (IF Head(channel) = "approval" THEN 1 ELSE 0), agent.asked)
      BY <1>0, <2>1, <2>2, TallyTake
    <2>4. channel' = Tail(channel) /\ UNCHANGED agent
      BY <1>6 DEF Receive
    <2>5. CASE Head(channel) = "delta"
      <3>1. drain'.output = drain.output + 1 /\ drain'.asks = drain.asks
        BY <2>5, <1>6, <1>0 DEF Receive, DrainRec
      <3>. QED
        BY <3>1, <2>1, <2>3, <2>4, <2>5 DEF WordsAreCounted
    <2>6. CASE Head(channel) = "approval"
      <3>1. drain'.output = drain.output /\ drain'.asks = drain.asks + 1
        BY <2>6, <1>6, <1>0 DEF Receive, DrainRec
      <3>. QED
        BY <3>1, <2>1, <2>3, <2>4, <2>6 DEF WordsAreCounted
    <2>7. CASE Head(channel) \notin {"delta", "approval"}
      BY <2>7, <1>6, <1>0 DEF Receive, Leave, DrainRec, WordsAreCounted
    <2>. QED
      BY <2>5, <2>6, <2>7
  <1>7. ASSUME OwnerAnswers PROVE WordsAreCounted'
    BY <1>0, <1>7, WordsStay DEF DrainRec, AgentRec, OwnerAnswers, Drains
  <1>8. ASSUME OwnerGivesUp PROVE WordsAreCounted'
    BY <1>0, <1>8, WordsStay DEF DrainRec, AgentRec, OwnerGivesUp, cancel_run, Leave, Drains
  <1>9. ASSUME close_session PROVE WordsAreCounted'
    BY <1>0, <1>9, WordsStay DEF DrainRec, AgentRec, close_session, Drains
  <1>10. ASSUME AgentSays PROVE WordsAreCounted'
    <2>1. \A j \in 1 .. Len(channel) : channel[j] \notin Ending
      BY <1>10 DEF AgentSays, EndingsAreTrue
    <2>2. agent'.said = agent.said + 1 /\ agent'.asked = agent.asked + 0 /\ UNCHANGED drain
          /\ Posts("delta") /\ "delta" \in AgentEvents
      BY <1>0, <1>10 DEF AgentRec, AgentSays, AgentEvents
    <2>. QED
      BY <2>1, <2>2, WordsPosted
  <1>11. ASSUME AgentAsks PROVE WordsAreCounted'
    <2>1. \A j \in 1 .. Len(channel) : channel[j] \notin Ending
      BY <1>11 DEF AgentAsks, EndingsAreTrue
    <2>2. agent'.said = agent.said + 0 /\ agent'.asked = agent.asked + 1 /\ UNCHANGED drain
          /\ Posts("approval") /\ "approval" \in AgentEvents
      BY <1>0, <1>11 DEF AgentRec, AgentAsks, AgentEvents
    <2>. QED
      BY <2>1, <2>2, WordsPosted
  <1>12. ASSUME OtherAnswers PROVE WordsAreCounted'
    BY <1>0, <1>12 DEF AgentRec, OtherAnswers, WordsAreCounted, Tallied, Tally
  <1>13. ASSUME NEW e \in Finals \cup {"fatal"}, AgentEnds(e) PROVE WordsAreCounted'
    <2>1. agent'.said = agent.said + 0 /\ agent'.asked = agent.asked + 0 /\ UNCHANGED drain
          /\ Posts(e) /\ e \in AgentEvents /\ e \notin {"delta", "approval"}
      BY <1>0, <1>13 DEF AgentRec, AgentEnds, AgentEvents, Finals
    <2>. QED
      BY <2>1, WordsPosted
  <1>14. ASSUME AgentDies PROVE WordsAreCounted'
    <2>1. agent'.said = agent.said + 0 /\ agent'.asked = agent.asked + 0 /\ UNCHANGED drain
          /\ Posts("closed") /\ "closed" \in AgentEvents
      BY <1>0, <1>14 DEF AgentRec, AgentDies, AgentEvents
    <2>. QED
      BY <2>1, WordsPosted
  <1>15. ASSUME TokenCancelled \/ DeadlinePasses \/ SettlePasses PROVE WordsAreCounted'
    <2>1. UNCHANGED <<drain, agent, channel>>
      BY <1>15 DEF TokenCancelled, DeadlinePasses, SettlePasses
    <2>. QED
      BY <2>1 DEF WordsAreCounted, Tallied, Tally
  <1>. QED
    BY <1>1, <1>2, <1>3, <1>4, <1>5, <1>6, <1>7, <1>8, <1>9, <1>10, <1>11, <1>12, <1>13, <1>14, <1>15
    DEF DrainNext, DrainStep

LEMMA EndingsStay ==
  ASSUME EndingsAreTrue, UNCHANGED channel, agent'.end = agent.end, agent'.session = agent.session,
         agent'.run = agent.run \/ (agent.run = "waiting" /\ agent'.run = "running"),
         drain'.at \in {"loop", "receive", "asking"} => drain.at \in {"loop", "receive", "asking"}
  PROVE  EndingsAreTrue'
  BY DEF EndingsAreTrue

LEMMA EndingPosted ==
  ASSUME DrainTypeOK, EndingsAreTrue, UNCHANGED drain, NEW e \in AgentEvents, Posts(e),
         e \notin Ending => \A i \in 1 .. Len(channel) : channel[i] \notin Ending,
         e \in Ending => agent'.run \in {"none", "over"},
         agent'.run \in {"running", "waiting"} => agent'.session = "open",
         agent'.run # "over" => agent'.end = "none",
         e \in Ending /\ e # "closed" => agent'.end = e /\ \A i \in 1 .. Len(channel) : channel[i] \notin Ending,
         agent'.run = "over" => (agent'.end = e /\ e \in Ending) \/ (agent.run = "over" /\ agent'.end = agent.end),
         e = "closed" => \/ agent'.end = "closed" /\ (\A i \in 1 .. Len(channel) : channel[i] \notin Ending)
                         \/ agent'.end = agent.end /\ agent'.run = agent.run
                            /\ (drain.at \in {"loop", "receive", "asking"} =>
                                   agent.end = "closed" \/ \E i \in 1 .. Len(channel) : channel[i] \in Ending \ {"closed"})
  PROVE  EndingsAreTrue'
  <1>1. /\ Len(channel) \in Nat /\ Len(channel') = Len(channel) + 1 /\ channel'[Len(channel')] = e
        /\ \A i \in 1 .. Len(channel) : channel'[i] = channel[i]
    BY DEF DrainTypeOK, Posts
  <1>2. \A i \in 1 .. Len(channel') : i \in 1 .. Len(channel) \/ (i = Len(channel') /\ i - 1 = Len(channel))
    BY <1>1
  <1>3. \A i \in 1 .. Len(channel') : channel'[i] \in Ending =>
            agent'.run \in {"none", "over"} /\ (channel'[i] # "closed" => channel'[i] = agent'.end)
    BY <1>1, <1>2 DEF EndingsAreTrue
  <1>4. ASSUME drain'.at \in {"loop", "receive", "asking"}, NEW i \in 1 .. Len(channel'), channel'[i] = "closed"
        PROVE  agent'.end = "closed" \/ \E j \in 1 .. i - 1 : channel'[j] \in Ending \ {"closed"}
    <2>1. CASE i \in 1 .. Len(channel)
      <3>1. channel[i] = "closed" /\ "closed" \in Ending
        BY <2>1, <1>1, <1>4 DEF Ending
      <3>2. agent.end = "closed" \/ \E j \in 1 .. i - 1 : channel[j] \in Ending \ {"closed"}
        BY <3>1, <2>1, <1>4 DEF EndingsAreTrue
      <3>3. \A j \in 1 .. i - 1 : j \in 1 .. Len(channel) /\ channel'[j] = channel[j]
        BY <2>1, <1>1
      <3>4. e = "closed"
        BY <3>1, <2>1
      <3>5. agent'.end = agent.end \/ agent'.end = "closed"
        BY <3>1, <3>4
      <3>. QED
        BY <3>1, <3>2, <3>3, <3>5, <2>1
    <2>2. CASE i = Len(channel')
      <3>1. e = "closed" /\ i - 1 = Len(channel)
        BY <2>2, <1>1, <1>4
      <3>. QED
        BY <3>1, <1>1, <1>4
    <2>. QED
      BY <2>1, <2>2, <1>2
  <1>5. ASSUME drain'.at \in {"loop", "receive", "asking"}, agent'.run = "over"
        PROVE  \E i \in 1 .. Len(channel') : channel'[i] = agent'.end /\ agent'.end \in Ending
    <2>1. CASE agent'.end = e /\ e \in Ending
      BY <2>1, <1>1
    <2>2. CASE agent'.end # e \/ e \notin Ending
      <3>1. PICK i \in 1 .. Len(channel) : channel[i] = agent.end /\ agent.end \in Ending
        BY <2>2, <1>5 DEF EndingsAreTrue
      <3>2. agent'.end = agent.end /\ i \in 1 .. Len(channel')
        BY <2>2, <1>5, <1>1
      <3>. QED
        BY <3>1, <3>2, <1>1
    <2>. QED
      BY <2>1, <2>2
  <1>. QED
    BY <1>3, <1>4, <1>5 DEF EndingsAreTrue

LEMMA DrainEndingsStep ==
  DrainTypeOK /\ EndingsAreTrue /\ DrainIsStaged /\ DrainNext => EndingsAreTrue'
  <1>. SUFFICES ASSUME DrainTypeOK, EndingsAreTrue, DrainIsStaged PROVE DrainNext => EndingsAreTrue'
    OBVIOUS
  <1>0. agent \in AgentRec /\ drain \in DrainRec /\ channel \in Seq(AgentEvents)
    BY DrainShape
  <1>1. ASSUME SessionCreate PROVE EndingsAreTrue'
    <2>1. channel = << >> /\ UNCHANGED channel /\ agent.run = "none" /\ agent'.run = "none"
          /\ agent'.end = agent.end
      BY <1>1, <1>0 DEF SessionCreate, DrainIsStaged, AgentRec, Drains
    <2>. QED
      BY <2>1 DEF EndingsAreTrue
  <1>2. ASSUME SessionSubscribe PROVE EndingsAreTrue'
    BY <1>0, <1>2, EndingsStay DEF DrainRec, SessionSubscribe, Leave
  <1>3. ASSUME start_run PROVE EndingsAreTrue'
    <2>1. CASE UNCHANGED agent /\ Leave("close", "error")
      BY <2>1, <1>0, <1>3, EndingsStay DEF DrainRec, start_run, Leave
    <2>2. CASE agent.session = "open" /\ agent' = [agent EXCEPT !.run = "running"]
      <3>1. channel = << >> /\ UNCHANGED channel /\ agent'.run = "running" /\ agent'.session = "open"
            /\ agent'.end = agent.end /\ agent.run = "none"
        BY <2>2, <1>3, <1>0 DEF start_run, DrainIsStaged, AgentRec, Drains
      <3>. QED
        BY <3>1 DEF EndingsAreTrue
    <2>. QED
      BY <2>1, <2>2, <1>3 DEF start_run
  <1>4. ASSUME Watch PROVE EndingsAreTrue'
    BY <1>0, <1>4, EndingsStay DEF DrainRec, AgentRec, Watch, cancel_run, Leave, Drains
  <1>5. ASSUME recv_timeout PROVE EndingsAreTrue'
    BY <1>0, <1>5, EndingsStay DEF DrainRec, recv_timeout, Drains
  <1>6. ASSUME Receive PROVE EndingsAreTrue'
    <2>1. /\ channel' = Tail(channel) /\ UNCHANGED agent /\ channel # << >>
          /\ drain.at = "receive"
          /\ drain'.at \in {"loop", "receive", "asking"} => Head(channel) \in {"delta", "approval"}
      BY <1>6, <1>0 DEF Receive, DrainRec, Leave, Drains
    <2>2. /\ Len(channel) \in Nat /\ Len(channel') \in Nat /\ Len(channel) = Len(channel') + 1
          /\ Head(channel) = channel[1]
          /\ \A i \in 1 .. Len(channel') : channel'[i] = channel[i + 1] /\ i + 1 \in 1 .. Len(channel)
      BY <2>1, <1>0
    <2>3. \A i \in 1 .. Len(channel') : channel'[i] \in Ending =>
              agent'.run \in {"none", "over"} /\ (channel'[i] # "closed" => channel'[i] = agent'.end)
      BY <2>1, <2>2 DEF EndingsAreTrue
    <2>4. ASSUME drain'.at \in {"loop", "receive", "asking"}, NEW i \in 1 .. Len(channel'), channel'[i] = "closed"
          PROVE  agent'.end = "closed" \/ \E j \in 1 .. i - 1 : channel'[j] \in Ending \ {"closed"}
      <3>1. agent.end = "closed" \/ \E j \in 1 .. (i + 1) - 1 : channel[j] \in Ending \ {"closed"}
        BY <2>1, <2>2, <2>4 DEF EndingsAreTrue
      <3>2. ASSUME NEW j \in 1 .. (i + 1) - 1, channel[j] \in Ending \ {"closed"}
            PROVE  \E k \in 1 .. i - 1 : channel'[k] \in Ending \ {"closed"}
        <4>1. channel[1] \notin Ending
          BY <2>1, <2>2, <2>4 DEF Ending, Finals
        <4>2. j # 1
          BY <4>1, <3>2
        <4>3. j - 1 \in 1 .. i - 1 /\ j - 1 \in 1 .. Len(channel') /\ (j - 1) + 1 = j
          BY <4>2, <2>2, <2>4
        <4>4. channel'[j - 1] = channel[j]
          BY <4>3, <2>2
        <4>. QED
          BY <4>3, <4>4, <3>2
      <3>. QED
        BY <3>1, <3>2, <2>1
    <2>5. ASSUME drain'.at \in {"loop", "receive", "asking"}, agent'.run = "over"
          PROVE  \E i \in 1 .. Len(channel') : channel'[i] = agent'.end /\ agent'.end \in Ending
      <3>1. PICK i \in 1 .. Len(channel) : channel[i] = agent.end /\ agent.end \in Ending
        BY <2>1, <2>5 DEF EndingsAreTrue
      <3>2. channel[1] \notin Ending
        BY <2>1, <2>2, <2>5 DEF Ending, Finals
      <3>3. i - 1 \in 1 .. Len(channel') /\ (i - 1) + 1 = i
        BY <3>1, <3>2, <2>2
      <3>. QED
        BY <3>1, <3>3, <2>1, <2>2
    <2>. QED
      BY <2>1, <2>3, <2>4, <2>5 DEF EndingsAreTrue
  <1>7. ASSUME OwnerAnswers PROVE EndingsAreTrue'
    BY <1>0, <1>7, EndingsStay DEF DrainRec, AgentRec, OwnerAnswers, Drains
  <1>8. ASSUME OwnerGivesUp PROVE EndingsAreTrue'
    BY <1>0, <1>8, EndingsStay DEF DrainRec, AgentRec, OwnerGivesUp, cancel_run, Leave
  <1>9. ASSUME close_session PROVE EndingsAreTrue'
    <2>1. /\ drain'.at = "over" /\ UNCHANGED channel /\ agent'.end = agent.end
          /\ agent'.run = (IF agent.run \in {"running", "waiting"} THEN "over" ELSE agent.run)
      BY <1>9, <1>0 DEF close_session, DrainRec, AgentRec, RunIsOn
    <2>. QED
      BY <2>1 DEF EndingsAreTrue
  <1>10. ASSUME AgentSays PROVE EndingsAreTrue'
    BY <1>0, <1>10, EndingPosted DEF AgentRec, AgentSays, AgentEvents, Ending, Finals, EndingsAreTrue
  <1>11. ASSUME AgentAsks PROVE EndingsAreTrue'
    BY <1>0, <1>11, EndingPosted DEF AgentRec, AgentAsks, AgentEvents, Ending, Finals, EndingsAreTrue
  <1>12. ASSUME OtherAnswers PROVE EndingsAreTrue'
    BY <1>0, <1>12, EndingsStay DEF AgentRec, OtherAnswers
  <1>13. ASSUME NEW e \in Finals \cup {"fatal"}, AgentEnds(e) PROVE EndingsAreTrue'
    <2>1. \A i \in 1 .. Len(channel) : channel[i] \notin Ending
      BY <1>13 DEF AgentEnds, EndingsAreTrue
    <2>2. agent'.run = "over" /\ agent'.end = e /\ UNCHANGED drain /\ Posts(e) /\ e \in AgentEvents /\ e # "closed"
          /\ e \in Ending
      BY <1>13, <1>0 DEF AgentEnds, AgentRec, AgentEvents, Finals, Ending
    <2>. QED
      BY <2>1, <2>2, EndingPosted
  <1>14. ASSUME AgentDies PROVE EndingsAreTrue'
    <2>1. UNCHANGED drain /\ Posts("closed") /\ "closed" \in AgentEvents
      BY <1>14 DEF AgentDies, AgentEvents
    <2>2. CASE agent.run \in {"running", "waiting"}
      <3>1. agent'.run = "over" /\ agent'.end = "closed"
        BY <2>2, <1>14, <1>0 DEF AgentDies, AgentRec, RunIsOn
      <3>2. \A i \in 1 .. Len(channel) : channel[i] \notin Ending
        BY <2>2 DEF EndingsAreTrue
      <3>. QED
        BY <2>1, <3>1, <3>2, EndingPosted DEF Ending
    <2>3. CASE agent.run \in {"none", "over"}
      <3>1. agent'.run = agent.run /\ agent'.end = agent.end /\ agent.session = "open"
        BY <2>3, <1>14, <1>0 DEF AgentDies, AgentRec, RunIsOn
      <3>2. drain.at \in {"loop", "receive", "asking"} =>
                agent.end = "closed" \/ \E i \in 1 .. Len(channel) : channel[i] \in Ending \ {"closed"}
        BY <3>1, <2>3 DEF EndingsAreTrue, DrainIsStaged
      <3>. QED
        <4>1. agent'.run \in {"none", "over"} /\ (agent'.run # "over" => agent'.end = "none")
          BY <2>3, <3>1 DEF EndingsAreTrue
        <4>2. "closed" \in Ending
          BY DEF Ending
        <4>. QED
          BY <2>1, <3>1, <3>2, <4>1, <4>2, EndingPosted
    <2>. QED
      BY <2>2, <2>3, <1>0 DEF AgentRec
  <1>15. ASSUME TokenCancelled \/ DeadlinePasses \/ SettlePasses PROVE EndingsAreTrue'
    <2>1. UNCHANGED <<drain, agent, channel>>
      BY <1>15 DEF TokenCancelled, DeadlinePasses, SettlePasses
    <2>. QED
      BY <2>1 DEF EndingsAreTrue
  <1>. QED
    BY <1>1, <1>2, <1>3, <1>4, <1>5, <1>6, <1>7, <1>8, <1>9, <1>10, <1>11, <1>12, <1>13, <1>14, <1>15
    DEF DrainNext, DrainStep

LEMMA StagesStep == DrainTypeOK /\ DrainIsStaged /\ DrainNext => DrainIsStaged'
  <1>. SUFFICES ASSUME DrainTypeOK, DrainIsStaged PROVE DrainNext => DrainIsStaged'
    OBVIOUS
  <1>0. agent \in AgentRec /\ drain \in DrainRec
    BY DrainShape
  <1>1. ASSUME SessionCreate PROVE DrainIsStaged'
    BY <1>0, <1>1 DEF DrainRec, AgentRec, SessionCreate, Leave, Drains, DrainIsStaged
  <1>2. ASSUME SessionSubscribe PROVE DrainIsStaged'
    BY <1>0, <1>2 DEF DrainRec, SessionSubscribe, Leave, Drains, DrainIsStaged
  <1>3. ASSUME start_run PROVE DrainIsStaged'
    BY <1>0, <1>3 DEF DrainRec, AgentRec, start_run, Leave, Drains, DrainIsStaged
  <1>4. ASSUME Watch PROVE DrainIsStaged'
    BY <1>0, <1>4 DEF DrainRec, AgentRec, Watch, cancel_run, Leave, Drains, DrainIsStaged
  <1>5. ASSUME recv_timeout PROVE DrainIsStaged'
    BY <1>0, <1>5 DEF DrainRec, recv_timeout, Drains, DrainIsStaged
  <1>6. ASSUME Receive PROVE DrainIsStaged'
    <2>1. /\ UNCHANGED agent /\ agent.run # "none" /\ drain.result = "none"
          /\ (drain'.at \in {"loop", "asking"} /\ drain'.result = "none") \/ drain'.at = "close"
      BY <1>0, <1>6 DEF DrainRec, Receive, Leave, Drains, DrainIsStaged
    <2>. QED
      BY <2>1 DEF DrainIsStaged
  <1>7. ASSUME OwnerAnswers PROVE DrainIsStaged'
    BY <1>0, <1>7 DEF DrainRec, AgentRec, OwnerAnswers, Drains, DrainIsStaged
  <1>8. ASSUME OwnerGivesUp PROVE DrainIsStaged'
    BY <1>0, <1>8 DEF DrainRec, AgentRec, OwnerGivesUp, cancel_run, Leave, DrainIsStaged, Drains
  <1>9. ASSUME close_session PROVE DrainIsStaged'
    BY <1>0, <1>9 DEF DrainRec, AgentRec, close_session, Drains, RunIsOn, DrainIsStaged
  <1>10. ASSUME AgentSays PROVE DrainIsStaged'
    BY <1>0, <1>10 DEF AgentRec, AgentSays, DrainIsStaged
  <1>11. ASSUME AgentAsks PROVE DrainIsStaged'
    BY <1>0, <1>11 DEF AgentRec, AgentAsks, DrainIsStaged
  <1>12. ASSUME OtherAnswers PROVE DrainIsStaged'
    BY <1>0, <1>12 DEF AgentRec, OtherAnswers, DrainIsStaged
  <1>13. ASSUME NEW e \in Finals \cup {"fatal"}, AgentEnds(e) PROVE DrainIsStaged'
    BY <1>0, <1>13 DEF AgentRec, AgentEnds, DrainIsStaged
  <1>14. ASSUME AgentDies PROVE DrainIsStaged'
    BY <1>0, <1>14 DEF AgentRec, AgentDies, RunIsOn, DrainIsStaged
  <1>15. ASSUME TokenCancelled \/ DeadlinePasses \/ SettlePasses PROVE DrainIsStaged'
    <2>1. UNCHANGED <<drain, agent, channel>>
      BY <1>15 DEF TokenCancelled, DeadlinePasses, SettlePasses
    <2>. QED
      BY <2>1 DEF DrainIsStaged
  <1>. QED
    BY <1>1, <1>2, <1>3, <1>4, <1>5, <1>6, <1>7, <1>8, <1>9, <1>10, <1>11, <1>12, <1>13, <1>14, <1>15
    DEF DrainNext, DrainStep

(* A result stands while its grounds do: the end of a run is final, and so  *)
(* are the deadline and the order to stop.                                  *)
LEMMA ResultStays ==
  ASSUME DrainTypeOK, DrainIsHonest, drain'.result = drain.result, drain'.output = drain.output,
         drain.cancelSent => drain'.cancelSent, drain.result # "none" => drain'.cancelSent = drain.cancelSent,
         control.expired => control'.expired,
         agent.end # "none" => agent'.end = agent.end /\ agent'.said = agent.said,
         drain'.at = "over" => drain.at = "over" \/ agent'.session # "open" \/ agent'.run = "none",
         drain.at = "over" => agent'.session = agent.session \/ agent'.session # "open",
         drain.at = "over" => agent'.run = agent.run,
         DrainTypeOK'
  PROVE  DrainIsHonest'
  BY DEF DrainIsHonest, Drains

LEMMA FinishSays ==
  ASSUME NEW cancelled \in BOOLEAN, NEW expired \in BOOLEAN, NEW w
  PROVE  /\ finish(cancelled, expired, w) = "succeeded" => w = "success" /\ ~cancelled
         /\ finish(cancelled, expired, w) = "cancelled" => cancelled \/ w = "cancelled"
         /\ finish(cancelled, expired, w) = "timeout" => expired
         /\ finish(cancelled, expired, w) = "failed" => w # "success" /\ w # "cancelled"
  BY DEF finish

LEMMA HonestStep == DrainInv /\ DrainTypeOK' /\ DrainNext => DrainIsHonest'
  <1>. SUFFICES ASSUME DrainInv, DrainTypeOK' PROVE DrainNext => DrainIsHonest'
    OBVIOUS
  <1>. USE DEF DrainInv
  <1>0. agent \in AgentRec /\ drain \in DrainRec /\ DrainTypeOK /\ channel \in Seq(AgentEvents)
    BY DrainShape DEF DrainIsHonest
  <1>1. ASSUME SessionCreate PROVE DrainIsHonest'
    BY <1>0, <1>1 DEF DrainRec, AgentRec, SessionCreate, Leave, Drains, DrainIsStaged, DrainIsHonest
  <1>2. ASSUME SessionSubscribe PROVE DrainIsHonest'
    BY <1>0, <1>2 DEF DrainRec, SessionSubscribe, Leave, Drains, DrainIsStaged, DrainIsHonest
  <1>3. ASSUME start_run PROVE DrainIsHonest'
    BY <1>0, <1>3 DEF DrainRec, AgentRec, start_run, Leave, Drains, DrainIsStaged, DrainIsHonest
  <1>4. ASSUME Watch PROVE DrainIsHonest'
    <2>1. drain.result = "none" /\ UNCHANGED control /\ drain'.at # "over"
      BY <1>0, <1>4 DEF Watch, Drains, DrainIsStaged, DrainRec, Leave
    <2>2. CASE drain'.result = "none"
      BY <2>1, <2>2, <1>0 DEF DrainIsHonest, Drains
    <2>3. CASE drain'.result # "none"
      <3>1. drain.cancelSent /\ drain'.cancelSent = drain.cancelSent
            /\ drain'.result = finish(TRUE, control.expired, "none")
        BY <2>1, <2>3, <1>0, <1>4 DEF Watch, Leave, DrainRec
      <3>2. (drain'.result = "timeout" /\ control.expired) \/ drain'.result = "cancelled"
        BY <3>1 DEF finish
      <3>. QED
        BY <2>1, <3>1, <3>2 DEF DrainIsHonest, Drains
    <2>. QED
      BY <2>2, <2>3
  <1>5. ASSUME recv_timeout PROVE DrainIsHonest'
    BY <1>0, <1>5 DEF DrainRec, recv_timeout, Drains, DrainIsStaged, DrainIsHonest
  <1>6. ASSUME Receive PROVE DrainIsHonest'
    <2>1. drain.result = "none" /\ UNCHANGED <<agent, control>> /\ drain'.at # "over" /\ channel # << >>
          /\ drain.at = "receive" /\ Head(channel) \in AgentEvents
      <3>1. drain.result = "none" /\ UNCHANGED <<agent, control>> /\ channel # << >> /\ drain.at = "receive"
        BY <1>6 DEF Receive, Drains, DrainIsStaged
      <3>2. drain'.at # "over"
        BY <1>0, <1>6 DEF Receive, DrainRec, Leave
      <3>. QED
        BY <1>0, <3>1, <3>2
    <2>2. CASE drain'.result = "none"
      BY <2>1, <2>2, <1>0 DEF DrainIsHonest, Drains
    <2>3. CASE drain'.result # "none"
      <3> DEFINE word == IF Head(channel) \in Finals THEN Head(channel) ELSE "none"
      <3>1. /\ Head(channel) \notin {"delta", "approval"}
            /\ drain'.cancelSent = drain.cancelSent /\ drain'.output = drain.output
            /\ drain'.result = finish(drain.cancelSent, control.expired, word)
        BY <2>1, <2>3, <1>0, <1>6 DEF Receive, Leave, DrainRec
      <3>2. Head(channel) \in Ending /\ Head(channel) = channel[1] /\ 1 \in 1 .. Len(channel)
        BY <2>1, <3>1, <1>0 DEF Ending, AgentEvents
      <3>3. agent.end = Head(channel)
        BY <2>1, <3>2 DEF EndingsAreTrue
      <3>4. drain.output = agent.said
        <4>1. drain.output \in Nat /\ agent.said \in Nat /\ Tallied(channel, "delta", drain.output, agent.said)
          BY <2>1, <1>0, DrainBoundsAssumption DEF DrainTypeOK, WordsAreCounted
        <4>. QED
          BY <4>1, <2>1, <3>2, <1>0, TallyTake
      <3>. HIDE DEF word
      <3>5. /\ drain'.result = "succeeded" => word = "success" /\ ~drain.cancelSent
            /\ drain'.result = "cancelled" => drain.cancelSent \/ word = "cancelled"
            /\ drain'.result = "timeout" => control.expired
            /\ drain'.result = "failed" => word # "success" /\ word # "cancelled"
        <4>1. drain.cancelSent \in BOOLEAN /\ control.expired \in BOOLEAN
          BY <1>0 DEF DrainTypeOK
        <4>. QED
          BY <3>1, <4>1, FinishSays
      <3>6. /\ word = "success" => agent.end = "success"
            /\ word = "cancelled" => agent.end = "cancelled"
            /\ word \notin {"success", "cancelled"} => agent.end \in {"failed", "fatal", "closed"}
        BY <3>2, <3>3 DEF Ending, Finals, word
      <3>. QED
        BY <2>1, <3>1, <3>4, <3>5, <3>6 DEF DrainIsHonest, Drains
    <2>. QED
      BY <2>2, <2>3
  <1>7. ASSUME OwnerAnswers PROVE DrainIsHonest'
    BY <1>0, <1>7 DEF DrainRec, AgentRec, OwnerAnswers, Drains, DrainIsStaged, DrainIsHonest
  <1>8. ASSUME OwnerGivesUp PROVE DrainIsHonest'
    BY <1>0, <1>8 DEF DrainRec, AgentRec, OwnerGivesUp, cancel_run, Leave, DrainIsStaged, Drains, DrainIsHonest
  <1>9. ASSUME close_session PROVE DrainIsHonest'
    <2>1. /\ drain'.result = drain.result /\ drain'.output = drain.output /\ drain'.cancelSent = drain.cancelSent
          /\ UNCHANGED control /\ agent'.session = "closed" /\ agent'.end = agent.end /\ agent'.said = agent.said
          /\ drain.at = "close"
      BY <1>0, <1>9 DEF DrainRec, AgentRec, close_session, Drains
    <2>. QED
      BY <2>1, <1>0, ResultStays
  <1>10. ASSUME AgentSays \/ AgentAsks \/ OtherAnswers PROVE DrainIsHonest'
    <2>1. /\ UNCHANGED <<drain, control>> /\ agent.end = "none" /\ agent'.session = agent.session
          /\ agent.session = "open" /\ agent'.run # "none" /\ agent.run # "none"
      BY <1>0, <1>10 DEF AgentSays, AgentAsks, OtherAnswers, AgentRec, EndingsAreTrue
    <2>2. drain.at # "over"
      BY <2>1 DEF DrainIsHonest, Drains
    <2>. QED
      BY <2>1, <2>2, <1>0, ResultStays
  <1>11. ASSUME NEW e \in Finals \cup {"fatal"}, AgentEnds(e) PROVE DrainIsHonest'
    <2>1. /\ UNCHANGED <<drain, control>> /\ agent.end = "none" /\ agent'.session = agent.session
          /\ agent.session = "open" /\ agent.run # "none"
      BY <1>0, <1>11 DEF AgentEnds, AgentRec, EndingsAreTrue
    <2>2. drain.at # "over"
      BY <2>1 DEF DrainIsHonest, Drains
    <2>. QED
      BY <2>1, <2>2, <1>0, ResultStays
  <1>12. ASSUME AgentDies PROVE DrainIsHonest'
    <2>1. /\ UNCHANGED <<drain, control>> /\ agent'.session = "closed" /\ agent.session = "open"
          /\ agent'.said = agent.said
          /\ agent.run \in {"none", "over"} => agent'.run = agent.run /\ agent'.end = agent.end
      BY <1>0, <1>12 DEF AgentDies, AgentRec, RunIsOn
    <2>2. drain.at = "over" => agent.run = "none"
      BY <2>1 DEF DrainIsHonest, Drains
    <2>3. agent.end # "none" => agent.run = "over"
      BY DEF EndingsAreTrue
    <2>. QED
      BY <2>1, <2>2, <2>3, <1>0, ResultStays
  <1>13. ASSUME TokenCancelled \/ DeadlinePasses \/ SettlePasses PROVE DrainIsHonest'
    <2>1. UNCHANGED <<drain, agent>> /\ (control.expired => control'.expired)
      BY <1>13, <1>0 DEF TokenCancelled, DeadlinePasses, SettlePasses, DrainTypeOK
    <2>. QED
      BY <2>1, <1>0, ResultStays
  <1>. QED
    BY <1>1, <1>2, <1>3, <1>4, <1>5, <1>6, <1>7, <1>8, <1>9, <1>10, <1>11, <1>12, <1>13
    DEF DrainNext, DrainStep

(* What an execution reports is what happened, for agents that say and ask  *)
(* any number of things: success only of a run that succeeded, with all of  *)
(* its text and no order to stop; a timeout only after the deadline; and    *)
(* the session it opened is closed, unless nothing was started in it.       *)
THEOREM ExecutionStaysHonest == LocalSpec => []DrainIsHonest
  <1>1. LocalInit => DrainInv
    <2>. SUFFICES ASSUME DrainInit PROVE DrainInv
      BY DEF LocalInit
    <2>1. DrainIsHonest
      BY DrainBoundsAssumption DEF DrainInit, DrainIsHonest, DrainTypeOK, Drains
    <2>2. \A e \in AgentEvents : Tallied(channel, e, 0, 0)
      <3>1. channel = << >> /\ Len(channel) = 0
        BY DEF DrainInit
      <3>2. ASSUME NEW e \in AgentEvents PROVE Tally([j \in 1 .. Len(channel) + 1 |-> 0], channel, e, 0, 0)
        BY <3>1 DEF Tally
      <3>. QED
        BY <3>1, <3>2 DEF Tallied
    <2>3. WordsAreCounted
      BY <2>2 DEF DrainInit, WordsAreCounted, AgentEvents
    <2>4. EndingsAreTrue /\ DrainIsStaged
      BY DEF DrainInit, EndingsAreTrue, DrainIsStaged
    <2>. QED
      BY <2>1, <2>3, <2>4 DEF DrainInv
  <1>2. DrainInv /\ [LocalNext]_localVars => DrainInv'
    <2>1. ASSUME DrainInv, UNCHANGED drainVars PROVE DrainInv'
      <3>1. UNCHANGED <<drain, agent, channel, control>>
        BY <2>1 DEF drainVars
      <3>2. DrainIsHonest'
        BY <2>1, <3>1 DEF DrainInv, DrainIsHonest, DrainTypeOK, Drains
      <3>3. WordsAreCounted'
        BY <2>1, <3>1 DEF DrainInv, WordsAreCounted, Tallied, Tally
      <3>4. EndingsAreTrue' /\ DrainIsStaged'
        BY <2>1, <3>1 DEF DrainInv, EndingsAreTrue, DrainIsStaged
      <3>. QED
        BY <3>2, <3>3, <3>4 DEF DrainInv
    <2>2. ASSUME DrainInv, DrainNext PROVE DrainInv'
      <3>1. DrainTypeOK'
        BY <2>2, DrainTypes DEF DrainInv, DrainIsHonest
      <3>. QED
        BY <2>2, <3>1, WordsStep, DrainEndingsStep, StagesStep, HonestStep DEF DrainInv, DrainIsHonest
    <2>. QED
      BY <2>1, <2>2 DEF LocalNext, localVars
  <1>3. DrainInv => DrainIsHonest
    BY DEF DrainInv
  <1>. QED
    BY <1>1, <1>2, <1>3, PTL DEF LocalSpec, LocalSafe

-----------------------------------------------------------------------------
(* The approval records. *)

Numbered(k) == k[2] \in 1 .. owner[k[1]].used

(* Servers are numbered as they are started, and no file names one that was *)
(* not started yet.                                                         *)
ServersAreNumbered ==
    /\ \A o \in Owners, k \in ServerIds :
           k \in {owner[o].slot, owner[o].dropping} => k[1] = o /\ Numbered(k)
    /\ \A k \in ServerIds : k \in files.records \/ files.lock[k] # Free => Numbered(k)
    /\ \A i \in Inputs, k \in ServerIds : files.pending[i] = k => k[1] = OwnerOf[i] /\ Numbered(k)
    /\ \A s \in Submitters, k \in ServerIds : submitter[s].server = k => Numbered(k)

(* A lock is its owner's or a sweeper's; the server in the slot of a living *)
(* owner is whole, and the one that is being dropped is another.            *)
ChannelsAreWhole ==
    /\ \A k \in ServerIds : files.lock[k] \in Owners => files.lock[k] = k[1]
    /\ \A o \in Owners :
           /\ owner[o].at \in {"open", "flagged", "closed"} => owner[o].dropping = NoServer
           /\ owner[o].slot # NoServer => owner[o].slot # owner[o].dropping
           /\ \A k \in ServerIds : owner[o].up /\ owner[o].slot = k =>
                  k \in files.records /\ k \in files.sockets /\ files.lock[k] = o
           /\ \A k \in ServerIds : owner[o].up /\ owner[o].dropping = k => files.lock[k] = o

(* A submitter names a server while it is at it, and holds the lock of the  *)
(* one it sweeps; a record is disowned when its server's is gone.           *)
SweeperHolds(s) ==
    /\ submitter[s].at \in Asking => submitter[s].server \in ServerIds /\ submitter[s].input \in Inputs
    /\ submitter[s].at \in {"sweep records", "sweep files"} => files.lock[submitter[s].server] = s
    /\ submitter[s].at = "disown" => submitter[s].server \notin files.records

SweepersHold == \A s \in Submitters : SweeperHolds(s)

(* One request at a time looks at the slot of an owner.                     *)
OneRegisters ==
    /\ \A i, j \in Inputs : input[i] \in Registering /\ input[j] \in Registering /\ OwnerOf[i] = OwnerOf[j] => i = j
    /\ \A i \in Inputs :
           LET o == OwnerOf[i]
           IN /\ input[i] \in {"bind", "publish"} => owner[o].slot = NoServer /\ owner[o].used < MaxServers
              /\ input[i] = "register" => owner[o].slot # NoServer
              /\ input[i] = "publish" => NextServer(o) \in files.sockets

(* The record of a request is one of its owner's slot, or of the server     *)
(* that is being dropped.                                                   *)
RecordsFollow ==
    \A i \in Inputs :
        LET o == OwnerOf[i]
        IN /\ files.pending[i] # NoServer => input[i] \in {"open", "settled", "gone"}
           /\ owner[o].up /\ files.pending[i] # NoServer /\ files.pending[i] # owner[o].slot =>
                  owner[o].at \in {"joining", "clearing"} /\ files.pending[i] = owner[o].dropping
           /\ owner[o].up /\ input[i] = "gone" /\ files.pending[i] # NoServer =>
                  files.pending[i] # owner[o].slot
           /\ owner[o].up /\ owner[o].at = "open" /\ input[i] = "open" =>
                  files.pending[i] = owner[o].slot /\ owner[o].slot # NoServer

ApprovalsInv ==
    ApprovalsTypeOK /\ ServersAreNumbered /\ ChannelsAreWhole /\ SweepersHold /\ OneRegisters /\ RecordsFollow

FilesRec == [records : SUBSET ServerIds, sockets : SUBSET ServerIds,
             lock : [ServerIds -> Owners \cup Submitters \cup {Free}],
             pending : [Inputs -> ServerIds \cup {NoServer}]]

LEMMA ServerFacts ==
  ASSUME NEW k \in ServerIds
  PROVE  k[1] \in Owners /\ k[2] \in 1 .. MaxServers /\ k = <<k[1], k[2]>> /\ k # NoServer
  BY DEF ServerIds, NoServer

LEMMA NextFacts ==
  ASSUME ApprovalsTypeOK, NEW o \in Owners, owner[o].used < MaxServers
  PROVE  /\ NextServer(o) \in ServerIds /\ NextServer(o)[1] = o
         /\ NextServer(o)[2] = owner[o].used + 1 /\ NextServer(o) # NoServer /\ ~Numbered(NextServer(o))
  <1>1. owner[o].used \in 0 .. MaxServers /\ MaxServers \in Nat
    BY ApprovalsAssumption DEF ApprovalsTypeOK, Owner
  <1>. QED
    BY <1>1 DEF NextServer, ServerIds, NoServer, Numbered

LEMMA ApprovalTypes == ApprovalsInv /\ ApprovalsNext => ApprovalsTypeOK'
  <1>. SUFFICES ASSUME ApprovalsInv PROVE ApprovalsNext => ApprovalsTypeOK'
    OBVIOUS
  <1>0. /\ ApprovalsTypeOK /\ owner \in [Owners -> Owner] /\ input \in [Inputs -> InputAt] /\ files \in FilesRec
        /\ submitter \in [Submitters -> Submitter] /\ \A i \in Inputs : OwnerOf[i] \in Owners
    BY ApprovalsAssumption DEF ApprovalsInv, ApprovalsTypeOK, FilesRec
  <1>a. ASSUME owner' \in [Owners -> Owner], input' \in [Inputs -> InputAt], files' \in FilesRec,
               submitter' \in [Submitters -> Submitter]
        PROVE  ApprovalsTypeOK'
    BY <1>a DEF ApprovalsTypeOK, FilesRec
  <1>b. \A i \in Inputs, at \in InputAt : [input EXCEPT ![i] = at] \in [Inputs -> InputAt]
    BY <1>0
  <1>c. \A s \in Submitters, at \in {"idle", "accepted", "refused", "dead"} \cup Asking :
            [submitter EXCEPT ![s].at = at] \in [Submitters -> Submitter]
    BY <1>0 DEF Submitter
  <1>d. \A i \in Inputs : [files EXCEPT !.pending[i] = NoServer] \in FilesRec
    BY <1>0 DEF FilesRec
  <1>e. ASSUME NEW k PROVE [files EXCEPT !.pending = Without(k)] \in FilesRec
    BY <1>0 DEF FilesRec, Without
  <1>f. ASSUME NEW h PROVE [files EXCEPT !.lock = [k \in ServerIds |-> IF @[k] = h THEN Free ELSE @[k]]] \in FilesRec
    BY <1>0 DEF FilesRec
  <1>1. ASSUME NEW i \in Inputs, CheckFlag(i) PROVE ApprovalsTypeOK'
    BY <1>0, <1>1, <1>a, <1>b DEF CheckFlag, InputAt
  <1>2. ASSUME NEW i \in Inputs, LookAtSlot(i) PROVE ApprovalsTypeOK'
    BY <1>0, <1>2, <1>a, <1>b DEF LookAtSlot, InputAt, Registering
  <1>3. ASSUME NEW i \in Inputs, BindSocket(i) PROVE ApprovalsTypeOK'
    <2>1. NextServer(OwnerOf[i]) \in ServerIds
      BY <1>0, <1>3, NextFacts DEF BindSocket, ApprovalsInv, OneRegisters
    <2>2. files' \in FilesRec
      BY <1>0, <1>3, <2>1 DEF BindSocket, FilesRec
    <2>. QED
      BY <1>0, <1>3, <1>a, <1>b, <2>2 DEF BindSocket, InputAt, Registering
  <1>4. ASSUME NEW i \in Inputs, PublishOwner(i) PROVE ApprovalsTypeOK'
    <2>1. NextServer(OwnerOf[i]) \in ServerIds /\ owner[OwnerOf[i]].used + 1 \in 0 .. MaxServers
      <3>1. owner[OwnerOf[i]].used < MaxServers /\ owner[OwnerOf[i]].used \in 0 .. MaxServers /\ MaxServers \in Nat
        BY <1>0, <1>4, ApprovalsAssumption DEF PublishOwner, ApprovalsInv, OneRegisters, Owner
      <3>. QED
        BY <1>0, <3>1, NextFacts
    <2>2. files' \in FilesRec
      BY <1>0, <1>4, <2>1 DEF PublishOwner, write_owner_record, FilesRec
    <2>3. owner' \in [Owners -> Owner]
      BY <1>0, <1>4, <2>1 DEF PublishOwner, Owner
    <2>. QED
      BY <1>0, <1>4, <1>a, <1>b, <2>2, <2>3 DEF PublishOwner, InputAt, Registering
  <1>5. ASSUME NEW i \in Inputs, register_pending(i) PROVE ApprovalsTypeOK'
    <2>1. owner[OwnerOf[i]].slot \in ServerIds \cup {NoServer}
      BY <1>0 DEF Owner
    <2>2. files' \in FilesRec
      BY <1>0, <1>5, <2>1 DEF register_pending, FilesRec
    <2>. QED
      BY <1>0, <1>5, <1>a, <1>b, <2>2 DEF register_pending, InputAt
  <1>6. ASSUME NEW i \in Inputs, RegisterFails(i) PROVE ApprovalsTypeOK'
    <2>1. owner[OwnerOf[i]].used + (IF input[i] = "publish" THEN 1 ELSE 0) \in 0 .. MaxServers
      <3>1. /\ input[i] = "publish" => owner[OwnerOf[i]].used < MaxServers
            /\ owner[OwnerOf[i]].used \in 0 .. MaxServers /\ MaxServers \in Nat
        BY <1>0, <1>6, ApprovalsAssumption DEF ApprovalsInv, OneRegisters, Owner
      <3>. QED
        BY <3>1
    <2>2. owner' \in [Owners -> Owner]
      <3>1. owner' = [owner EXCEPT ![OwnerOf[i]].used = @ + (IF input[i] = "publish" THEN 1 ELSE 0)]
        BY <1>6 DEF RegisterFails
      <3>. QED
        BY <1>0, <2>1, <3>1 DEF Owner
    <2>. QED
      BY <1>0, <1>6, <1>a, <1>b, <2>2 DEF RegisterFails, InputAt
  <1>7. ASSUME NEW i \in Inputs, Settle(i) PROVE ApprovalsTypeOK'
    BY <1>0, <1>7, <1>a, <1>b DEF Settle, InputAt
  <1>8. ASSUME NEW i \in Inputs, RemoveRecord(i) PROVE ApprovalsTypeOK'
    BY <1>0, <1>8, <1>a, <1>b, <1>d DEF RemoveRecord, remove_pending, InputAt
  <1>9. ASSUME NEW o \in Owners, ShutdownStarts(o) PROVE ApprovalsTypeOK'
    <2>1. owner' \in [Owners -> Owner]
      BY <1>0, <1>9 DEF ShutdownStarts, Owner, Closing
    <2>. QED
      BY <1>0, <1>9, <1>a, <2>1 DEF ShutdownStarts
  <1>10. ASSUME NEW o \in Owners, TakeServer(o) PROVE ApprovalsTypeOK'
    <2>1. owner' \in [Owners -> Owner]
      BY <1>0, <1>10 DEF TakeServer, Owner, Closing
    <2>. QED
      BY <1>0, <1>10, <1>a, <2>1 DEF TakeServer
  <1>11. ASSUME NEW o \in Owners, JoinThread(o) PROVE ApprovalsTypeOK'
    <2>1. owner' \in [Owners -> Owner]
      BY <1>0, <1>11 DEF JoinThread, Owner, Closing
    <2>. QED
      BY <1>0, <1>11, <1>a, <2>1 DEF JoinThread
  <1>12. ASSUME NEW o \in Owners, ClearRecords(o) PROVE ApprovalsTypeOK'
    <2>1. owner' \in [Owners -> Owner]
      BY <1>0, <1>12 DEF ClearRecords, Owner, Closing
    <2>. QED
      BY <1>0, <1>12, <1>a, <1>e, <2>1 DEF ClearRecords
  <1>13. ASSUME NEW o \in Owners, Unlink(o) PROVE ApprovalsTypeOK'
    <2>1. owner' \in [Owners -> Owner]
      <3>1. owner' = [owner EXCEPT ![o].at = "closed", ![o].dropping = NoServer]
        BY <1>13 DEF Unlink
      <3>. QED
        BY <1>0, <3>1 DEF Owner
    <2>2. files' \in FilesRec
      BY <1>0, <1>13 DEF Unlink, FilesRec
    <2>. QED
      BY <1>0, <1>13, <1>a, <2>1, <2>2 DEF Unlink
  <1>14. ASSUME NEW o \in Owners, ApprovalOwnerDies(o) PROVE ApprovalsTypeOK'
    <2>1. owner' \in [Owners -> Owner]
      BY <1>0, <1>14 DEF ApprovalOwnerDies, Owner
    <2>. QED
      BY <1>0, <1>14, <1>a, <1>f, <2>1 DEF ApprovalOwnerDies
  <1>15. ASSUME NEW s \in Submitters, NEW i \in Inputs, ReadPending(s, i) PROVE ApprovalsTypeOK'
    <2>1. files.pending[i] \in ServerIds \cup {NoServer}
      BY <1>0 DEF FilesRec
    <2>2. submitter' \in [Submitters -> Submitter]
      BY <1>0, <1>15, <2>1 DEF ReadPending, Submitter, Asking
    <2>. QED
      BY <1>0, <1>15, <1>a, <2>2 DEF ReadPending
  <1>16. ASSUME NEW s \in Submitters, OpenOwner(s) PROVE ApprovalsTypeOK'
    BY <1>0, <1>16, <1>a, <1>c DEF OpenOwner, SubmitterMoves, Asking
  <1>17. ASSUME NEW s \in Submitters, TryLock(s) PROVE ApprovalsTypeOK'
    <2>. DEFINE k == submitter[s].server
    <2>1. k \in ServerIds
      BY <1>17 DEF TryLock, SubmitterAt, Asking, ApprovalsInv, SweepersHold, SweeperHolds
    <2>2. UNCHANGED <<owner, input>> /\ \E at \in Asking : SubmitterMoves(s, at)
      BY <1>17 DEF TryLock, Asking
    <2>3. UNCHANGED files \/ files' = [files EXCEPT !.lock[k] = s]
      BY <1>17 DEF TryLock
    <2>4. files' \in FilesRec
      BY <1>0, <2>1, <2>3 DEF FilesRec
    <2>. QED
      BY <1>0, <1>a, <1>c, <2>2, <2>4 DEF SubmitterMoves
  <1>18. ASSUME NEW s \in Submitters, SweepRecords(s) PROVE ApprovalsTypeOK'
    BY <1>0, <1>18, <1>a, <1>c, <1>e DEF SweepRecords, SubmitterMoves, Asking
  <1>19. ASSUME NEW s \in Submitters, SweepFiles(s) PROVE ApprovalsTypeOK'
    <2>1. files' \in FilesRec
      BY <1>0, <1>19 DEF SweepFiles, FilesRec
    <2>. QED
      BY <1>0, <1>19, <1>a, <1>c, <2>1 DEF SweepFiles, SubmitterMoves, Asking
  <1>20. ASSUME NEW s \in Submitters, Disown(s) PROVE ApprovalsTypeOK'
    <2>1. submitter[s].input \in Inputs
      BY <1>20 DEF Disown, SubmitterAt, Asking, ApprovalsInv, SweepersHold, SweeperHolds
    <2>. QED
      BY <1>0, <1>20, <1>a, <1>c, <1>d, <2>1 DEF Disown, SubmitterMoves
  <1>21. ASSUME NEW s \in Submitters, Connect(s) \/ Accept(s) \/ Reply(s) \/ CutOff(s) PROVE ApprovalsTypeOK'
    <2>1. UNCHANGED <<owner, input, files>> /\ \E at \in {"queued", "served", "accepted", "refused"} : SubmitterMoves(s, at)
      BY <1>21 DEF Connect, Accept, Reply, CutOff
    <2>2. PICK at \in {"queued", "served", "accepted", "refused"} : submitter' = [submitter EXCEPT ![s].at = at]
      BY <2>1 DEF SubmitterMoves
    <2>3. at \in {"idle", "accepted", "refused", "dead"} \cup Asking
      BY DEF Asking
    <2>. QED
      BY <1>0, <1>a, <1>c, <2>1, <2>2, <2>3
  <1>22. ASSUME NEW s \in Submitters, HandleConnection(s) PROVE ApprovalsTypeOK'
    <2>1. submitter[s].input \in Inputs
      BY <1>22 DEF HandleConnection, SubmitterAt, Asking, ApprovalsInv, SweepersHold, SweeperHolds
    <2>. QED
      <3>1. /\ UNCHANGED <<owner, files>> /\ \E at \in {"approved", "refused"} : SubmitterMoves(s, at)
            /\ UNCHANGED input \/ input' = [input EXCEPT ![submitter[s].input] = "settled"]
        BY <1>22 DEF HandleConnection
      <3>2. PICK at \in {"approved", "refused"} : submitter' = [submitter EXCEPT ![s].at = at]
        BY <3>1 DEF SubmitterMoves
      <3>4. at \in {"idle", "accepted", "refused", "dead"} \cup Asking
        BY DEF Asking
      <3>3. input' \in [Inputs -> InputAt]
        BY <1>0, <1>b, <2>1, <3>1 DEF InputAt
      <3>. QED
        BY <1>0, <1>a, <1>c, <3>1, <3>2, <3>3, <3>4
  <1>23. ASSUME NEW s \in Submitters, SubmitterDies(s) PROVE ApprovalsTypeOK'
    BY <1>0, <1>23, <1>a, <1>c, <1>f DEF SubmitterDies, SubmitterMoves
  <1>. QED
    BY <1>1, <1>2, <1>3, <1>4, <1>5, <1>6, <1>7, <1>8, <1>9, <1>10, <1>11, <1>12, <1>13, <1>14, <1>15, <1>16,
       <1>17, <1>18, <1>19, <1>20, <1>21, <1>22, <1>23
    DEF ApprovalsNext, InputStep, DropStep, SubmitterStep

(* What the steps leave, field by field. *)
SameOwner(o) == /\ owner'[o].up = owner[o].up /\ owner'[o].at = owner[o].at /\ owner'[o].slot = owner[o].slot
                /\ owner'[o].dropping = owner[o].dropping /\ owner'[o].used = owner[o].used
SameServers(o) == /\ owner'[o].up = owner[o].up /\ owner'[o].slot = owner[o].slot
                  /\ owner'[o].dropping = owner[o].dropping /\ owner'[o].used = owner[o].used
SameFiles == /\ files'.records = files.records /\ files'.sockets = files.sockets
             /\ files'.lock = files.lock /\ files'.pending = files.pending
SameSubmitter(s) == submitter'[s].at = submitter[s].at /\ submitter'[s].input = submitter[s].input
                    /\ submitter'[s].server = submitter[s].server
SameTarget(s) == submitter'[s].input = submitter[s].input /\ submitter'[s].server = submitter[s].server

LEMMA RegisterFailsEffect ==
  ASSUME ApprovalsTypeOK, NEW i \in Inputs, RegisterFails(i)
  PROVE  /\ SameFiles /\ UNCHANGED submitter
         /\ input[i] \in Registering
         /\ \A j \in Inputs : input'[j] = IF j = i THEN "settled" ELSE input[j]
         /\ \A o \in Owners : /\ owner'[o].up = owner[o].up /\ owner'[o].at = owner[o].at
                              /\ owner'[o].slot = owner[o].slot /\ owner'[o].dropping = owner[o].dropping
                              /\ \/ owner'[o].used = owner[o].used
                                 \/ o = OwnerOf[i] /\ input[i] = "publish" /\ owner'[o].used = owner[o].used + 1
  <1>1. owner \in [Owners -> Owner] /\ input \in [Inputs -> InputAt] /\ owner[OwnerOf[i]].used \in Nat
    BY ApprovalsAssumption DEF ApprovalsTypeOK, Owner
  <1>2. UNCHANGED <<files, submitter>> /\ input' = [input EXCEPT ![i] = "settled"] /\ input[i] \in Registering
    BY DEF RegisterFails
  <1>3. owner' = [owner EXCEPT ![OwnerOf[i]].used = @ + (IF input[i] = "publish" THEN 1 ELSE 0)]
    BY DEF RegisterFails
  <1>4. \A o \in Owners : /\ owner'[o].up = owner[o].up /\ owner'[o].at = owner[o].at
                          /\ owner'[o].slot = owner[o].slot /\ owner'[o].dropping = owner[o].dropping
                          /\ owner'[o].used = IF o = OwnerOf[i] THEN owner[o].used + (IF input[i] = "publish" THEN 1 ELSE 0)
                                              ELSE owner[o].used
    BY <1>1, <1>3 DEF Owner
  <1>. QED
    BY <1>1, <1>2, <1>4, ApprovalsAssumption DEF SameFiles

LEMMA PublishEffect ==
  ASSUME ApprovalsTypeOK, NEW i \in Inputs, PublishOwner(i), owner[OwnerOf[i]].used < MaxServers
  PROVE  /\ owner[OwnerOf[i]].up /\ input[i] = "publish" /\ UNCHANGED submitter
         /\ \A j \in Inputs : input'[j] = IF j = i THEN "register" ELSE input[j]
         /\ files'.records = files.records \cup {NextServer(OwnerOf[i])} /\ files'.sockets = files.sockets
         /\ files'.pending = files.pending
         /\ \A k \in ServerIds : files'.lock[k] = IF k = NextServer(OwnerOf[i]) THEN OwnerOf[i] ELSE files.lock[k]
         /\ \A o \in Owners \ {OwnerOf[i]} : SameOwner(o)
         /\ owner'[OwnerOf[i]].up /\ owner'[OwnerOf[i]].at = owner[OwnerOf[i]].at
         /\ owner'[OwnerOf[i]].dropping = owner[OwnerOf[i]].dropping
         /\ owner'[OwnerOf[i]].slot = NextServer(OwnerOf[i])
         /\ owner'[OwnerOf[i]].used = owner[OwnerOf[i]].used + 1
  <1>. DEFINE o == OwnerOf[i]
  <1>1. owner \in [Owners -> Owner] /\ input \in [Inputs -> InputAt] /\ files \in FilesRec /\ o \in Owners
        /\ NextServer(o) \in ServerIds
    BY ApprovalsAssumption, NextFacts DEF ApprovalsTypeOK, FilesRec
  <1>2. /\ owner[o].up /\ input[i] = "publish" /\ UNCHANGED submitter
        /\ owner' = [owner EXCEPT ![o].slot = NextServer(o), ![o].used = @ + 1]
        /\ input' = [input EXCEPT ![i] = "register"]
        /\ files' = [files EXCEPT !.records = @ \cup {NextServer(o)}, !.lock[NextServer(o)] = o]
    BY DEF PublishOwner, write_owner_record
  <1>3. \A p \in Owners \ {o} : SameOwner(p)
    BY <1>1, <1>2 DEF SameOwner, Owner
  <1>4. /\ owner'[o].up /\ owner'[o].at = owner[o].at /\ owner'[o].dropping = owner[o].dropping
        /\ owner'[o].slot = NextServer(o) /\ owner'[o].used = owner[o].used + 1
    BY <1>1, <1>2 DEF Owner
  <1>5. /\ files'.records = files.records \cup {NextServer(o)} /\ files'.sockets = files.sockets
        /\ files'.pending = files.pending
        /\ \A k \in ServerIds : files'.lock[k] = IF k = NextServer(o) THEN o ELSE files.lock[k]
    BY <1>1, <1>2 DEF FilesRec
  <1>. QED
    BY <1>1, <1>2, <1>3, <1>4, <1>5

LEMMA RegisterEffect ==
  ASSUME ApprovalsTypeOK, NEW i \in Inputs, register_pending(i)
  PROVE  /\ owner[OwnerOf[i]].up /\ input[i] = "register" /\ UNCHANGED <<owner, submitter>>
         /\ \A j \in Inputs : input'[j] = IF j = i THEN "open" ELSE input[j]
         /\ files'.records = files.records /\ files'.sockets = files.sockets /\ files'.lock = files.lock
         /\ \A j \in Inputs : files'.pending[j] = IF j = i THEN owner[OwnerOf[i]].slot ELSE files.pending[j]
  BY DEF register_pending, ApprovalsTypeOK

LEMMA RemoveEffect ==
  ASSUME ApprovalsTypeOK, NEW i \in Inputs, RemoveRecord(i)
  PROVE  /\ owner[OwnerOf[i]].up /\ input[i] = "settled" /\ UNCHANGED <<owner, submitter>>
         /\ \A j \in Inputs : input'[j] = IF j = i THEN "gone" ELSE input[j]
         /\ files'.records = files.records /\ files'.sockets = files.sockets /\ files'.lock = files.lock
         /\ \A j \in Inputs \ {i} : files'.pending[j] = files.pending[j]
         /\ \/ files'.pending[i] = NoServer
            \/ files'.pending[i] = files.pending[i] /\ files.pending[i] # owner[OwnerOf[i]].slot
  <1>1. files \in FilesRec /\ input \in [Inputs -> InputAt]
    BY DEF ApprovalsTypeOK, FilesRec
  <1>2. \/ files' = [files EXCEPT !.pending[i] = NoServer]
        \/ files' = files /\ (files.pending[i] # owner[OwnerOf[i]].slot \/ owner[OwnerOf[i]].slot = NoServer)
    BY DEF RemoveRecord, remove_pending
  <1>3. CASE files' = [files EXCEPT !.pending[i] = NoServer]
    BY <1>1, <1>3 DEF RemoveRecord, FilesRec
  <1>4. CASE files' = files /\ (files.pending[i] # owner[OwnerOf[i]].slot \/ owner[OwnerOf[i]].slot = NoServer)
    BY <1>1, <1>4 DEF RemoveRecord
  <1>. QED
    BY <1>2, <1>3, <1>4

LEMMA ClearEffect ==
  ASSUME ApprovalsTypeOK, NEW k, files' = [files EXCEPT !.pending = Without(k)]
  PROVE  /\ files'.records = files.records /\ files'.sockets = files.sockets /\ files'.lock = files.lock
         /\ \A j \in Inputs : files'.pending[j] = IF files.pending[j] = k THEN NoServer ELSE files.pending[j]
  BY DEF Without, ApprovalsTypeOK

LEMMA RemovalEffect ==
  ASSUME ApprovalsTypeOK, NEW k \in ServerIds,
         files' = [files EXCEPT !.records = @ \ {k}, !.sockets = @ \ {k}, !.lock[k] = Free]
         \/ files' = [files EXCEPT !.sockets = @ \ {k}, !.records = @ \ {k}, !.lock[k] = Free]
  PROVE  /\ files'.records = files.records \ {k} /\ files'.sockets = files.sockets \ {k}
         /\ files'.pending = files.pending
         /\ \A q \in ServerIds : files'.lock[q] = IF q = k THEN Free ELSE files.lock[q]
  BY DEF ApprovalsTypeOK

LEMMA DeathEffect ==
  ASSUME ApprovalsTypeOK, NEW h,
         files' = [files EXCEPT !.lock = [k \in ServerIds |-> IF @[k] = h THEN Free ELSE @[k]]]
  PROVE  /\ files'.records = files.records /\ files'.sockets = files.sockets /\ files'.pending = files.pending
         /\ \A q \in ServerIds : files'.lock[q] = IF files.lock[q] = h THEN Free ELSE files.lock[q]
  BY DEF ApprovalsTypeOK

LEMMA FlagEffect ==
  ASSUME ApprovalsTypeOK, NEW o \in Owners, ShutdownStarts(o)
  PROVE  /\ \A p \in Owners : SameServers(p) /\ (p # o => SameOwner(p))
         /\ owner[o].at = "open" /\ owner'[o].at = "flagged" /\ UNCHANGED <<input, files, submitter>>
  <1>0. owner \in [Owners -> Owner]
    BY DEF ApprovalsTypeOK
  <1>. QED
    BY <1>0 DEF ShutdownStarts, Owner, SameOwner, SameServers

LEMMA JoinEffect ==
  ASSUME ApprovalsTypeOK, NEW o \in Owners, JoinThread(o)
  PROVE  /\ \A p \in Owners : SameServers(p) /\ (p # o => SameOwner(p))
         /\ owner[o].at = "joining" /\ owner'[o].at = "clearing" /\ UNCHANGED <<input, files, submitter>>
  <1>0. owner \in [Owners -> Owner]
    BY DEF ApprovalsTypeOK
  <1>. QED
    BY <1>0 DEF JoinThread, Owner, SameOwner, SameServers

LEMMA ClearingEffect ==
  ASSUME ApprovalsTypeOK, NEW o \in Owners, ClearRecords(o)
  PROVE  /\ \A p \in Owners : SameServers(p) /\ (p # o => SameOwner(p))
         /\ owner[o].at = "clearing" /\ owner'[o].at = "unlinking" /\ UNCHANGED <<input, submitter>>
  <1>0. owner \in [Owners -> Owner]
    BY DEF ApprovalsTypeOK
  <1>. QED
    BY <1>0 DEF ClearRecords, Owner, SameOwner, SameServers

LEMMA UnlinkEffect ==
  ASSUME ApprovalsTypeOK, NEW o \in Owners, Unlink(o)
  PROVE  /\ \A p \in Owners \ {o} : SameOwner(p)
         /\ owner[o].up /\ owner[o].at = "unlinking" /\ owner'[o].up /\ owner'[o].at = "closed"
         /\ owner'[o].slot = owner[o].slot /\ owner'[o].used = owner[o].used
         /\ owner'[o].dropping = NoServer /\ UNCHANGED <<input, submitter>>
  <1>0. owner \in [Owners -> Owner]
    BY DEF ApprovalsTypeOK
  <1>. QED
    BY <1>0 DEF Unlink, Owner, SameOwner, SameServers

LEMMA TakeEffect ==
  ASSUME ApprovalsTypeOK, NEW o \in Owners, TakeServer(o)
  PROVE  /\ \A p \in Owners \ {o} : SameOwner(p)
         /\ owner[o].up /\ owner[o].at \in {"flagged", "closed"} /\ owner'[o].up
         /\ owner'[o].at = (IF owner[o].slot = NoServer THEN "closed" ELSE "joining")
         /\ owner'[o].slot = NoServer /\ owner'[o].used = owner[o].used
         /\ owner'[o].dropping = owner[o].slot /\ UNCHANGED <<input, files, submitter>> /\ ServerFree(o)
  <1>0. owner \in [Owners -> Owner]
    BY DEF ApprovalsTypeOK
  <1>. QED
    BY <1>0 DEF TakeServer, Owner, SameOwner, SameServers

LEMMA OwnerDeathEffect ==
  ASSUME ApprovalsTypeOK, NEW o \in Owners, ApprovalOwnerDies(o)
  PROVE  /\ \A p \in Owners \ {o} : SameOwner(p)
         /\ ~owner'[o].up /\ owner'[o].at = owner[o].at /\ owner'[o].slot = owner[o].slot
         /\ owner'[o].used = owner[o].used /\ owner'[o].dropping = owner[o].dropping
         /\ UNCHANGED <<input, submitter>>
  <1>0. owner \in [Owners -> Owner]
    BY DEF ApprovalsTypeOK
  <1>. QED
    BY <1>0 DEF ApprovalOwnerDies, Owner, SameOwner, SameServers

LEMMA MoveEffect ==
  ASSUME ApprovalsTypeOK, NEW s \in Submitters, NEW at, SubmitterMoves(s, at)
  PROVE  /\ \A t \in Submitters : SameTarget(t) /\ (t # s => SameSubmitter(t))
         /\ submitter'[s].at = at
  <1>0. submitter \in [Submitters -> Submitter]
    BY DEF ApprovalsTypeOK
  <1>. QED
    BY <1>0 DEF SubmitterMoves, Submitter, SameTarget, SameSubmitter

LEMMA ReadEffect ==
  ASSUME ApprovalsTypeOK, NEW s \in Submitters, NEW i \in Inputs, ReadPending(s, i)
  PROVE  /\ \A t \in Submitters \ {s} : SameSubmitter(t)
         /\ submitter'[s].server = files.pending[i] /\ submitter'[s].input = i
         /\ submitter'[s].at = (IF files.pending[i] = NoServer THEN "refused" ELSE "found")
         /\ UNCHANGED <<owner, input, files>>
  <1>0. submitter \in [Submitters -> Submitter]
    BY DEF ApprovalsTypeOK
  <1>. QED
    BY <1>0 DEF ReadPending, Submitter, SameSubmitter

(* A request that only moves on. *)
InputMoves(i, at) == /\ \A j \in Inputs : input'[j] = IF j = i THEN at ELSE input[j]
                     /\ UNCHANGED <<owner, files, submitter>>

LEMMA CheckEffect ==
  ASSUME ApprovalsTypeOK, NEW i \in Inputs, CheckFlag(i)
  PROVE  owner[OwnerOf[i]].up /\ input[i] = "none" /\ \E at \in {"checked", "gone"} : InputMoves(i, at)
  BY DEF CheckFlag, InputMoves, ApprovalsTypeOK

LEMMA LookEffect ==
  ASSUME ApprovalsTypeOK, NEW i \in Inputs, LookAtSlot(i)
  PROVE  /\ owner[OwnerOf[i]].up /\ input[i] = "checked" /\ ServerFree(OwnerOf[i])
         /\ \/ InputMoves(i, "bind") /\ owner[OwnerOf[i]].slot = NoServer /\ owner[OwnerOf[i]].used < MaxServers
            \/ InputMoves(i, "register") /\ owner[OwnerOf[i]].slot # NoServer
  <1>1. input \in [Inputs -> InputAt]
    BY DEF ApprovalsTypeOK
  <1>2. CASE owner[OwnerOf[i]].slot = NoServer
    <2>1. input' = [input EXCEPT ![i] = "bind"] /\ UNCHANGED <<owner, files, submitter>>
          /\ owner[OwnerOf[i]].used < MaxServers
      BY <1>2 DEF LookAtSlot
    <2>. QED
      BY <1>1, <1>2, <2>1 DEF LookAtSlot, InputMoves
  <1>3. CASE owner[OwnerOf[i]].slot # NoServer
    <2>1. input' = [input EXCEPT ![i] = "register"] /\ UNCHANGED <<owner, files, submitter>>
      BY <1>3 DEF LookAtSlot
    <2>. QED
      BY <1>1, <1>3, <2>1 DEF LookAtSlot, InputMoves
  <1>. QED
    BY <1>2, <1>3

LEMMA BindEffect ==
  ASSUME ApprovalsTypeOK, NEW i \in Inputs, BindSocket(i)
  PROVE  /\ owner[OwnerOf[i]].up /\ input[i] = "bind" /\ UNCHANGED <<owner, submitter>>
         /\ \A j \in Inputs : input'[j] = IF j = i THEN "publish" ELSE input[j]
         /\ files'.records = files.records /\ files'.lock = files.lock /\ files'.pending = files.pending
         /\ files'.sockets = files.sockets \cup {NextServer(OwnerOf[i])}
  BY DEF BindSocket, ApprovalsTypeOK

LEMMA SettleEffect ==
  ASSUME ApprovalsTypeOK, NEW i \in Inputs, Settle(i)
  PROVE  owner[OwnerOf[i]].up /\ input[i] = "open" /\ InputMoves(i, "settled")
  BY DEF Settle, InputMoves, ApprovalsTypeOK

LEMMA ClearRecordsEffect ==
  ASSUME ApprovalsTypeOK, NEW o \in Owners, ClearRecords(o)
  PROVE  /\ files'.records = files.records /\ files'.sockets = files.sockets /\ files'.lock = files.lock
         /\ \A j \in Inputs : files'.pending[j] =
                IF files.pending[j] = owner[o].dropping THEN NoServer ELSE files.pending[j]
  BY ClearEffect DEF ClearRecords

LEMMA UnlinkFilesEffect ==
  ASSUME ApprovalsTypeOK, NEW o \in Owners, Unlink(o)
  PROVE  /\ files'.records = files.records \ {owner[o].dropping} /\ files'.sockets = files.sockets \ {owner[o].dropping}
         /\ files'.pending = files.pending
         /\ \A q \in ServerIds : files'.lock[q] = IF q = owner[o].dropping THEN Free ELSE files.lock[q]
  BY DEF Unlink, ApprovalsTypeOK

LEMMA OwnerDeathFiles ==
  ASSUME ApprovalsTypeOK, NEW o \in Owners, ApprovalOwnerDies(o)
  PROVE  /\ files'.records = files.records /\ files'.sockets = files.sockets /\ files'.pending = files.pending
         /\ \A q \in ServerIds : files'.lock[q] = IF files.lock[q] = o THEN Free ELSE files.lock[q]
  BY DeathEffect DEF ApprovalOwnerDies

(* A submitter that moves on, its target unchanged. *)
Moves(s, at) == /\ \A t \in Submitters : SameTarget(t) /\ (t # s => SameSubmitter(t))
                /\ submitter'[s].at = at

LEMMA OpenEffect ==
  ASSUME ApprovalsTypeOK, NEW s \in Submitters, OpenOwner(s)
  PROVE  /\ UNCHANGED <<owner, input, files>> /\ submitter[s].at = "found"
         /\ \/ Moves(s, "opened")
            \/ Moves(s, "disown") /\ submitter[s].server \notin files.records
  BY MoveEffect DEF OpenOwner, SubmitterAt, Moves

LEMMA LockEffect ==
  ASSUME ApprovalsTypeOK, NEW s \in Submitters, TryLock(s), submitter[s].server \in ServerIds
  PROVE  /\ UNCHANGED <<owner, input>> /\ submitter[s].at = "opened"
         /\ \/ SameFiles /\ Moves(s, "connect")
            \/ SameFiles /\ Moves(s, "disown") /\ submitter[s].server \notin files.records
            \/ /\ Moves(s, "sweep records") /\ files.lock[submitter[s].server] = Free
               /\ submitter[s].server \in files.records
               /\ files'.records = files.records /\ files'.sockets = files.sockets /\ files'.pending = files.pending
               /\ \A q \in ServerIds : files'.lock[q] = IF q = submitter[s].server THEN s ELSE files.lock[q]
  <1>1. CASE files.lock[submitter[s].server] # Free
    BY <1>1, MoveEffect DEF TryLock, SubmitterAt, Moves, SameFiles
  <1>2. CASE files.lock[submitter[s].server] = Free /\ submitter[s].server \notin files.records
    BY <1>2, MoveEffect DEF TryLock, SubmitterAt, Moves, SameFiles
  <1>3. CASE files.lock[submitter[s].server] = Free /\ submitter[s].server \in files.records
    <2>1. SubmitterMoves(s, "sweep records") /\ files' = [files EXCEPT !.lock[submitter[s].server] = s]
          /\ UNCHANGED <<owner, input>> /\ submitter[s].at = "opened"
      BY <1>3 DEF TryLock, SubmitterAt
    <2>2. /\ files'.records = files.records /\ files'.sockets = files.sockets /\ files'.pending = files.pending
          /\ \A q \in ServerIds : files'.lock[q] = IF q = submitter[s].server THEN s ELSE files.lock[q]
      BY <2>1 DEF ApprovalsTypeOK
    <2>3. Moves(s, "sweep records")
      BY <2>1, MoveEffect DEF Moves
    <2>. QED
      BY <1>3, <2>1, <2>2, <2>3
  <1>. QED
    BY <1>1, <1>2, <1>3

LEMMA SweepRecordsEffect ==
  ASSUME ApprovalsTypeOK, NEW s \in Submitters, SweepRecords(s)
  PROVE  /\ UNCHANGED <<owner, input>> /\ submitter[s].at = "sweep records" /\ Moves(s, "sweep files")
         /\ files'.records = files.records /\ files'.sockets = files.sockets /\ files'.lock = files.lock
         /\ \A j \in Inputs : files'.pending[j] =
                IF files.pending[j] = submitter[s].server THEN NoServer ELSE files.pending[j]
  <1>1. files' = [files EXCEPT !.pending = Without(submitter[s].server)] /\ SubmitterMoves(s, "sweep files")
        /\ UNCHANGED <<owner, input>> /\ submitter[s].at = "sweep records"
    BY DEF SweepRecords, SubmitterAt
  <1>2. Moves(s, "sweep files")
    BY <1>1, MoveEffect DEF Moves
  <1>. QED
    BY <1>1, <1>2, ClearEffect

LEMMA SweepFilesEffect ==
  ASSUME ApprovalsTypeOK, NEW s \in Submitters, SweepFiles(s)
  PROVE  /\ UNCHANGED <<owner, input>> /\ submitter[s].at = "sweep files" /\ Moves(s, "disown")
         /\ files'.records = files.records \ {submitter[s].server}
         /\ files'.sockets = files.sockets \ {submitter[s].server} /\ files'.pending = files.pending
         /\ \A q \in ServerIds : files'.lock[q] = IF q = submitter[s].server THEN Free ELSE files.lock[q]
  <1>1. /\ files'.records = files.records \ {submitter[s].server}
        /\ files'.sockets = files.sockets \ {submitter[s].server} /\ files'.pending = files.pending
        /\ \A q \in ServerIds : files'.lock[q] = IF q = submitter[s].server THEN Free ELSE files.lock[q]
    BY DEF SweepFiles, ApprovalsTypeOK
  <1>. QED
    BY <1>1, MoveEffect DEF SweepFiles, SubmitterAt, Moves

LEMMA DisownEffect ==
  ASSUME ApprovalsTypeOK, NEW s \in Submitters, Disown(s)
  PROVE  /\ UNCHANGED <<owner, input>> /\ submitter[s].at = "disown" /\ Moves(s, "refused")
         /\ files'.records = files.records /\ files'.sockets = files.sockets /\ files'.lock = files.lock
         /\ \A j \in Inputs : files'.pending[j] =
                IF j = submitter[s].input /\ files.pending[j] = submitter[s].server THEN NoServer ELSE files.pending[j]
  <1>1. /\ files'.records = files.records /\ files'.sockets = files.sockets /\ files'.lock = files.lock
        /\ \A j \in Inputs : files'.pending[j] =
               IF j = submitter[s].input /\ files.pending[j] = submitter[s].server THEN NoServer ELSE files.pending[j]
    BY DEF Disown, ApprovalsTypeOK
  <1>. QED
    BY <1>1, MoveEffect DEF Disown, SubmitterAt, Moves

LEMMA TalkEffect ==
  ASSUME ApprovalsTypeOK, NEW s \in Submitters, Connect(s) \/ Accept(s) \/ Reply(s) \/ CutOff(s)
  PROVE  /\ UNCHANGED <<owner, input, files>> /\ submitter[s].at \in {"connect", "queued", "served", "approved"}
         /\ \E at \in {"queued", "served", "accepted", "refused"} : Moves(s, at)
  <1>1. CASE Connect(s)
    BY <1>1, MoveEffect DEF Connect, SubmitterAt, Moves
  <1>2. CASE Accept(s) \/ Reply(s)
    BY <1>2, MoveEffect DEF Accept, Reply, SubmitterAt, Moves
  <1>3. CASE CutOff(s)
    BY <1>3, MoveEffect DEF CutOff, SubmitterAt, Moves
  <1>. QED
    BY <1>1, <1>2, <1>3

LEMMA HandleEffect ==
  ASSUME ApprovalsTypeOK, NEW s \in Submitters, HandleConnection(s)
  PROVE  /\ UNCHANGED <<owner, files>> /\ submitter[s].at = "served"
         /\ \/ /\ input[submitter[s].input] = "open" /\ Moves(s, "approved")
               /\ \A j \in Inputs : input'[j] = IF j = submitter[s].input THEN "settled" ELSE input[j]
            \/ UNCHANGED input /\ Moves(s, "refused")
  <1>1. CASE input[submitter[s].input] = "open"
    <2>1. input' = [input EXCEPT ![submitter[s].input] = "settled"] /\ SubmitterMoves(s, "approved")
          /\ UNCHANGED <<owner, files>> /\ submitter[s].at = "served"
      BY <1>1 DEF HandleConnection, SubmitterAt
    <2>2. \A j \in Inputs : input'[j] = IF j = submitter[s].input THEN "settled" ELSE input[j]
      BY <2>1 DEF ApprovalsTypeOK
    <2>. QED
      BY <1>1, <2>1, <2>2, MoveEffect DEF Moves
  <1>2. CASE input[submitter[s].input] # "open"
    BY <1>2, MoveEffect DEF HandleConnection, SubmitterAt, Moves
  <1>. QED
    BY <1>1, <1>2

LEMMA SubmitterDeathEffect ==
  ASSUME ApprovalsTypeOK, NEW s \in Submitters, SubmitterDies(s)
  PROVE  /\ UNCHANGED <<owner, input>> /\ Moves(s, "dead")
         /\ files'.records = files.records /\ files'.sockets = files.sockets /\ files'.pending = files.pending
         /\ \A q \in ServerIds : files'.lock[q] = IF files.lock[q] = s THEN Free ELSE files.lock[q]
  BY MoveEffect, DeathEffect DEF SubmitterDies, Moves

LEMMA NumbersStep == ApprovalsInv /\ ApprovalsTypeOK' /\ ApprovalsNext => ServersAreNumbered'
  <1>. SUFFICES ASSUME ApprovalsInv, ApprovalsTypeOK' PROVE ApprovalsNext => ServersAreNumbered'
    OBVIOUS
  <1>0. ApprovalsTypeOK /\ ServersAreNumbered /\ \A i \in Inputs : OwnerOf[i] \in Owners
    BY ApprovalsAssumption DEF ApprovalsInv
  <1>k. \A k \in ServerIds : k[1] \in Owners /\ k # NoServer
    BY ServerFacts
  <1>g. ASSUME \A o \in Owners : owner'[o].used = owner[o].used \/ owner'[o].used = owner[o].used + 1
        PROVE  \A k \in ServerIds : Numbered(k) => Numbered(k)'
    <2>1. \A o \in Owners : owner[o].used \in Nat
      BY <1>0 DEF ApprovalsTypeOK, Owner
    <2>. SUFFICES ASSUME NEW k \in ServerIds, Numbered(k) PROVE Numbered(k)'
      OBVIOUS
    <2>2. k[1] \in Owners
      BY <1>k
    <2>. QED
      BY <1>g, <2>1, <2>2 DEF Numbered
  <1>1. ASSUME NEW i \in Inputs, CheckFlag(i) PROVE ServersAreNumbered'
    <2>1. \A k \in ServerIds : Numbered(k) => Numbered(k)'
      BY <1>0, <1>1, <1>g, CheckEffect DEF InputMoves
    <2>. QED
      BY <1>0, <1>k, <1>1, <2>1, CheckEffect DEF InputMoves, ServersAreNumbered
  <1>2. ASSUME NEW i \in Inputs, LookAtSlot(i) PROVE ServersAreNumbered'
    <2>0. UNCHANGED <<owner, files, submitter>>
      BY <1>0, <1>2, LookEffect DEF InputMoves
    <2>1. \A k \in ServerIds : Numbered(k) => Numbered(k)'
      BY <2>0 DEF Numbered
    <2>. QED
      BY <1>0, <2>0, <2>1 DEF ServersAreNumbered
  <1>3. ASSUME NEW i \in Inputs, BindSocket(i) PROVE ServersAreNumbered'
    <2>1. \A k \in ServerIds : Numbered(k) => Numbered(k)'
      BY <1>0, <1>3, <1>g, BindEffect
    <2>. QED
      BY <1>0, <1>k, <1>3, <2>1, BindEffect DEF ServersAreNumbered
  <1>4. ASSUME NEW i \in Inputs, PublishOwner(i) PROVE ServersAreNumbered'
    <2>. DEFINE o == OwnerOf[i]
    <2>0. owner[o].used < MaxServers /\ o \in Owners
      BY <1>0, <1>4 DEF ApprovalsInv, OneRegisters, PublishOwner
    <2>1. \A k \in ServerIds : Numbered(k) => Numbered(k)'
      BY <1>0, <1>4, <1>g, <2>0, PublishEffect DEF SameOwner
    <2>2. PICK q \in ServerIds : q = NextServer(o) /\ q[1] = o /\ q[2] = owner[o].used + 1
      BY <1>0, <2>0, NextFacts
    <2>3. Numbered(q)'
      <3>1. owner[o].used \in Nat /\ owner'[o].used = owner[o].used + 1
        BY <1>0, <1>4, <2>0, PublishEffect DEF ApprovalsTypeOK, Owner
      <3>. QED
        BY <2>2, <3>1 DEF Numbered
    <2>4. /\ \A k \in ServerIds : k \in files'.records \/ files'.lock[k] # Free => Numbered(k)'
          /\ UNCHANGED submitter /\ files'.pending = files.pending
      BY <1>0, <1>4, <2>0, <2>1, <2>2, <2>3, PublishEffect DEF ServersAreNumbered
    <2>5. \A p \in Owners, k \in ServerIds :
              k \in {owner'[p].slot, owner'[p].dropping} => k[1] = p /\ Numbered(k)'
      BY <1>0, <1>4, <2>0, <2>1, <2>2, <2>3, PublishEffect DEF SameOwner, ServersAreNumbered
    <2>. QED
      BY <1>0, <2>1, <2>4, <2>5 DEF ServersAreNumbered
  <1>5. ASSUME NEW i \in Inputs, register_pending(i) PROVE ServersAreNumbered'
    <2>1. UNCHANGED <<owner, submitter>> /\ files'.records = files.records /\ files'.lock = files.lock
      BY <1>0, <1>5, RegisterEffect
    <2>2. \A k \in ServerIds : Numbered(k) => Numbered(k)'
      BY <2>1 DEF Numbered
    <2>3. \A k \in ServerIds : owner[OwnerOf[i]].slot = k => k[1] = OwnerOf[i] /\ Numbered(k)
      BY <1>0 DEF ServersAreNumbered
    <2>4. \A j \in Inputs, k \in ServerIds : files'.pending[j] = k => k[1] = OwnerOf[j] /\ Numbered(k)
      BY <1>0, <1>5, <2>3, RegisterEffect DEF ServersAreNumbered
    <2>. QED
      BY <1>0, <2>1, <2>2, <2>4 DEF ServersAreNumbered
  <1>6. ASSUME NEW i \in Inputs, RegisterFails(i) PROVE ServersAreNumbered'
    <2>1. \A k \in ServerIds : Numbered(k) => Numbered(k)'
      BY <1>0, <1>6, <1>g, RegisterFailsEffect DEF SameFiles
    <2>. QED
      BY <1>0, <1>k, <1>6, <2>1, RegisterFailsEffect DEF SameFiles, ServersAreNumbered
  <1>7. ASSUME NEW i \in Inputs, Settle(i) PROVE ServersAreNumbered'
    <2>1. \A k \in ServerIds : Numbered(k) => Numbered(k)'
      BY <1>0, <1>7, <1>g, SettleEffect DEF InputMoves
    <2>. QED
      BY <1>0, <1>k, <1>7, <2>1, SettleEffect DEF InputMoves, ServersAreNumbered
  <1>8. ASSUME NEW i \in Inputs, RemoveRecord(i) PROVE ServersAreNumbered'
    <2>1. \A k \in ServerIds : Numbered(k) => Numbered(k)'
      BY <1>0, <1>8, <1>g, RemoveEffect
    <2>. QED
      BY <1>0, <1>k, <1>8, <2>1, RemoveEffect DEF ServersAreNumbered
  <1>9. ASSUME NEW o \in Owners, ShutdownStarts(o) PROVE ServersAreNumbered'
    <2>1. \A k \in ServerIds : Numbered(k) => Numbered(k)'
      BY <1>0, <1>9, <1>g, FlagEffect DEF SameOwner, SameServers
    <2>. QED
      BY <1>0, <1>k, <1>9, <2>1, FlagEffect DEF SameOwner, SameServers, ServersAreNumbered
  <1>10. ASSUME NEW o \in Owners, TakeServer(o) PROVE ServersAreNumbered'
    <2>1. \A k \in ServerIds : Numbered(k) => Numbered(k)'
      BY <1>0, <1>10, <1>g, TakeEffect DEF SameOwner
    <2>. QED
      BY <1>0, <1>k, <1>10, <2>1, TakeEffect DEF SameOwner, ServersAreNumbered
  <1>11. ASSUME NEW o \in Owners, JoinThread(o) PROVE ServersAreNumbered'
    <2>1. \A k \in ServerIds : Numbered(k) => Numbered(k)'
      BY <1>0, <1>11, <1>g, JoinEffect DEF SameOwner, SameServers
    <2>. QED
      BY <1>0, <1>k, <1>11, <2>1, JoinEffect DEF SameOwner, SameServers, ServersAreNumbered
  <1>12. ASSUME NEW o \in Owners, ClearRecords(o) PROVE ServersAreNumbered'
    <2>1. \A k \in ServerIds : Numbered(k) => Numbered(k)'
      BY <1>0, <1>12, <1>g, ClearingEffect, ClearRecordsEffect DEF SameOwner, SameServers
    <2>. QED
      BY <1>0, <1>k, <1>12, <2>1, ClearingEffect, ClearRecordsEffect DEF SameOwner, SameServers, ServersAreNumbered
  <1>13. ASSUME NEW o \in Owners, Unlink(o) PROVE ServersAreNumbered'
    <2>1. \A k \in ServerIds : Numbered(k) => Numbered(k)'
      BY <1>0, <1>13, <1>g, UnlinkEffect, UnlinkFilesEffect DEF SameOwner
    <2>. QED
      BY <1>0, <1>k, <1>13, <2>1, UnlinkEffect, UnlinkFilesEffect DEF SameOwner, ServersAreNumbered
  <1>14. ASSUME NEW o \in Owners, ApprovalOwnerDies(o) PROVE ServersAreNumbered'
    <2>1. \A k \in ServerIds : Numbered(k) => Numbered(k)'
      BY <1>0, <1>14, <1>g, OwnerDeathEffect, OwnerDeathFiles DEF SameOwner
    <2>. QED
      BY <1>0, <1>k, <1>14, <2>1, OwnerDeathEffect, OwnerDeathFiles DEF SameOwner, ServersAreNumbered
  <1>15. ASSUME NEW s \in Submitters, NEW i \in Inputs, ReadPending(s, i) PROVE ServersAreNumbered'
    <2>1. \A k \in ServerIds : Numbered(k) => Numbered(k)'
      BY <1>0, <1>15, <1>g, ReadEffect DEF SameSubmitter
    <2>. QED
      BY <1>0, <1>k, <1>15, <2>1, ReadEffect DEF SameSubmitter, ServersAreNumbered
  <1>16. ASSUME NEW s \in Submitters, OpenOwner(s) PROVE ServersAreNumbered'
    <2>1. \A k \in ServerIds : Numbered(k) => Numbered(k)'
      BY <1>0, <1>16, <1>g, OpenEffect DEF Moves, SameTarget, SameSubmitter
    <2>. QED
      BY <1>0, <1>k, <1>16, <2>1, OpenEffect DEF Moves, SameTarget, SameSubmitter, ServersAreNumbered
  <1>17. ASSUME NEW s \in Submitters, TryLock(s) PROVE ServersAreNumbered'
    <2>0. submitter[s].server \in ServerIds
      BY <1>17 DEF TryLock, SubmitterAt, Asking, ApprovalsInv, SweepersHold, SweeperHolds
    <2>1. \A k \in ServerIds : Numbered(k) => Numbered(k)'
      BY <1>0, <1>17, <2>0, LockEffect DEF Numbered
    <2>2. Numbered(submitter[s].server)
      BY <1>0, <2>0 DEF ServersAreNumbered
    <2>3. \A k \in ServerIds : k \in files'.records \/ files'.lock[k] # Free => Numbered(k)
      BY <1>0, <1>17, <2>0, <2>2, LockEffect DEF ServersAreNumbered, SameFiles
    <2>4. UNCHANGED owner /\ files'.pending = files.pending /\ \A t \in Submitters : SameTarget(t)
      BY <1>0, <1>17, <2>0, LockEffect DEF Moves, SameFiles
    <2>. QED
      BY <1>0, <2>1, <2>3, <2>4 DEF ServersAreNumbered, SameTarget
  <1>18. ASSUME NEW s \in Submitters, SweepRecords(s) PROVE ServersAreNumbered'
    <2>1. UNCHANGED owner /\ \A t \in Submitters : SameTarget(t)
      BY <1>0, <1>18, SweepRecordsEffect DEF Moves
    <2>2. \A k \in ServerIds : Numbered(k) => Numbered(k)'
      BY <2>1 DEF Numbered
    <2>a. \A k \in ServerIds : k \in files'.records \/ files'.lock[k] # Free => k \in files.records \/ files.lock[k] # Free
      BY <1>0, <1>18, SweepRecordsEffect
    <2>3. \A k \in ServerIds : k \in files'.records \/ files'.lock[k] # Free => Numbered(k)
      BY <1>0, <2>a DEF ServersAreNumbered
    <2>4. \A j \in Inputs : files'.pending[j] \in {files.pending[j], NoServer}
      BY <1>0, <1>18, SweepRecordsEffect
    <2>5. \A j \in Inputs, k \in ServerIds : files'.pending[j] = k => k[1] = OwnerOf[j] /\ Numbered(k)
      BY <1>0, <1>k, <2>4 DEF ServersAreNumbered
    <2>. QED
      BY <1>0, <2>1, <2>2, <2>3, <2>5 DEF ServersAreNumbered, SameTarget
  <1>19. ASSUME NEW s \in Submitters, SweepFiles(s) PROVE ServersAreNumbered'
    <2>1. UNCHANGED owner /\ \A t \in Submitters : SameTarget(t)
      BY <1>0, <1>19, SweepFilesEffect DEF Moves
    <2>2. \A k \in ServerIds : Numbered(k) => Numbered(k)'
      BY <2>1 DEF Numbered
    <2>a. \A k \in ServerIds : k \in files'.records \/ files'.lock[k] # Free => k \in files.records \/ files.lock[k] # Free
      BY <1>0, <1>19, SweepFilesEffect
    <2>3. \A k \in ServerIds : k \in files'.records \/ files'.lock[k] # Free => Numbered(k)
      BY <1>0, <2>a DEF ServersAreNumbered
    <2>4. \A j \in Inputs : files'.pending[j] \in {files.pending[j], NoServer}
      BY <1>0, <1>19, SweepFilesEffect
    <2>5. \A j \in Inputs, k \in ServerIds : files'.pending[j] = k => k[1] = OwnerOf[j] /\ Numbered(k)
      BY <1>0, <1>k, <2>4 DEF ServersAreNumbered
    <2>. QED
      BY <1>0, <2>1, <2>2, <2>3, <2>5 DEF ServersAreNumbered, SameTarget
  <1>20. ASSUME NEW s \in Submitters, Disown(s) PROVE ServersAreNumbered'
    <2>1. \A k \in ServerIds : Numbered(k) => Numbered(k)'
      BY <1>0, <1>20, <1>g, DisownEffect DEF Moves, SameTarget, SameSubmitter
    <2>. QED
      BY <1>0, <1>k, <1>20, <2>1, DisownEffect DEF Moves, SameTarget, SameSubmitter, ServersAreNumbered
  <1>21. ASSUME NEW s \in Submitters, Connect(s) \/ Accept(s) \/ Reply(s) \/ CutOff(s) PROVE ServersAreNumbered'
    <2>1. \A k \in ServerIds : Numbered(k) => Numbered(k)'
      BY <1>0, <1>21, <1>g, TalkEffect DEF Moves, SameTarget, SameSubmitter
    <2>. QED
      BY <1>0, <1>k, <1>21, <2>1, TalkEffect DEF Moves, SameTarget, SameSubmitter, ServersAreNumbered
  <1>22. ASSUME NEW s \in Submitters, HandleConnection(s) PROVE ServersAreNumbered'
    <2>1. \A k \in ServerIds : Numbered(k) => Numbered(k)'
      BY <1>0, <1>22, <1>g, HandleEffect DEF Moves, SameTarget, SameSubmitter
    <2>. QED
      BY <1>0, <1>k, <1>22, <2>1, HandleEffect DEF Moves, SameTarget, SameSubmitter, ServersAreNumbered
  <1>23. ASSUME NEW s \in Submitters, SubmitterDies(s) PROVE ServersAreNumbered'
    <2>1. \A k \in ServerIds : Numbered(k) => Numbered(k)'
      BY <1>0, <1>23, <1>g, SubmitterDeathEffect DEF Moves, SameTarget, SameSubmitter
    <2>. QED
      BY <1>0, <1>k, <1>23, <2>1, SubmitterDeathEffect DEF Moves, SameTarget, SameSubmitter, ServersAreNumbered
  <1>. QED
    BY <1>1, <1>2, <1>3, <1>4, <1>5, <1>6, <1>7, <1>8, <1>9, <1>10, <1>11, <1>12, <1>13, <1>14, <1>15, <1>16, <1>17, <1>18, <1>19, <1>20, <1>21, <1>22, <1>23
    DEF ApprovalsNext, InputStep, DropStep, SubmitterStep

LEMMA ChannelsStep == ApprovalsInv /\ ApprovalsTypeOK' /\ ApprovalsNext => ChannelsAreWhole'
  <1>. SUFFICES ASSUME ApprovalsInv, ApprovalsTypeOK' PROVE ApprovalsNext => ChannelsAreWhole'
    OBVIOUS
  <1>0. /\ ApprovalsTypeOK /\ ChannelsAreWhole /\ \A i \in Inputs : OwnerOf[i] \in Owners
        /\ \A s \in Submitters : s \notin Owners /\ s # Free
        /\ Free \notin Owners
    BY ApprovalsAssumption DEF ApprovalsInv
  <1>k. \A k \in ServerIds : k # NoServer
    BY ServerFacts
  <1>t. \A o \in Owners : owner[o].slot \in ServerIds \cup {NoServer} /\ owner[o].dropping \in ServerIds \cup {NoServer}
    BY <1>0 DEF ApprovalsTypeOK, Owner
  <1>n. ServersAreNumbered
    BY DEF ApprovalsInv
  <1>l. \A t \in Submitters : submitter[t].at \in {"sweep records", "sweep files"} =>
            files.lock[submitter[t].server] = t /\ submitter[t].server \in ServerIds
    BY DEF ApprovalsInv, SweepersHold, SweeperHolds, Asking
  <1>u. ASSUME UNCHANGED owner, files'.records = files.records, files'.sockets = files.sockets,
               files'.lock = files.lock
        PROVE  ChannelsAreWhole'
    BY <1>0, <1>u DEF ChannelsAreWhole
  <1>1. ASSUME NEW i \in Inputs, CheckFlag(i) PROVE ChannelsAreWhole'
    BY <1>0, <1>u, <1>1, CheckEffect DEF InputMoves
  <1>2. ASSUME NEW i \in Inputs, LookAtSlot(i) PROVE ChannelsAreWhole'
    BY <1>0, <1>u, <1>2, LookEffect DEF InputMoves
  <1>3. ASSUME NEW i \in Inputs, BindSocket(i) PROVE ChannelsAreWhole'
    BY <1>0, <1>3, BindEffect, <1>k, <1>t DEF ChannelsAreWhole
  <1>4. ASSUME NEW i \in Inputs, PublishOwner(i) PROVE ChannelsAreWhole'
    <2>. DEFINE o == OwnerOf[i]
    <2>0. owner[o].used < MaxServers /\ o \in Owners /\ NextServer(o) \in files.sockets /\ owner[o].slot = NoServer
      BY <1>0, <1>4 DEF ApprovalsInv, OneRegisters, PublishOwner
    <2>1. PICK q \in ServerIds : q = NextServer(o) /\ q[1] = o /\ ~Numbered(q)
      BY <1>0, <2>0, NextFacts
    <2>2. \A p \in Owners : q # owner[p].slot /\ q # owner[p].dropping
      BY <1>n, <2>1 DEF ServersAreNumbered
    <2>3. /\ files'.records = files.records \cup {q} /\ files'.sockets = files.sockets
          /\ \A k \in ServerIds : files'.lock[k] = IF k = q THEN o ELSE files.lock[k]
          /\ \A p \in Owners \ {o} : SameOwner(p)
          /\ owner'[o].up /\ owner'[o].at = owner[o].at /\ owner'[o].dropping = owner[o].dropping
          /\ owner'[o].slot = q /\ owner[o].up
      BY <1>0, <1>4, <2>0, <2>1, PublishEffect
    <2>4. \A k \in ServerIds : files'.lock[k] \in Owners => files'.lock[k] = k[1]
      BY <1>0, <2>1, <2>3 DEF ChannelsAreWhole
    <2>5. /\ owner'[o].at \in {"open", "flagged", "closed"} => owner'[o].dropping = NoServer
          /\ owner'[o].slot # owner'[o].dropping
          /\ owner'[o].slot \in files'.records /\ owner'[o].slot \in files'.sockets /\ files'.lock[q] = o
          /\ \A k \in ServerIds : owner'[o].dropping = k => files'.lock[k] = o
      BY <1>0, <2>0, <2>1, <2>2, <2>3 DEF ChannelsAreWhole
    <2>6. ASSUME NEW p \in Owners \ {o}
          PROVE  /\ owner'[p].at \in {"open", "flagged", "closed"} => owner'[p].dropping = NoServer
                 /\ owner'[p].slot # NoServer => owner'[p].slot # owner'[p].dropping
                 /\ \A k \in ServerIds : owner'[p].up /\ owner'[p].slot = k =>
                        k \in files'.records /\ k \in files'.sockets /\ files'.lock[k] = p
                 /\ \A k \in ServerIds : owner'[p].up /\ owner'[p].dropping = k => files'.lock[k] = p
      BY <1>0, <2>2, <2>3 DEF ChannelsAreWhole, SameOwner
    <2>. QED
      BY <2>0, <2>3, <2>4, <2>5, <2>6 DEF ChannelsAreWhole
  <1>5. ASSUME NEW i \in Inputs, register_pending(i) PROVE ChannelsAreWhole'
    BY <1>0, <1>u, <1>5, RegisterEffect
  <1>6. ASSUME NEW i \in Inputs, RegisterFails(i) PROVE ChannelsAreWhole'
    BY <1>0, <1>6, RegisterFailsEffect, <1>k, <1>t DEF SameFiles, ChannelsAreWhole
  <1>7. ASSUME NEW i \in Inputs, Settle(i) PROVE ChannelsAreWhole'
    BY <1>0, <1>u, <1>7, SettleEffect DEF InputMoves
  <1>8. ASSUME NEW i \in Inputs, RemoveRecord(i) PROVE ChannelsAreWhole'
    BY <1>0, <1>u, <1>8, RemoveEffect
  <1>9. ASSUME NEW o \in Owners, ShutdownStarts(o) PROVE ChannelsAreWhole'
    BY <1>0, <1>9, FlagEffect, <1>k, <1>t DEF SameOwner, SameServers, ChannelsAreWhole
  <1>10. ASSUME NEW o \in Owners, TakeServer(o) PROVE ChannelsAreWhole'
    BY <1>0, <1>10, TakeEffect, <1>k, <1>t DEF SameOwner, ChannelsAreWhole
  <1>11. ASSUME NEW o \in Owners, JoinThread(o) PROVE ChannelsAreWhole'
    BY <1>0, <1>11, JoinEffect, <1>k, <1>t DEF SameOwner, SameServers, ChannelsAreWhole
  <1>12. ASSUME NEW o \in Owners, ClearRecords(o) PROVE ChannelsAreWhole'
    BY <1>0, <1>12, ClearingEffect, ClearRecordsEffect, <1>k, <1>t DEF SameOwner, SameServers, ChannelsAreWhole
  <1>13. ASSUME NEW o \in Owners, Unlink(o) PROVE ChannelsAreWhole'
    BY <1>0, <1>13, UnlinkEffect, UnlinkFilesEffect, <1>k, <1>t DEF SameOwner, ChannelsAreWhole
  <1>14. ASSUME NEW o \in Owners, ApprovalOwnerDies(o) PROVE ChannelsAreWhole'
    BY <1>0, <1>14, OwnerDeathEffect, OwnerDeathFiles, <1>k, <1>t DEF SameOwner, ChannelsAreWhole
  <1>15. ASSUME NEW s \in Submitters, NEW i \in Inputs, ReadPending(s, i) PROVE ChannelsAreWhole'
    BY <1>0, <1>u, <1>15, ReadEffect
  <1>16. ASSUME NEW s \in Submitters, OpenOwner(s) PROVE ChannelsAreWhole'
    BY <1>0, <1>u, <1>16, OpenEffect
  <1>17. ASSUME NEW s \in Submitters, TryLock(s) PROVE ChannelsAreWhole'
    <2>0. submitter[s].server \in ServerIds
      BY <1>17 DEF TryLock, SubmitterAt, ApprovalsInv, SweepersHold, SweeperHolds, Asking
    <2>1. UNCHANGED owner /\ files'.records = files.records /\ files'.sockets = files.sockets
      BY <1>0, <1>17, <2>0, LockEffect DEF SameFiles
    <2>2. \A k \in ServerIds : files'.lock[k] \in Owners \/ files.lock[k] \in Owners => files'.lock[k] = files.lock[k]
      BY <1>0, <1>17, <2>0, LockEffect DEF SameFiles
    <2>. QED
      BY <1>0, <2>1, <2>2 DEF ChannelsAreWhole
  <1>18. ASSUME NEW s \in Submitters, SweepRecords(s) PROVE ChannelsAreWhole'
    BY <1>0, <1>u, <1>18, SweepRecordsEffect
  <1>19. ASSUME NEW s \in Submitters, SweepFiles(s) PROVE ChannelsAreWhole'
    <2>0. submitter[s].server \in ServerIds /\ files.lock[submitter[s].server] = s
      BY <1>19, <1>l DEF SweepFiles, SubmitterAt
    <2>1. UNCHANGED owner
      BY <1>0, <1>19, SweepFilesEffect
    <2>2. \A k \in ServerIds : files.lock[k] \in Owners => k # submitter[s].server
      BY <1>0, <2>0
    <2>3. \A k \in ServerIds : files.lock[k] \in Owners =>
              files'.lock[k] = files.lock[k] /\ (k \in files.records => k \in files'.records)
              /\ (k \in files.sockets => k \in files'.sockets)
      BY <1>0, <1>19, <2>2, SweepFilesEffect
    <2>4. \A k \in ServerIds : files'.lock[k] \in Owners => files'.lock[k] = files.lock[k]
      BY <1>0, <1>19, SweepFilesEffect
    <2>5. \A k \in ServerIds : files'.lock[k] \in Owners => files'.lock[k] = k[1]
      BY <1>0, <2>4 DEF ChannelsAreWhole
    <2>6. ASSUME NEW p \in Owners, NEW k \in ServerIds, owner[p].up, k \in {owner[p].slot, owner[p].dropping}
          PROVE  /\ files'.lock[k] = p
                 /\ (owner[p].slot = k => k \in files'.records /\ k \in files'.sockets)
      BY <1>0, <2>3, <2>6 DEF ChannelsAreWhole
    <2>7. \A p \in Owners : (owner[p].at \in {"open", "flagged", "closed"} => owner[p].dropping = NoServer)
                             /\ (owner[p].slot # NoServer => owner[p].slot # owner[p].dropping)
      BY <1>0 DEF ChannelsAreWhole
    <2>. QED
      BY <2>1, <2>5, <2>6, <2>7 DEF ChannelsAreWhole
  <1>20. ASSUME NEW s \in Submitters, Disown(s) PROVE ChannelsAreWhole'
    BY <1>0, <1>u, <1>20, DisownEffect
  <1>21. ASSUME NEW s \in Submitters, Connect(s) \/ Accept(s) \/ Reply(s) \/ CutOff(s) PROVE ChannelsAreWhole'
    BY <1>0, <1>u, <1>21, TalkEffect
  <1>22. ASSUME NEW s \in Submitters, HandleConnection(s) PROVE ChannelsAreWhole'
    BY <1>0, <1>u, <1>22, HandleEffect
  <1>23. ASSUME NEW s \in Submitters, SubmitterDies(s) PROVE ChannelsAreWhole'
    BY <1>0, <1>23, SubmitterDeathEffect, <1>k, <1>t DEF Moves, SameTarget, SameSubmitter, ChannelsAreWhole
  <1>. QED
    BY <1>1, <1>2, <1>3, <1>4, <1>5, <1>6, <1>7, <1>8, <1>9, <1>10, <1>11, <1>12, <1>13, <1>14, <1>15, <1>16, <1>17, <1>18, <1>19, <1>20, <1>21, <1>22, <1>23
    DEF ApprovalsNext, InputStep, DropStep, SubmitterStep

LEMMA SweepersStep == ApprovalsInv /\ ApprovalsTypeOK' /\ ApprovalsNext => SweepersHold'
  <1>. SUFFICES ASSUME ApprovalsInv, ApprovalsTypeOK' PROVE ApprovalsNext => SweepersHold'
    OBVIOUS
  <1>0. /\ ApprovalsTypeOK /\ (\A t \in Submitters : SweeperHolds(t)) /\ \A i \in Inputs : OwnerOf[i] \in Owners
        /\ \A t \in Submitters : t \notin Owners /\ t # Free
        /\ Free \notin Owners
    BY ApprovalsAssumption DEF ApprovalsInv, SweepersHold
  <1>t. \A t \in Submitters : submitter[t].server \in ServerIds \cup {NoServer}
    BY <1>0 DEF ApprovalsTypeOK, Submitter
  <1>a. /\ {"found", "opened", "sweep records", "sweep files", "disown", "connect", "queued", "served", "approved"} = Asking
    BY DEF Asking
  <1>n. /\ \A s \in Submitters, k \in ServerIds : submitter[s].server = k => Numbered(k)
        /\ \A o \in Owners, k \in ServerIds : owner[o].dropping = k => k[1] = o
    BY DEF ApprovalsInv, ServersAreNumbered
  <1>u. ASSUME NEW t \in Submitters, SameSubmitter(t),
               submitter[t].at \in {"sweep records", "sweep files"} => files'.lock[submitter[t].server] = t,
               submitter[t].at = "disown" => submitter[t].server \notin files'.records
        PROVE  SweeperHolds(t)'
    BY <1>0, <1>u DEF SweeperHolds, SameSubmitter
  <1>v. ASSUME NEW t \in Submitters, SameSubmitter(t), files'.records \subseteq files.records, files'.lock = files.lock
        PROVE  SweeperHolds(t)'
    BY <1>0, <1>u, <1>v DEF SweeperHolds
  <1>s. ASSUME UNCHANGED submitter PROVE \A t \in Submitters : SameSubmitter(t)
    BY <1>s DEF SameSubmitter
  <1>w. ASSUME UNCHANGED submitter, files'.records = files.records, files'.lock = files.lock
        PROVE  SweepersHold'
    BY <1>0, <1>s, <1>v, <1>w DEF SweepersHold
  <1>1. ASSUME NEW i \in Inputs, CheckFlag(i) PROVE SweepersHold'
    BY <1>0, <1>w, <1>1, CheckEffect DEF InputMoves
  <1>2. ASSUME NEW i \in Inputs, LookAtSlot(i) PROVE SweepersHold'
    BY <1>0, <1>w, <1>2, LookEffect DEF InputMoves
  <1>3. ASSUME NEW i \in Inputs, BindSocket(i) PROVE SweepersHold'
    BY <1>0, <1>w, <1>3, BindEffect
  <1>4. ASSUME NEW i \in Inputs, PublishOwner(i) PROVE SweepersHold'
    <2>. DEFINE o == OwnerOf[i]
    <2>0. owner[o].used < MaxServers /\ o \in Owners
      BY <1>0, <1>4 DEF ApprovalsInv, OneRegisters, PublishOwner
    <2>1. PICK q \in ServerIds : q = NextServer(o) /\ ~Numbered(q)
      BY <1>0, <2>0, NextFacts
    <2>2. /\ UNCHANGED submitter /\ files'.records = files.records \cup {q}
          /\ \A k \in ServerIds : k # q => files'.lock[k] = files.lock[k]
      BY <1>0, <1>4, <2>0, <2>1, PublishEffect
    <2>3. ASSUME NEW t \in Submitters PROVE SweeperHolds(t)'
      <3>1. SameSubmitter(t) /\ submitter[t].server # q
        BY <1>n, <1>s, <2>1, <2>2
      <3>2. submitter[t].at \in {"sweep records", "sweep files"} => submitter[t].server \in ServerIds
        BY <1>0, <1>a DEF SweeperHolds
      <3>. QED
        BY <1>0, <1>u, <2>2, <3>1, <3>2 DEF SweeperHolds
    <2>. QED
      BY <2>3 DEF SweepersHold
  <1>5. ASSUME NEW i \in Inputs, register_pending(i) PROVE SweepersHold'
    BY <1>0, <1>w, <1>5, RegisterEffect
  <1>6. ASSUME NEW i \in Inputs, RegisterFails(i) PROVE SweepersHold'
    BY <1>0, <1>w, <1>6, RegisterFailsEffect DEF SameFiles
  <1>7. ASSUME NEW i \in Inputs, Settle(i) PROVE SweepersHold'
    BY <1>0, <1>w, <1>7, SettleEffect DEF InputMoves
  <1>8. ASSUME NEW i \in Inputs, RemoveRecord(i) PROVE SweepersHold'
    BY <1>0, <1>w, <1>8, RemoveEffect
  <1>9. ASSUME NEW o \in Owners, ShutdownStarts(o) PROVE SweepersHold'
    BY <1>0, <1>w, <1>9, FlagEffect
  <1>10. ASSUME NEW o \in Owners, TakeServer(o) PROVE SweepersHold'
    BY <1>0, <1>w, <1>10, TakeEffect
  <1>11. ASSUME NEW o \in Owners, JoinThread(o) PROVE SweepersHold'
    BY <1>0, <1>w, <1>11, JoinEffect
  <1>12. ASSUME NEW o \in Owners, ClearRecords(o) PROVE SweepersHold'
    BY <1>0, <1>w, <1>12, ClearingEffect, ClearRecordsEffect
  <1>13. ASSUME NEW o \in Owners, Unlink(o) PROVE SweepersHold'
    <2>1. ASSUME NEW t \in Submitters PROVE SweeperHolds(t)'
      <3>1. SameSubmitter(t)
        BY <1>0, <1>s, <1>13, UnlinkEffect, UnlinkFilesEffect
      <3>2. submitter[t].at \in {"sweep records", "sweep files"} =>
                submitter[t].server \in ServerIds /\ files.lock[submitter[t].server] = t
        BY <1>0, <1>a DEF SweeperHolds
      <3>5. submitter[t].at \in {"sweep records", "sweep files"} => submitter[t].server # owner[o].dropping
        BY <1>0, <1>13, <3>2 DEF ApprovalsInv, ChannelsAreWhole, Unlink
      <3>3. submitter[t].at \in {"sweep records", "sweep files"} => files'.lock[submitter[t].server] = t
        BY <1>0, <1>13, <3>2, UnlinkEffect, UnlinkFilesEffect, <3>5
      <3>4. files'.records \subseteq files.records
        BY <1>0, <1>13, UnlinkEffect, UnlinkFilesEffect
      <3>. QED
        BY <1>0, <1>u, <3>1, <3>3, <3>4 DEF SweeperHolds
    <2>. QED
      BY <2>1 DEF SweepersHold
  <1>14. ASSUME NEW o \in Owners, ApprovalOwnerDies(o) PROVE SweepersHold'
    <2>1. ASSUME NEW t \in Submitters PROVE SweeperHolds(t)'
      <3>1. SameSubmitter(t)
        BY <1>0, <1>s, <1>14, OwnerDeathEffect, OwnerDeathFiles
      <3>2. submitter[t].at \in {"sweep records", "sweep files"} =>
                submitter[t].server \in ServerIds /\ files.lock[submitter[t].server] = t
        BY <1>0, <1>a DEF SweeperHolds
      <3>5. \A q \in ServerIds : files.lock[q] = t => files'.lock[q] = t
        <4>1. t # o /\ \A q \in ServerIds : files'.lock[q] = IF files.lock[q] = o THEN Free ELSE files.lock[q]
          BY <1>0, <1>14, OwnerDeathFiles
        <4>. QED
          BY <4>1
      <3>3. submitter[t].at \in {"sweep records", "sweep files"} => files'.lock[submitter[t].server] = t
        BY <1>0, <1>14, <3>2, OwnerDeathEffect, OwnerDeathFiles, <3>5
      <3>4. files'.records \subseteq files.records
        BY <1>0, <1>14, OwnerDeathEffect, OwnerDeathFiles
      <3>. QED
        BY <1>0, <1>u, <3>1, <3>3, <3>4 DEF SweeperHolds
    <2>. QED
      BY <2>1 DEF SweepersHold
  <1>15. ASSUME NEW s \in Submitters, NEW i \in Inputs, ReadPending(s, i) PROVE SweepersHold'
    <2>0. files.pending[i] \in ServerIds \cup {NoServer}
      BY <1>0 DEF ApprovalsTypeOK
    <2>1. SweeperHolds(s)'
      BY <1>0, <1>a, <1>15, <2>0, ReadEffect DEF SweeperHolds
    <2>2. \A t \in Submitters \ {s} : SweeperHolds(t)'
      BY <1>0, <1>v, <1>15, ReadEffect
    <2>. QED
      BY <2>1, <2>2 DEF SweepersHold
  <1>16. ASSUME NEW s \in Submitters, OpenOwner(s) PROVE SweepersHold'
    <2>1. SweeperHolds(s)'
      BY <1>0, <1>a, <1>16, OpenEffect DEF SweeperHolds, Moves, SameTarget, SameFiles
    <2>2. ASSUME NEW t \in Submitters \ {s} PROVE SweeperHolds(t)'
      <3>1. SameSubmitter(t)
        BY <1>0, <1>16, OpenEffect DEF Moves
      <3>2. submitter[t].at \in {"sweep records", "sweep files"} =>
                submitter[t].server \in ServerIds /\ files.lock[submitter[t].server] = t
        BY <1>0, <1>a DEF SweeperHolds
      <3>3. submitter[t].at \in {"sweep records", "sweep files"} => files'.lock[submitter[t].server] = t
        BY <1>0, <1>16, <3>2, OpenEffect DEF SameFiles
      <3>4. files'.records \subseteq files.records
        BY <1>0, <1>16, OpenEffect DEF SameFiles
      <3>. QED
        BY <1>0, <1>u, <3>1, <3>3, <3>4 DEF SweeperHolds
    <2>. QED
      BY <2>1, <2>2 DEF SweepersHold
  <1>17. ASSUME NEW s \in Submitters, TryLock(s) PROVE SweepersHold'
    <2>0. submitter[s].server \in ServerIds
      BY <1>0, <1>a, <1>17 DEF SweeperHolds, TryLock, SubmitterAt
    <2>1. SweeperHolds(s)'
      <3>0. submitter[s].at = "opened"
        BY <1>0, <1>17, <2>0, LockEffect
      <3>1. \/ SameFiles /\ Moves(s, "connect")
            \/ SameFiles /\ Moves(s, "disown") /\ submitter[s].server \notin files.records
            \/ Moves(s, "sweep records") /\ files'.lock[submitter[s].server] = s
        BY <1>0, <1>17, <2>0, LockEffect
      <3>2. submitter[s].input \in Inputs
        BY <1>0, <1>a, <3>0 DEF SweeperHolds
      <3>. QED
        BY <2>0, <3>1, <3>2 DEF SweeperHolds, Moves, SameTarget, SameFiles
    <2>2. ASSUME NEW t \in Submitters \ {s} PROVE SweeperHolds(t)'
      <3>1. SameSubmitter(t)
        BY <1>0, <1>17, LockEffect, <2>0 DEF Moves
      <3>2. submitter[t].at \in {"sweep records", "sweep files"} =>
                submitter[t].server \in ServerIds /\ files.lock[submitter[t].server] = t
        BY <1>0, <1>a DEF SweeperHolds
      <3>3. submitter[t].at \in {"sweep records", "sweep files"} => files'.lock[submitter[t].server] = t
        BY <1>0, <1>17, <3>2, LockEffect, <2>0 DEF SameFiles
      <3>4. files'.records \subseteq files.records
        BY <1>0, <1>17, LockEffect, <2>0 DEF SameFiles
      <3>. QED
        BY <1>0, <1>u, <3>1, <3>3, <3>4 DEF SweeperHolds
    <2>. QED
      BY <2>1, <2>2 DEF SweepersHold
  <1>18. ASSUME NEW s \in Submitters, SweepRecords(s) PROVE SweepersHold'
    <2>1. SweeperHolds(s)'
      BY <1>0, <1>a, <1>18, SweepRecordsEffect DEF SweeperHolds, Moves, SameTarget, SameFiles
    <2>2. ASSUME NEW t \in Submitters \ {s} PROVE SweeperHolds(t)'
      <3>1. SameSubmitter(t)
        BY <1>0, <1>18, SweepRecordsEffect DEF Moves
      <3>2. submitter[t].at \in {"sweep records", "sweep files"} =>
                submitter[t].server \in ServerIds /\ files.lock[submitter[t].server] = t
        BY <1>0, <1>a DEF SweeperHolds
      <3>3. submitter[t].at \in {"sweep records", "sweep files"} => files'.lock[submitter[t].server] = t
        BY <1>0, <1>18, <3>2, SweepRecordsEffect DEF SameFiles
      <3>4. files'.records \subseteq files.records
        BY <1>0, <1>18, SweepRecordsEffect DEF SameFiles
      <3>. QED
        BY <1>0, <1>u, <3>1, <3>3, <3>4 DEF SweeperHolds
    <2>. QED
      BY <2>1, <2>2 DEF SweepersHold
  <1>19. ASSUME NEW s \in Submitters, SweepFiles(s) PROVE SweepersHold'
    <2>0. submitter[s].server \in ServerIds
      BY <1>0, <1>a, <1>19 DEF SweeperHolds, SweepFiles, SubmitterAt
    <2>a. files.lock[submitter[s].server] = s
      BY <1>0, <1>19 DEF SweeperHolds, SweepFiles, SubmitterAt
    <2>1. SweeperHolds(s)'
      BY <1>0, <1>a, <1>19, SweepFilesEffect, <2>0 DEF SweeperHolds, Moves, SameTarget, SameFiles
    <2>2. ASSUME NEW t \in Submitters \ {s} PROVE SweeperHolds(t)'
      <3>1. SameSubmitter(t)
        BY <1>0, <1>19, SweepFilesEffect, <2>0 DEF Moves
      <3>2. submitter[t].at \in {"sweep records", "sweep files"} =>
                submitter[t].server \in ServerIds /\ files.lock[submitter[t].server] = t
        BY <1>0, <1>a DEF SweeperHolds
      <3>3. submitter[t].at \in {"sweep records", "sweep files"} => files'.lock[submitter[t].server] = t
        BY <1>0, <1>19, <3>2, SweepFilesEffect, <2>0, <2>a DEF SameFiles
      <3>4. files'.records \subseteq files.records
        BY <1>0, <1>19, SweepFilesEffect, <2>0 DEF SameFiles
      <3>. QED
        BY <1>0, <1>u, <3>1, <3>3, <3>4 DEF SweeperHolds
    <2>. QED
      BY <2>1, <2>2 DEF SweepersHold
  <1>20. ASSUME NEW s \in Submitters, Disown(s) PROVE SweepersHold'
    <2>1. SweeperHolds(s)'
      BY <1>0, <1>a, <1>20, DisownEffect DEF SweeperHolds, Moves, SameTarget, SameFiles
    <2>2. ASSUME NEW t \in Submitters \ {s} PROVE SweeperHolds(t)'
      <3>1. SameSubmitter(t)
        BY <1>0, <1>20, DisownEffect DEF Moves
      <3>2. submitter[t].at \in {"sweep records", "sweep files"} =>
                submitter[t].server \in ServerIds /\ files.lock[submitter[t].server] = t
        BY <1>0, <1>a DEF SweeperHolds
      <3>3. submitter[t].at \in {"sweep records", "sweep files"} => files'.lock[submitter[t].server] = t
        BY <1>0, <1>20, <3>2, DisownEffect DEF SameFiles
      <3>4. files'.records \subseteq files.records
        BY <1>0, <1>20, DisownEffect DEF SameFiles
      <3>. QED
        BY <1>0, <1>u, <3>1, <3>3, <3>4 DEF SweeperHolds
    <2>. QED
      BY <2>1, <2>2 DEF SweepersHold
  <1>21. ASSUME NEW s \in Submitters, Connect(s) \/ Accept(s) \/ Reply(s) \/ CutOff(s) PROVE SweepersHold'
    <2>1. SweeperHolds(s)'
      BY <1>0, <1>a, <1>21, TalkEffect DEF SweeperHolds, Moves, SameTarget, SameFiles
    <2>2. ASSUME NEW t \in Submitters \ {s} PROVE SweeperHolds(t)'
      <3>1. SameSubmitter(t)
        BY <1>0, <1>21, TalkEffect DEF Moves
      <3>2. submitter[t].at \in {"sweep records", "sweep files"} =>
                submitter[t].server \in ServerIds /\ files.lock[submitter[t].server] = t
        BY <1>0, <1>a DEF SweeperHolds
      <3>3. submitter[t].at \in {"sweep records", "sweep files"} => files'.lock[submitter[t].server] = t
        BY <1>0, <1>21, <3>2, TalkEffect DEF SameFiles
      <3>4. files'.records \subseteq files.records
        BY <1>0, <1>21, TalkEffect DEF SameFiles
      <3>. QED
        BY <1>0, <1>u, <3>1, <3>3, <3>4 DEF SweeperHolds
    <2>. QED
      BY <2>1, <2>2 DEF SweepersHold
  <1>22. ASSUME NEW s \in Submitters, HandleConnection(s) PROVE SweepersHold'
    <2>1. SweeperHolds(s)'
      BY <1>0, <1>a, <1>22, HandleEffect DEF SweeperHolds, Moves, SameTarget, SameFiles
    <2>2. ASSUME NEW t \in Submitters \ {s} PROVE SweeperHolds(t)'
      <3>1. SameSubmitter(t)
        BY <1>0, <1>22, HandleEffect DEF Moves
      <3>2. submitter[t].at \in {"sweep records", "sweep files"} =>
                submitter[t].server \in ServerIds /\ files.lock[submitter[t].server] = t
        BY <1>0, <1>a DEF SweeperHolds
      <3>3. submitter[t].at \in {"sweep records", "sweep files"} => files'.lock[submitter[t].server] = t
        BY <1>0, <1>22, <3>2, HandleEffect DEF SameFiles
      <3>4. files'.records \subseteq files.records
        BY <1>0, <1>22, HandleEffect DEF SameFiles
      <3>. QED
        BY <1>0, <1>u, <3>1, <3>3, <3>4 DEF SweeperHolds
    <2>. QED
      BY <2>1, <2>2 DEF SweepersHold
  <1>23. ASSUME NEW s \in Submitters, SubmitterDies(s) PROVE SweepersHold'
    <2>1. SweeperHolds(s)'
      BY <1>0, <1>a, <1>23, SubmitterDeathEffect DEF SweeperHolds, Moves, SameTarget, SameFiles
    <2>2. ASSUME NEW t \in Submitters \ {s} PROVE SweeperHolds(t)'
      <3>1. SameSubmitter(t)
        BY <1>0, <1>23, SubmitterDeathEffect DEF Moves
      <3>2. submitter[t].at \in {"sweep records", "sweep files"} =>
                submitter[t].server \in ServerIds /\ files.lock[submitter[t].server] = t
        BY <1>0, <1>a DEF SweeperHolds
      <3>3. submitter[t].at \in {"sweep records", "sweep files"} => files'.lock[submitter[t].server] = t
        <4>1. \A q \in ServerIds : files'.lock[q] = IF files.lock[q] = s THEN Free ELSE files.lock[q]
          BY <1>0, <1>23, SubmitterDeathEffect
        <4>. QED
          BY <3>2, <4>1
      <3>4. files'.records \subseteq files.records
        BY <1>0, <1>23, SubmitterDeathEffect DEF SameFiles
      <3>. QED
        BY <1>0, <1>u, <3>1, <3>3, <3>4 DEF SweeperHolds
    <2>. QED
      BY <2>1, <2>2 DEF SweepersHold
  <1>. QED
    BY <1>1, <1>2, <1>3, <1>4, <1>5, <1>6, <1>7, <1>8, <1>9, <1>10, <1>11, <1>12, <1>13, <1>14, <1>15, <1>16, <1>17, <1>18, <1>19, <1>20, <1>21, <1>22, <1>23
    DEF ApprovalsNext, InputStep, DropStep, SubmitterStep

LEMMA RegistersStep == ApprovalsInv /\ ApprovalsTypeOK' /\ ApprovalsNext => OneRegisters'
  <1>. SUFFICES ASSUME ApprovalsInv, ApprovalsTypeOK' PROVE ApprovalsNext => OneRegisters'
    OBVIOUS
  <1>0. ApprovalsTypeOK /\ OneRegisters /\ \A i \in Inputs : OwnerOf[i] \in Owners
    BY ApprovalsAssumption DEF ApprovalsInv
  <1>r. \A at : at \in Registering <=> at \in {"bind", "publish", "register"}
    BY DEF Registering
  <1>u. ASSUME UNCHANGED <<owner, input>>,
               \A i \in Inputs : NextServer(OwnerOf[i]) \in files.sockets => NextServer(OwnerOf[i]) \in files'.sockets
        PROVE  OneRegisters'
    BY <1>0, <1>u DEF OneRegisters, NextServer
  <1>n. \A i \in Inputs : input[i] = "publish" =>
            NextServer(OwnerOf[i]) \in ServerIds /\ ~Numbered(NextServer(OwnerOf[i]))
    BY <1>0, NextFacts DEF OneRegisters
  <1>1. ASSUME NEW i \in Inputs, CheckFlag(i) PROVE OneRegisters'
    BY <1>0, <1>1, CheckEffect, <1>r DEF InputMoves, OneRegisters, ServerFree, InputsOf, NextServer
  <1>2. ASSUME NEW i \in Inputs, LookAtSlot(i) PROVE OneRegisters'
    BY <1>0, <1>2, LookEffect, <1>r DEF InputMoves, OneRegisters, ServerFree, InputsOf, NextServer
  <1>3. ASSUME NEW i \in Inputs, BindSocket(i) PROVE OneRegisters'
    BY <1>0, <1>3, BindEffect, <1>r DEF OneRegisters, ServerFree, InputsOf, NextServer
  <1>4. ASSUME NEW i \in Inputs, PublishOwner(i) PROVE OneRegisters'
    <2>. DEFINE o == OwnerOf[i]
    <2>0. owner[o].used < MaxServers /\ o \in Owners /\ input[i] = "publish"
      BY <1>0, <1>4 DEF ApprovalsInv, OneRegisters, PublishOwner
    <2>1. PICK q \in ServerIds : q = NextServer(o) /\ q # NoServer
      BY <1>0, <2>0, NextFacts
    <2>2. /\ files'.sockets = files.sockets /\ owner'[o].slot = q
          /\ \A p \in Owners \ {o} : SameOwner(p)
          /\ \A j \in Inputs : input'[j] = IF j = i THEN "register" ELSE input[j]
      BY <1>0, <1>4, <2>0, <2>1, PublishEffect
    <2>3. \A j \in Inputs \ {i} : input'[j] \in Registering => OwnerOf[j] # o
      BY <1>0, <1>r, <2>0, <2>2 DEF OneRegisters
    <2>4. \A j, l \in Inputs :
              input'[j] \in Registering /\ input'[l] \in Registering /\ OwnerOf[j] = OwnerOf[l] => j = l
      BY <1>0, <1>r, <2>2, <2>3 DEF OneRegisters
    <2>5. ASSUME NEW j \in Inputs
          PROVE  LET p == OwnerOf[j]
                 IN  /\ input'[j] \in {"bind", "publish"} => owner'[p].slot = NoServer /\ owner'[p].used < MaxServers
                     /\ input'[j] = "register" => owner'[p].slot # NoServer
                     /\ input'[j] = "publish" => <<p, owner'[p].used + 1>> \in files'.sockets
      BY <1>0, <1>r, <2>1, <2>2, <2>3 DEF OneRegisters, SameOwner, NextServer
    <2>. QED
      BY <2>4, <2>5 DEF OneRegisters, NextServer
  <1>5. ASSUME NEW i \in Inputs, register_pending(i) PROVE OneRegisters'
    BY <1>0, <1>5, RegisterEffect, <1>r DEF OneRegisters, ServerFree, InputsOf, NextServer
  <1>6. ASSUME NEW i \in Inputs, RegisterFails(i) PROVE OneRegisters'
    BY <1>0, <1>6, RegisterFailsEffect, <1>r DEF SameFiles, OneRegisters, ServerFree, InputsOf, NextServer
  <1>7. ASSUME NEW i \in Inputs, Settle(i) PROVE OneRegisters'
    BY <1>0, <1>7, SettleEffect, <1>r DEF InputMoves, OneRegisters, ServerFree, InputsOf, NextServer
  <1>8. ASSUME NEW i \in Inputs, RemoveRecord(i) PROVE OneRegisters'
    BY <1>0, <1>8, RemoveEffect, <1>r DEF OneRegisters, ServerFree, InputsOf, NextServer
  <1>9. ASSUME NEW o \in Owners, ShutdownStarts(o) PROVE OneRegisters'
    BY <1>0, <1>9, FlagEffect, <1>r DEF SameOwner, SameServers, OneRegisters, ServerFree, InputsOf, NextServer
  <1>10. ASSUME NEW o \in Owners, TakeServer(o) PROVE OneRegisters'
    BY <1>0, <1>10, TakeEffect, <1>r DEF SameOwner, OneRegisters, ServerFree, InputsOf, NextServer
  <1>11. ASSUME NEW o \in Owners, JoinThread(o) PROVE OneRegisters'
    BY <1>0, <1>11, JoinEffect, <1>r DEF SameOwner, SameServers, OneRegisters, ServerFree, InputsOf, NextServer
  <1>12. ASSUME NEW o \in Owners, ClearRecords(o) PROVE OneRegisters'
    BY <1>0, <1>12, ClearingEffect, ClearRecordsEffect, <1>r DEF SameOwner, SameServers, OneRegisters, ServerFree, InputsOf, NextServer
  <1>13. ASSUME NEW o \in Owners, Unlink(o) PROVE OneRegisters'
    <2>0. owner[o].dropping \in ServerIds => Numbered(owner[o].dropping)
      BY DEF ApprovalsInv, ServersAreNumbered
    <2>1. UNCHANGED input /\ files'.sockets = files.sockets \ {owner[o].dropping}
          /\ \A p \in Owners : owner'[p].slot = owner[p].slot /\ owner'[p].used = owner[p].used
      BY <1>0, <1>13, UnlinkEffect, UnlinkFilesEffect DEF SameOwner
    <2>2. \A i \in Inputs : input[i] = "publish" => NextServer(OwnerOf[i]) \in files'.sockets
      BY <1>0, <1>n, <2>0, <2>1 DEF OneRegisters
    <2>. QED
      BY <1>0, <2>1, <2>2 DEF OneRegisters, NextServer
  <1>14. ASSUME NEW o \in Owners, ApprovalOwnerDies(o) PROVE OneRegisters'
    BY <1>0, <1>14, OwnerDeathEffect, OwnerDeathFiles, <1>r DEF SameOwner, OneRegisters, ServerFree, InputsOf, NextServer
  <1>15. ASSUME NEW s \in Submitters, NEW i \in Inputs, ReadPending(s, i) PROVE OneRegisters'
    BY <1>0, <1>15, ReadEffect, <1>r DEF SameSubmitter, OneRegisters, ServerFree, InputsOf, NextServer
  <1>16. ASSUME NEW s \in Submitters, OpenOwner(s) PROVE OneRegisters'
    BY <1>0, <1>16, OpenEffect, <1>r DEF Moves, SameTarget, SameSubmitter, OneRegisters, ServerFree, InputsOf, NextServer
  <1>17. ASSUME NEW s \in Submitters, TryLock(s) PROVE OneRegisters'
    <2>0. submitter[s].server \in ServerIds
      BY <1>17 DEF TryLock, SubmitterAt, ApprovalsInv, SweepersHold, SweeperHolds, Asking
    <2>1. UNCHANGED <<owner, input>> /\ files'.sockets = files.sockets
      BY <1>0, <1>17, <2>0, LockEffect DEF SameFiles
    <2>. QED
      BY <1>u, <2>1
  <1>18. ASSUME NEW s \in Submitters, SweepRecords(s) PROVE OneRegisters'
    <2>1. UNCHANGED <<owner, input>> /\ files'.sockets = files.sockets
      BY <1>0, <1>18, SweepRecordsEffect DEF SameFiles
    <2>. QED
      BY <1>u, <2>1
  <1>19. ASSUME NEW s \in Submitters, SweepFiles(s) PROVE OneRegisters'
    <2>0. submitter[s].server \in ServerIds /\ Numbered(submitter[s].server)
      BY <1>19 DEF SweepFiles, SubmitterAt, ApprovalsInv, SweepersHold, SweeperHolds, Asking, ServersAreNumbered
    <2>1. UNCHANGED <<owner, input>> /\ files'.sockets = files.sockets \ {submitter[s].server}
      BY <1>0, <1>19, SweepFilesEffect
    <2>2. \A i \in Inputs : input[i] = "publish" => NextServer(OwnerOf[i]) \in files'.sockets
      BY <1>0, <1>n, <2>0, <2>1 DEF OneRegisters
    <2>. QED
      BY <1>0, <2>1, <2>2 DEF OneRegisters, NextServer
  <1>20. ASSUME NEW s \in Submitters, Disown(s) PROVE OneRegisters'
    BY <1>0, <1>20, DisownEffect, <1>r DEF Moves, SameTarget, SameSubmitter, OneRegisters, ServerFree, InputsOf, NextServer
  <1>21. ASSUME NEW s \in Submitters, Connect(s) \/ Accept(s) \/ Reply(s) \/ CutOff(s) PROVE OneRegisters'
    BY <1>0, <1>21, TalkEffect, <1>r DEF Moves, SameTarget, SameSubmitter, OneRegisters, ServerFree, InputsOf, NextServer
  <1>22. ASSUME NEW s \in Submitters, HandleConnection(s) PROVE OneRegisters'
    BY <1>0, <1>22, HandleEffect, <1>r DEF Moves, SameTarget, SameSubmitter, OneRegisters, ServerFree, InputsOf, NextServer
  <1>23. ASSUME NEW s \in Submitters, SubmitterDies(s) PROVE OneRegisters'
    BY <1>0, <1>23, SubmitterDeathEffect, <1>r DEF Moves, SameTarget, SameSubmitter, OneRegisters, ServerFree, InputsOf, NextServer
  <1>. QED
    BY <1>1, <1>2, <1>3, <1>4, <1>5, <1>6, <1>7, <1>8, <1>9, <1>10, <1>11, <1>12, <1>13, <1>14, <1>15, <1>16, <1>17, <1>18, <1>19, <1>20, <1>21, <1>22, <1>23
    DEF ApprovalsNext, InputStep, DropStep, SubmitterStep

LEMMA RecordsStep == ApprovalsInv /\ ApprovalsTypeOK' /\ ApprovalsNext => RecordsFollow'
  <1>. SUFFICES ASSUME ApprovalsInv, ApprovalsTypeOK' PROVE ApprovalsNext => RecordsFollow'
    OBVIOUS
  <1>0. /\ ApprovalsTypeOK /\ RecordsFollow /\ \A i \in Inputs : OwnerOf[i] \in Owners
        /\ \A s \in Submitters : s \notin Owners
    BY ApprovalsAssumption DEF ApprovalsInv
  <1>k. \A k \in ServerIds : k # NoServer
    BY ServerFacts
  <1>t. /\ \A o \in Owners : owner[o].slot \in ServerIds \cup {NoServer} /\ owner[o].dropping \in ServerIds \cup {NoServer}
        /\ \A i \in Inputs : files.pending[i] \in ServerIds \cup {NoServer}
        /\ \A t \in Submitters : submitter[t].server \in ServerIds \cup {NoServer}
    BY <1>0 DEF ApprovalsTypeOK, Owner, Submitter
  <1>r. \A at : at \in Registering <=> at \in {"bind", "publish", "register"}
    BY DEF Registering
  <1>u. ASSUME UNCHANGED <<owner, input>>,
               \A i \in Inputs : \/ files'.pending[i] = files.pending[i]
                                  \/ /\ files'.pending[i] = NoServer
                                     /\ owner[OwnerOf[i]].up => files.pending[i] # owner[OwnerOf[i]].slot
        PROVE  RecordsFollow'
    <2>. SUFFICES ASSUME NEW i \in Inputs
                  PROVE  LET o == OwnerOf[i]
                         IN /\ files'.pending[i] # NoServer => input[i] \in {"open", "settled", "gone"}
                            /\ owner[o].up /\ files'.pending[i] # NoServer /\ files'.pending[i] # owner[o].slot =>
                                   owner[o].at \in {"joining", "clearing"} /\ files'.pending[i] = owner[o].dropping
                            /\ owner[o].up /\ input[i] = "gone" /\ files'.pending[i] # NoServer =>
                                   files'.pending[i] # owner[o].slot
                            /\ owner[o].up /\ owner[o].at = "open" /\ input[i] = "open" =>
                                   files'.pending[i] = owner[o].slot /\ owner[o].slot # NoServer
      BY <1>u DEF RecordsFollow
    <2>. QED
      BY <1>0, <1>u DEF RecordsFollow
  <1>1. ASSUME NEW i \in Inputs, CheckFlag(i) PROVE RecordsFollow'
    BY <1>0, <1>1, CheckEffect, <1>k, <1>t, <1>r DEF InputMoves, RecordsFollow
  <1>2. ASSUME NEW i \in Inputs, LookAtSlot(i) PROVE RecordsFollow'
    BY <1>0, <1>2, LookEffect, <1>k, <1>t, <1>r DEF InputMoves, RecordsFollow
  <1>3. ASSUME NEW i \in Inputs, BindSocket(i) PROVE RecordsFollow'
    BY <1>0, <1>3, BindEffect, <1>k, <1>t, <1>r DEF RecordsFollow
  <1>4. ASSUME NEW i \in Inputs, PublishOwner(i) PROVE RecordsFollow'
    <2>. DEFINE o == OwnerOf[i]
    <2>0. owner[o].used < MaxServers /\ o \in Owners /\ owner[o].slot = NoServer
      BY <1>0, <1>4 DEF ApprovalsInv, OneRegisters, PublishOwner
    <2>1. PICK q \in ServerIds : q = NextServer(o) /\ ~Numbered(q) /\ q # NoServer
      BY <1>0, <2>0, NextFacts
    <2>2. /\ files'.pending = files.pending /\ owner'[o].slot = q /\ owner[o].up
          /\ owner'[o].at = owner[o].at /\ owner'[o].dropping = owner[o].dropping
          /\ \A p \in Owners \ {o} : SameOwner(p)
          /\ input[i] = "publish" /\ \A j \in Inputs : input'[j] = IF j = i THEN "register" ELSE input[j]
      BY <1>0, <1>4, <2>0, <2>1, PublishEffect
    <2>3. \A j \in Inputs : files.pending[j] # q
      BY <2>1 DEF ApprovalsInv, ServersAreNumbered
    <2>6. ASSUME NEW j \in Inputs
          PROVE  LET p == OwnerOf[j]
                 IN /\ files'.pending[j] # NoServer => input'[j] \in {"open", "settled", "gone"}
                    /\ owner'[p].up /\ files'.pending[j] # NoServer /\ files'.pending[j] # owner'[p].slot =>
                           owner'[p].at \in {"joining", "clearing"} /\ files'.pending[j] = owner'[p].dropping
                    /\ owner'[p].up /\ input'[j] = "gone" /\ files'.pending[j] # NoServer =>
                           files'.pending[j] # owner'[p].slot
                    /\ owner'[p].up /\ owner'[p].at = "open" /\ input'[j] = "open" =>
                           files'.pending[j] = owner'[p].slot /\ owner'[p].slot # NoServer
      <3>1. CASE OwnerOf[j] = o
        BY <1>0, <2>0, <2>1, <2>2, <2>3, <3>1 DEF RecordsFollow
      <3>2. CASE OwnerOf[j] # o
        BY <1>0, <2>2, <3>2 DEF RecordsFollow, SameOwner
      <3>. QED
        BY <3>1, <3>2
    <2>. QED
      BY <2>6 DEF RecordsFollow
  <1>5. ASSUME NEW i \in Inputs, register_pending(i) PROVE RecordsFollow'
    <2>1. /\ UNCHANGED owner /\ owner[OwnerOf[i]].slot # NoServer
          /\ \A j \in Inputs : /\ input'[j] = IF j = i THEN "open" ELSE input[j]
                              /\ files'.pending[j] = IF j = i THEN owner[OwnerOf[i]].slot ELSE files.pending[j]
      BY <1>0, <1>5, RegisterEffect DEF ApprovalsInv, OneRegisters
    <2>6. ASSUME NEW j \in Inputs
          PROVE  LET p == OwnerOf[j]
                 IN /\ files'.pending[j] # NoServer => input'[j] \in {"open", "settled", "gone"}
                    /\ owner'[p].up /\ files'.pending[j] # NoServer /\ files'.pending[j] # owner'[p].slot =>
                           owner'[p].at \in {"joining", "clearing"} /\ files'.pending[j] = owner'[p].dropping
                    /\ owner'[p].up /\ input'[j] = "gone" /\ files'.pending[j] # NoServer =>
                           files'.pending[j] # owner'[p].slot
                    /\ owner'[p].up /\ owner'[p].at = "open" /\ input'[j] = "open" =>
                           files'.pending[j] = owner'[p].slot /\ owner'[p].slot # NoServer
      BY <1>0, <2>1 DEF RecordsFollow
    <2>. QED
      BY <2>6 DEF RecordsFollow
  <1>6. ASSUME NEW i \in Inputs, RegisterFails(i) PROVE RecordsFollow'
    BY <1>0, <1>6, RegisterFailsEffect, <1>k, <1>t, <1>r DEF SameFiles, RecordsFollow
  <1>7. ASSUME NEW i \in Inputs, Settle(i) PROVE RecordsFollow'
    BY <1>0, <1>7, SettleEffect, <1>k, <1>t, <1>r DEF InputMoves, RecordsFollow
  <1>8. ASSUME NEW i \in Inputs, RemoveRecord(i) PROVE RecordsFollow'
    BY <1>0, <1>8, RemoveEffect, <1>k, <1>t, <1>r DEF RecordsFollow
  <1>9. ASSUME NEW o \in Owners, ShutdownStarts(o) PROVE RecordsFollow'
    BY <1>0, <1>9, FlagEffect, <1>k, <1>t, <1>r DEF SameOwner, SameServers, RecordsFollow
  <1>10. ASSUME NEW o \in Owners, TakeServer(o) PROVE RecordsFollow'
    BY <1>0, <1>10, TakeEffect, <1>k, <1>t, <1>r DEF SameOwner, RecordsFollow
  <1>11. ASSUME NEW o \in Owners, JoinThread(o) PROVE RecordsFollow'
    BY <1>0, <1>11, JoinEffect, <1>k, <1>t, <1>r DEF SameOwner, SameServers, RecordsFollow
  <1>12. ASSUME NEW o \in Owners, ClearRecords(o) PROVE RecordsFollow'
    <2>1. /\ \A p \in Owners : SameServers(p) /\ (p # o => owner'[p].at = owner[p].at)
          /\ owner[o].at = "clearing" /\ owner'[o].at = "unlinking" /\ UNCHANGED input
          /\ \A j \in Inputs : files'.pending[j] =
                 IF files.pending[j] = owner[o].dropping THEN NoServer ELSE files.pending[j]
      BY <1>0, <1>12, ClearingEffect, ClearRecordsEffect DEF SameOwner
    <2>2. \A j \in Inputs : files.pending[j] # NoServer => files.pending[j] \in ServerIds /\ files.pending[j][1] = OwnerOf[j]
      BY <1>t DEF ApprovalsInv, ServersAreNumbered
    <2>3. owner[o].dropping # NoServer => owner[o].dropping \in ServerIds /\ owner[o].dropping[1] = o
      BY <1>t DEF ApprovalsInv, ServersAreNumbered
    <2>4. owner[o].slot # NoServer => owner[o].slot # owner[o].dropping
      BY DEF ApprovalsInv, ChannelsAreWhole
    <2>5. \A j \in Inputs : OwnerOf[j] # o => files'.pending[j] = files.pending[j]
      BY <1>0, <2>1, <2>2, <2>3
    <2>6. ASSUME NEW j \in Inputs
          PROVE  LET p == OwnerOf[j]
                 IN /\ files'.pending[j] # NoServer => input'[j] \in {"open", "settled", "gone"}
                    /\ owner'[p].up /\ files'.pending[j] # NoServer /\ files'.pending[j] # owner'[p].slot =>
                           owner'[p].at \in {"joining", "clearing"} /\ files'.pending[j] = owner'[p].dropping
                    /\ owner'[p].up /\ input'[j] = "gone" /\ files'.pending[j] # NoServer =>
                           files'.pending[j] # owner'[p].slot
                    /\ owner'[p].up /\ owner'[p].at = "open" /\ input'[j] = "open" =>
                           files'.pending[j] = owner'[p].slot /\ owner'[p].slot # NoServer
      BY <1>0, <2>1, <2>4, <2>5 DEF RecordsFollow, SameServers
    <2>. QED
      BY <2>6 DEF RecordsFollow
  <1>13. ASSUME NEW o \in Owners, Unlink(o) PROVE RecordsFollow'
    BY <1>0, <1>13, UnlinkEffect, UnlinkFilesEffect, <1>k, <1>t, <1>r DEF SameOwner, RecordsFollow
  <1>14. ASSUME NEW o \in Owners, ApprovalOwnerDies(o) PROVE RecordsFollow'
    BY <1>0, <1>14, OwnerDeathEffect, OwnerDeathFiles, <1>k, <1>t, <1>r DEF SameOwner, RecordsFollow
  <1>15. ASSUME NEW s \in Submitters, NEW i \in Inputs, ReadPending(s, i) PROVE RecordsFollow'
    BY <1>0, <1>15, ReadEffect, <1>k, <1>t, <1>r DEF SameSubmitter, RecordsFollow
  <1>16. ASSUME NEW s \in Submitters, OpenOwner(s) PROVE RecordsFollow'
    BY <1>0, <1>16, OpenEffect, <1>k, <1>t, <1>r DEF Moves, SameTarget, SameSubmitter, RecordsFollow
  <1>17. ASSUME NEW s \in Submitters, TryLock(s) PROVE RecordsFollow'
    <2>0. submitter[s].server \in ServerIds
      BY <1>17 DEF TryLock, SubmitterAt, ApprovalsInv, SweepersHold, SweeperHolds, Asking
    <2>1. UNCHANGED <<owner, input>> /\ files'.pending = files.pending
      BY <1>0, <1>17, <2>0, LockEffect DEF SameFiles
    <2>. QED
      BY <1>u, <2>1
  <1>18. ASSUME NEW s \in Submitters, SweepRecords(s) PROVE RecordsFollow'
    <2>0. submitter[s].server \in ServerIds /\ files.lock[submitter[s].server] = s
      BY <1>18 DEF SweepRecords, SubmitterAt, ApprovalsInv, SweepersHold, SweeperHolds, Asking
    <2>a. \A o \in Owners : owner[o].up => owner[o].slot # submitter[s].server
      BY <1>0, <1>k, <1>t, <2>0 DEF ApprovalsInv, ChannelsAreWhole
    <2>1. UNCHANGED <<owner, input>>
          /\ \A j \in Inputs : files'.pending[j] = IF files.pending[j] = submitter[s].server THEN NoServer ELSE files.pending[j]
      BY <1>0, <1>18, SweepRecordsEffect
    <2>. QED
      BY <1>0, <1>u, <2>1, <2>a
  <1>19. ASSUME NEW s \in Submitters, SweepFiles(s) PROVE RecordsFollow'
    <2>1. UNCHANGED <<owner, input>> /\ files'.pending = files.pending
      BY <1>0, <1>19, SweepFilesEffect
    <2>. QED
      BY <1>u, <2>1
  <1>20. ASSUME NEW s \in Submitters, Disown(s) PROVE RecordsFollow'
    <2>0. submitter[s].server \in ServerIds /\ submitter[s].server \notin files.records
      BY <1>20 DEF Disown, SubmitterAt, ApprovalsInv, SweepersHold, SweeperHolds, Asking
    <2>a. \A o \in Owners : owner[o].up => owner[o].slot # submitter[s].server
      BY <1>0, <1>k, <1>t, <2>0 DEF ApprovalsInv, ChannelsAreWhole
    <2>1. UNCHANGED <<owner, input>>
          /\ \A j \in Inputs : files'.pending[j] =
                 IF j = submitter[s].input /\ files.pending[j] = submitter[s].server THEN NoServer ELSE files.pending[j]
      BY <1>0, <1>20, DisownEffect
    <2>. QED
      BY <1>0, <1>u, <2>1, <2>a
  <1>21. ASSUME NEW s \in Submitters, Connect(s) \/ Accept(s) \/ Reply(s) \/ CutOff(s) PROVE RecordsFollow'
    BY <1>0, <1>21, TalkEffect, <1>k, <1>t, <1>r DEF Moves, SameTarget, SameSubmitter, RecordsFollow
  <1>22. ASSUME NEW s \in Submitters, HandleConnection(s) PROVE RecordsFollow'
    BY <1>0, <1>22, HandleEffect, <1>k, <1>t, <1>r DEF Moves, SameTarget, SameSubmitter, RecordsFollow
  <1>23. ASSUME NEW s \in Submitters, SubmitterDies(s) PROVE RecordsFollow'
    BY <1>0, <1>23, SubmitterDeathEffect, <1>k, <1>t, <1>r DEF Moves, SameTarget, SameSubmitter, RecordsFollow
  <1>. QED
    BY <1>1, <1>2, <1>3, <1>4, <1>5, <1>6, <1>7, <1>8, <1>9, <1>10, <1>11, <1>12, <1>13, <1>14, <1>15, <1>16, <1>17, <1>18, <1>19, <1>20, <1>21, <1>22, <1>23
    DEF ApprovalsNext, InputStep, DropStep, SubmitterStep

(* For any processes, requests and submitters, and any number of servers: a *)
(* request that waits can be approved until its owner shuts down, whatever  *)
(* submitters made of other servers and whoever died; and no record of a    *)
(* request that is over outlives it but for the time its server takes to    *)
(* drop.                                                                    *)
THEOREM ApprovalsStayLive == LocalSpec => []ApprovalsAreLive
  <1>1. LocalInit => ApprovalsInv
    <2>. SUFFICES ASSUME ApprovalsInit PROVE ApprovalsInv
      BY DEF LocalInit
    <2>1. PICK cast \in Casts :
              /\ input = [i \in Inputs |-> IF i \in cast THEN "none" ELSE "gone"]
              /\ submitter = [s \in Submitters |-> [at |-> IF s \in cast THEN "idle" ELSE "refused",
                                                    input |-> Free, server |-> NoServer]]
      BY DEF ApprovalsInit
    <2>2. /\ owner = [o \in Owners |-> [up |-> TRUE, at |-> "open", slot |-> NoServer,
                                        dropping |-> NoServer, used |-> 0]]
          /\ files = [records |-> {}, sockets |-> {}, lock |-> [k \in ServerIds |-> Free],
                      pending |-> [i \in Inputs |-> NoServer]]
      BY DEF ApprovalsInit
    <2>3. /\ \A k \in ServerIds : k # NoServer /\ files.lock[k] = Free
          /\ \A o \in Owners : /\ owner[o].at = "open" /\ owner[o].slot = NoServer
                               /\ owner[o].dropping = NoServer /\ owner[o].used = 0
          /\ \A i \in Inputs : files.pending[i] = NoServer /\ input[i] \in {"none", "gone"} /\ OwnerOf[i] \in Owners
          /\ \A s \in Submitters : submitter[s].at \in {"idle", "refused"} /\ submitter[s].server = NoServer
          /\ files.records = {}
      BY <2>1, <2>2, ServerFacts, ApprovalsAssumption
    <2>4. ApprovalsTypeOK
      <3>1. owner \in [Owners -> Owner]
        BY <2>2, ApprovalsAssumption DEF Owner
      <3>2. input \in [Inputs -> InputAt]
        BY <2>1 DEF InputAt
      <3>3. submitter \in [Submitters -> Submitter]
        BY <2>1 DEF Submitter
      <3>. QED
        BY <2>2, <3>1, <3>2, <3>3 DEF ApprovalsTypeOK
    <2>5. ServersAreNumbered
      BY <2>3 DEF ServersAreNumbered
    <2>6. ChannelsAreWhole
      BY <2>3, ApprovalsAssumption DEF ChannelsAreWhole
    <2>7. SweepersHold
      BY <2>3 DEF SweepersHold, SweeperHolds, Asking
    <2>8. OneRegisters
      BY <2>3 DEF OneRegisters, Registering
    <2>9. RecordsFollow
      BY <2>3 DEF RecordsFollow
    <2>. QED
      BY <2>4, <2>5, <2>6, <2>7, <2>8, <2>9 DEF ApprovalsInv
  <1>2. ApprovalsInv /\ [LocalNext]_localVars => ApprovalsInv'
    <2>1. ASSUME ApprovalsInv, UNCHANGED approvalVars PROVE ApprovalsInv'
      <3>1. UNCHANGED <<owner, input, files, submitter>>
        BY <2>1 DEF approvalVars
      <3>2. ApprovalsTypeOK' /\ ServersAreNumbered' /\ ChannelsAreWhole'
        BY <2>1, <3>1 DEF ApprovalsInv, ApprovalsTypeOK, ServersAreNumbered, Numbered, ChannelsAreWhole
      <3>3. SweepersHold' /\ OneRegisters' /\ RecordsFollow'
        BY <2>1, <3>1 DEF ApprovalsInv, SweepersHold, SweeperHolds, OneRegisters, NextServer, RecordsFollow
      <3>. QED
        BY <3>2, <3>3 DEF ApprovalsInv
    <2>2. ASSUME ApprovalsInv, ApprovalsNext PROVE ApprovalsInv'
      BY <2>2, ApprovalTypes, NumbersStep, ChannelsStep, SweepersStep, RegistersStep, RecordsStep DEF ApprovalsInv
    <2>. QED
      BY <2>1, <2>2 DEF LocalNext, localVars
  <1>3. ApprovalsInv => ApprovalsAreLive
    <2>. SUFFICES ASSUME ApprovalsInv PROVE ApprovalsAreLive
      OBVIOUS
    <2>1. /\ ApprovalsTypeOK /\ ChannelsAreWhole /\ RecordsFollow /\ \A i \in Inputs : OwnerOf[i] \in Owners
          /\ \A o \in Owners : owner[o].slot \in ServerIds \cup {NoServer}
      BY ApprovalsAssumption DEF ApprovalsInv, ApprovalsTypeOK, Owner
    <2>2. WaitingIsReachable
      BY <2>1 DEF ChannelsAreWhole, RecordsFollow, WaitingIsReachable
    <2>3. RecordsAreCurrent
      BY <2>1 DEF RecordsFollow, RecordsAreCurrent
    <2>. QED
      BY <2>1, <2>2, <2>3 DEF ApprovalsAreLive
  <1>. QED
    BY <1>1, <1>2, <1>3, PTL DEF LocalSpec, LocalSafe
=============================================================================
