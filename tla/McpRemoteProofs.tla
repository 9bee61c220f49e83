--------------------------- MODULE McpRemoteProofs ---------------------------
(***************************************************************************)
(* What a remote MCP session keeps for any requests and bounds: every POST *)
(* is made at most once, and who speaks to the server speaks in the        *)
(* session of the moment, whatever recoveries run beside it; only the      *)
(* opening notification names the session it read before it had the gate.  *)
(***************************************************************************)
EXTENDS McpRemote, FiniteSetTheorems, TLAPS

-----------------------------------------------------------------------------
(* The inductive invariant.                                                 *)

TaskState == [at : Stages, over : 0 .. MaxSessions, ran : 0 .. MaxSessions,
              back : Stages, swept : SUBSET Requests, outcome : Outcomes]

ValuesTyped ==
    /\ session \in 1 .. MaxSessions /\ honoured \in 0 .. MaxSessions
    /\ expired \in BOOLEAN /\ ready \in BOOLEAN /\ generation \in BOOLEAN /\ closed \in BOOLEAN
    /\ gate \in [readers : SUBSET Tasks, writer : Tasks \cup {NoTask}]
    /\ reinit \in Tasks \cup {NoTask}
    /\ tokens \subseteq Requests /\ pending \subseteq Requests
    /\ sweptAway \subseteq Requests /\ cancelSent \subseteq Requests
    /\ told \in [Requests -> {"nothing", "answer", "error", "cancelled"}]
    /\ posts \in [Requests -> Nat]
    /\ faults \in 0 .. MaxFaults

TasksTyped == task \in [Tasks -> TaskState]

(* Replacing the session is done alone: a writer of the gate has no reader  *)
(* beside it and holds the reinitialisation lock. A reader speaks in the    *)
(* session of the moment, unless it is the opener, which keeps its place in *)
(* the gate while it waits for the lock: until then the session is marked   *)
(* as expired.                                                              *)
GateInv ==
    /\ gate.writer # NoTask => gate.readers = {} /\ reinit = gate.writer
    /\ \A t \in gate.readers :
         /\ t # Opener => task[t].over = session
         /\ \/ task[t].at \in {"posted", "resumed", "cancelPosted", "getting"}
            \/ t = Opener /\ expired /\ task[t].at \in {"lock", "write"}

(* The lock has one holder, the task that writes, and the gate is closed by *)
(* the task that posts the new handshake.                                   *)
LockInv ==
    /\ reinit # NoTask => task[reinit].at \in {"write", "posting", "opening"}
    /\ \A t \in Tasks : /\ task[t].at \in {"write", "posting", "opening"} => reinit = t
                        /\ task[t].at \in {"posting", "opening"} <=> gate.writer = t

(* A request that has not come to its POST, or is on a detour from before   *)
(* it, has made none.                                                       *)
Unsent == {"idle", "ready", "noticing", "waiting", "current"}
Detours == {"sweep", "extend", "lock", "write", "posting", "opening"}
Early(t) == task[t].at \in Unsent \/ (task[t].at \in Detours /\ task[t].back \in Unsent)
PostsInv == \A r \in Requests : posts[r] <= 1 /\ (Early(r) => posts[r] = 0)

(* The opener runs once, and the listener starts after it.                  *)
OpenerInv ==
    /\ task[Opener].at \in {"current", "named", "posted", "lock", "write", "posting", "opening", "done"}
    /\ task[Opener].back = "done"
    /\ task[Opener].at \in {"current", "named", "posted"} => task[Listener].at = "idle"

(* No detour returns to a POST that was made.                               *)
BacksInv == \A t \in Tasks : task[t].back \in {"done", "ready", "current", "resuming", "concluding", "listen"}

RemoteInv == ValuesTyped /\ TasksTyped /\ GateInv /\ LockInv /\ PostsInv /\ OpenerInv /\ BacksInv

-----------------------------------------------------------------------------
(* Lemmas on tasks.                                                         *)

(* The tasks of the connection are distinct, and the bounds are numbers.     *)
LEMMA TasksDiffer ==
    /\ Opener \in Tasks /\ Listener \in Tasks /\ Canceller \in Tasks
    /\ Opener \notin Requests /\ Listener \notin Requests /\ Canceller \notin Requests
    /\ Opener # Listener /\ Listener # Canceller
    /\ Requests \subseteq Tasks /\ NoTask \notin Tasks
    /\ MaxSessions \in Nat /\ MaxFaults \in Nat /\ MaxSessions > 0
    /\ Senders \subseteq Tasks /\ Opener \notin Senders /\ Opener # Canceller
<1>1. ASSUME NEW a, NEW b PROVE Cardinality({a, b}) <= 2
  <2>1. IsFiniteSet({a}) /\ Cardinality({a}) = 1
    BY FS_Singleton
  <2>2. Cardinality({a} \cup {b}) = IF b \in {a} THEN 1 ELSE 2
    BY <2>1, FS_AddElement
  <2>3. {a} \cup {b} = {a, b}
    OBVIOUS
  <2> QED BY <2>2, <2>3
<1>2. Opener # Listener /\ Listener # Canceller /\ Opener # Canceller
  <2>1. ASSUME Opener = Listener PROVE {Opener, Listener, Canceller} = {Opener, Canceller}
    BY <2>1
  <2>2. ASSUME Listener = Canceller PROVE {Opener, Listener, Canceller} = {Opener, Canceller}
    BY <2>2
  <2>3. ASSUME Opener = Canceller PROVE {Opener, Listener, Canceller} = {Opener, Listener}
    BY <2>3
  <2>4. Cardinality({Opener, Canceller}) <= 2 /\ Cardinality({Opener, Listener}) <= 2
    BY <1>1
  <2> QED BY <2>1, <2>2, <2>3, <2>4, RemoteTasks
<1> QED BY <1>2, RemoteTasks, RemoteBounds DEF Tasks, Senders

(* Steps of one task. *)
Moved(t, at, back, over) ==
    /\ \A u \in Tasks \ {t} : task'[u] = task[u]
    /\ task'[t].at = at /\ task'[t].back = back /\ task'[t].over = over

(* A task that goes to another stage keeps where it returns to and its session. *)
LEMMA ToMoves ==
    ASSUME TasksTyped, NEW t \in Tasks, NEW a \in Stages, To(t, a)
    PROVE  TasksTyped' /\ Moved(t, a, task[t].back, task[t].over)
BY DEF TasksTyped, TaskState, To, Moved

(* A task on a detour notes where to return to.                              *)
LEMMA ToForMoves ==
    ASSUME TasksTyped, NEW t \in Tasks, NEW a \in Stages, NEW b \in Stages, ToFor(t, a, b)
    PROVE  TasksTyped' /\ Moved(t, a, b, task[t].over)
BY DEF TasksTyped, TaskState, ToFor, Moved

(* A task that ends with an outcome is at its next stage.                    *)
LEMMA EndsMoves ==
    ASSUME TasksTyped, NEW t \in Tasks, NEW a \in Stages, NEW o \in Outcomes, Ends(t, a, o)
    PROVE  TasksTyped' /\ Moved(t, a, task[t].back, task[t].over)
BY DEF TasksTyped, TaskState, Ends, Moved

(* A task that enters the gate is over a session from there on.              *)
LEMMA EntersMoves ==
    ASSUME TasksTyped, NEW t \in Tasks, NEW a \in Stages, NEW v \in 0 .. MaxSessions, 
           task' = [task EXCEPT ![t].at = a, ![t].over = v]
    PROVE  TasksTyped' /\ Moved(t, a, task[t].back, v)
BY DEF TasksTyped, TaskState, Moved

(* A task that sweeps notes the requests it found.                           *)
LEMMA SweepsMoves ==
    ASSUME TasksTyped, NEW t \in Tasks, NEW a \in Stages, NEW x \in SUBSET Requests, 
           task' = [task EXCEPT ![t].at = a, ![t].swept = x]
    PROVE  TasksTyped' /\ Moved(t, a, task[t].back, task[t].over)
BY DEF TasksTyped, TaskState, Moved

(* What the waits that end look like to everybody else. *)
Wakes(t, at, back, over) ==
    /\ \A u \in Tasks \ {t} : /\ task'[u].back = task[u].back /\ task'[u].over = task[u].over
                              /\ \/ task'[u].at = task[u].at
                                 \/ task[u].at = "waiting" /\ task'[u].at = "ready"
    /\ task'[t].at = at /\ task'[t].back = back /\ task'[t].over = over

(* The waits that a new session ends are at "ready", and nothing else of any task changes. *)
LEMMA WokenTyped ==
    ASSUME TasksTyped
    PROVE  /\ Woken(task) \in [Tasks -> TaskState]
           /\ \A u \in Tasks : /\ Woken(task)[u].back = task[u].back /\ Woken(task)[u].over = task[u].over
                              /\ Woken(task)[u].outcome = task[u].outcome
                              /\ \/ Woken(task)[u].at = task[u].at
                                 \/ task[u].at = "waiting" /\ Woken(task)[u].at = "ready"
<1>1. "ready" \in Stages
  BY DEF Stages
<1>2. \A u \in Tasks : task[u] \in TaskState
  BY DEF TasksTyped
<1>3. \A s \in TaskState : [s EXCEPT !.at = "ready"] \in TaskState
  BY <1>1 DEF TaskState
<1>4. \A s \in TaskState : LET r == [s EXCEPT !.at = "ready"]
                            IN  r.at = "ready" /\ r.back = s.back /\ r.over = s.over /\ r.outcome = s.outcome
  BY DEF TaskState
<1> QED BY <1>2, <1>3, <1>4 DEF Woken

(* ready().await.                                                            *)
LEMMA WaitReadyKeeps ==
  ASSUME RemoteInv, NEW t \in Tasks, WaitReady(t)
  PROVE  RemoteInv'
<1> USE TasksDiffer DEF RemoteInv, WaitReady, At, sessionState, books, others
<1>1. TasksTyped' /\ \/ Moved(t, "current", task[t].back, task[t].over)
                     \/ Moved(t, "lock", "ready", task[t].over)
                     \/ Moved(t, "noticing", task[t].back, task[t].over)
  <2>1. session \in 0 .. MaxSessions /\ pending \subseteq Requests
    BY DEF ValuesTyped
  <2> QED BY <2>1, ToForMoves, ToMoves DEF Stages, Outcomes
<1>2. ValuesTyped'
  BY DEF ValuesTyped
<1>3. GateInv'
  BY <1>1 DEF ValuesTyped, GateInv, LockInv, Moved
<1>4. LockInv'
  BY <1>1 DEF ValuesTyped, GateInv, LockInv, Moved
<1>5. PostsInv'
  BY <1>1 DEF ValuesTyped, PostsInv, Early, Unsent, Detours, Moved
<1>6. OpenerInv' /\ BacksInv'
  BY <1>1 DEF OpenerInv, BacksInv, Moved
<1> QED BY <1>1, <1>2, <1>3, <1>4, <1>5, <1>6

(* The second look of a waiting task.                                        *)
LEMMA NoticeReadyKeeps ==
  ASSUME RemoteInv, NEW t \in Tasks, NoticeReady(t)
  PROVE  RemoteInv'
<1> USE TasksDiffer DEF RemoteInv, NoticeReady, At, sessionState, books, others
<1>1. TasksTyped' /\ \/ Moved(t, "current", task[t].back, task[t].over)
                     \/ Moved(t, "waiting", task[t].back, task[t].over)
  <2>1. session \in 0 .. MaxSessions /\ pending \subseteq Requests
    BY DEF ValuesTyped
  <2> QED BY <2>1, ToMoves DEF Stages, Outcomes
<1>2. ValuesTyped'
  BY DEF ValuesTyped
<1>3. GateInv'
  BY <1>1 DEF ValuesTyped, GateInv, LockInv, Moved
<1>4. LockInv'
  BY <1>1 DEF ValuesTyped, GateInv, LockInv, Moved
<1>5. PostsInv'
  BY <1>1 DEF ValuesTyped, PostsInv, Early, Unsent, Detours, Moved
<1>6. OpenerInv' /\ BacksInv'
  BY <1>1 DEF OpenerInv, BacksInv, Moved
<1> QED BY <1>1, <1>2, <1>3, <1>4, <1>5, <1>6

(* A stale session is recovered before anything is sent in it.               *)
LEMMA EnsureCurrentKeeps ==
  ASSUME RemoteInv, NEW t \in Tasks, EnsureCurrent(t)
  PROVE  RemoteInv'
<1> USE TasksDiffer DEF RemoteInv, EnsureCurrent, At, sessionState, books, others
<1>1. TasksTyped' /\ \/ Moved(t, "lock", "current", task[t].over)
  <2>1. session \in 0 .. MaxSessions /\ pending \subseteq Requests
    BY DEF ValuesTyped
  <2> QED BY <2>1, ToForMoves DEF Stages, Outcomes
<1>2. ValuesTyped'
  BY DEF ValuesTyped
<1>3. GateInv'
  BY <1>1 DEF ValuesTyped, GateInv, LockInv, Moved
<1>4. LockInv'
  BY <1>1 DEF ValuesTyped, GateInv, LockInv, Moved
<1>5. PostsInv'
  BY <1>1 DEF ValuesTyped, PostsInv, Early, Unsent, Detours, Moved
<1>6. OpenerInv' /\ BacksInv'
  BY <1>1 DEF OpenerInv, BacksInv, Moved
<1> QED BY <1>1, <1>2, <1>3, <1>4, <1>5, <1>6

(* The server takes a POST.                                                  *)
LEMMA PostAcceptedKeeps ==
  ASSUME RemoteInv, NEW t \in Tasks, PostAccepted(t)
  PROVE  RemoteInv'
<1> USE TasksDiffer DEF RemoteInv, PostAccepted, At, Leave, Known, sessionState, books, others
<1>1. TasksTyped' /\ \/ Moved(t, "reading", task[t].back, task[t].over)
                     \/ Moved(t, "done", task[t].back, task[t].over)
  <2>1. session \in 0 .. MaxSessions /\ pending \subseteq Requests
    BY DEF ValuesTyped
  <2> QED BY <2>1, ToMoves DEF Stages, Outcomes
<1>2. ValuesTyped'
  BY DEF ValuesTyped
<1>3. GateInv'
  BY <1>1 DEF ValuesTyped, GateInv, LockInv, Moved
<1>4. LockInv'
  BY <1>1 DEF ValuesTyped, GateInv, LockInv, Moved
<1>5. PostsInv'
  BY <1>1 DEF ValuesTyped, PostsInv, Early, Unsent, Detours, Moved
<1>6. OpenerInv' /\ BacksInv'
  BY <1>1 DEF OpenerInv, BacksInv, Moved
<1> QED BY <1>1, <1>2, <1>3, <1>4, <1>5, <1>6

(* A POST answered 404 leaves the gate for the recovery.                     *)
LEMMA PostRefusedKeeps ==
  ASSUME RemoteInv, NEW t \in Tasks, PostRefused(t)
  PROVE  RemoteInv'
<1> USE TasksDiffer DEF RemoteInv, PostRefused, At, MarkExpired, Leave, Known, books, others
<1>1. TasksTyped' /\ \/ Moved(t, "sweep", "concluding", task[t].over)
  <2>1. session \in 0 .. MaxSessions /\ pending \subseteq Requests
    BY DEF ValuesTyped
  <2> QED BY <2>1, ToForMoves DEF Stages, Outcomes
<1>2. ValuesTyped'
  BY DEF ValuesTyped
<1>3. GateInv'
  BY <1>1 DEF ValuesTyped, GateInv, LockInv, Moved
<1>4. LockInv'
  BY <1>1 DEF ValuesTyped, GateInv, LockInv, Moved
<1>5. PostsInv'
  BY <1>1 DEF ValuesTyped, PostsInv, Early, Unsent, Detours, Moved
<1>6. OpenerInv' /\ BacksInv'
  BY <1>1 DEF OpenerInv, BacksInv, Moved
<1> QED BY <1>1, <1>2, <1>3, <1>4, <1>5, <1>6

(* A POST that fails ends its task.                                          *)
LEMMA PostFailsKeeps ==
  ASSUME RemoteInv, NEW t \in Tasks, PostFails(t)
  PROVE  RemoteInv'
<1> USE TasksDiffer DEF RemoteInv, PostFails, At, Fault, Leave, sessionState, books, others
<1>1. TasksTyped' /\ \/ Moved(t, "concluding", task[t].back, task[t].over)
                     \/ Moved(t, "done", task[t].back, task[t].over)
  <2>1. session \in 0 .. MaxSessions /\ pending \subseteq Requests
    BY DEF ValuesTyped
  <2> QED BY <2>1, EndsMoves, ToMoves DEF Stages, Outcomes
<1>2. ValuesTyped'
  BY DEF ValuesTyped
<1>3. GateInv'
  BY <1>1 DEF ValuesTyped, GateInv, LockInv, Moved
<1>4. LockInv'
  BY <1>1 DEF ValuesTyped, GateInv, LockInv, Moved
<1>5. PostsInv'
  BY <1>1 DEF ValuesTyped, PostsInv, Early, Unsent, Detours, Moved
<1>6. OpenerInv' /\ BacksInv'
  BY <1>1 DEF OpenerInv, BacksInv, Moved
<1> QED BY <1>1, <1>2, <1>3, <1>4, <1>5, <1>6

(* A stream answered 404 sends its task to recover the session.              *)
LEMMA StreamRefusedKeeps ==
  ASSUME RemoteInv, NEW t \in Tasks, StreamRefused(t)
  PROVE  RemoteInv'
<1> USE TasksDiffer DEF RemoteInv, StreamRefused, At, MarkExpired, books, others
<1>1. TasksTyped' /\ \/ Moved(t, "sweep", "listen", task[t].over)
                     \/ Moved(t, "sweep", "concluding", task[t].over)
  <2>1. session \in 0 .. MaxSessions /\ pending \subseteq Requests
    BY DEF ValuesTyped
  <2> QED BY <2>1, ToForMoves DEF Stages, Outcomes
<1>2. ValuesTyped'
  BY DEF ValuesTyped
<1>3. GateInv'
  BY <1>1 DEF ValuesTyped, GateInv, LockInv, Moved
<1>4. LockInv'
  BY <1>1 DEF ValuesTyped, GateInv, LockInv, Moved
<1>5. PostsInv'
  BY <1>1 DEF ValuesTyped, PostsInv, Early, Unsent, Detours, Moved
<1>6. OpenerInv' /\ BacksInv'
  BY <1>1 DEF OpenerInv, BacksInv, Moved
<1> QED BY <1>1, <1>2, <1>3, <1>4, <1>5, <1>6

(* The requests in flight are failed before the session is replaced.         *)
LEMMA SweepKeeps ==
  ASSUME RemoteInv, NEW t \in Tasks, Sweep(t)
  PROVE  RemoteInv'
<1> USE TasksDiffer DEF RemoteInv, Sweep, At, sessionState, others
<1>1. TasksTyped' /\ \/ Moved(t, "extend", task[t].back, task[t].over)
  <2>1. session \in 0 .. MaxSessions /\ pending \subseteq Requests
    BY DEF ValuesTyped
  <2> QED BY <2>1, SweepsMoves DEF Stages, Outcomes
<1>2. ValuesTyped'
  BY DEF ValuesTyped
<1>3. GateInv'
  <2>1. UNCHANGED <<gate, session, expired, reinit>> /\ t \notin gate.readers
    BY DEF GateInv
  <2>2. \A u \in gate.readers : task'[u] = task[u]
    BY <1>1, <2>1 DEF ValuesTyped, Moved
  <2> HIDE DEF Sweep, Extend
  <2> QED BY <2>1, <2>2 DEF GateInv
<1>4. LockInv'
  BY <1>1 DEF ValuesTyped, GateInv, LockInv, Moved
<1>5. PostsInv'
  BY <1>1 DEF ValuesTyped, PostsInv, Early, Unsent, Detours, Moved
<1>6. OpenerInv' /\ BacksInv'
  BY <1>1 DEF OpenerInv, BacksInv, Moved
<1> QED BY <1>1, <1>2, <1>3, <1>4, <1>5, <1>6

(* The requests swept get their errors.                                      *)
LEMMA ExtendKeeps ==
  ASSUME RemoteInv, NEW t \in Tasks, Extend(t)
  PROVE  RemoteInv'
<1> USE TasksDiffer DEF RemoteInv, Extend, At, sessionState, others
<1>1. TasksTyped' /\ \/ Moved(t, "lock", task[t].back, task[t].over)
  <2>1. session \in 0 .. MaxSessions /\ pending \subseteq Requests
    BY DEF ValuesTyped
  <2>2. "lock" \in Stages /\ {} \in SUBSET Requests /\ task' = [task EXCEPT ![t].at = "lock", ![t].swept = {}]
    BY DEF Stages
  <2> HIDE DEF Extend
  <2> QED BY <2>2, SweepsMoves

<1>2. ValuesTyped'
  <2>1. task[t].swept \subseteq Requests
    BY DEF TasksTyped, TaskState
  <2> QED BY <2>1 DEF ValuesTyped
<1>3. GateInv'
  <2>1. UNCHANGED <<gate, session, expired, reinit>> /\ t \notin gate.readers
    BY DEF GateInv
  <2>2. \A u \in gate.readers : task'[u] = task[u]
    BY <1>1, <2>1 DEF ValuesTyped, Moved
  <2> HIDE DEF Sweep, Extend
  <2> QED BY <2>1, <2>2 DEF GateInv
<1>4. LockInv'
  BY <1>1 DEF ValuesTyped, GateInv, LockInv, Moved
<1>5. PostsInv'
  BY <1>1 DEF ValuesTyped, PostsInv, Early, Unsent, Detours, Moved
<1>6. OpenerInv' /\ BacksInv'
  BY <1>1 DEF OpenerInv, BacksInv, Moved
<1> QED BY <1>1, <1>2, <1>3, <1>4, <1>5, <1>6

(* The writer waits for the readers to leave and has the gate to itself.     *)
LEMMA CloseGateKeeps ==
  ASSUME RemoteInv, NEW t \in Tasks, CloseGate(t)
  PROVE  RemoteInv'
<1> USE TasksDiffer DEF RemoteInv, CloseGate, At, sessionState, books, others
<1>1. TasksTyped' /\ \/ Moved(t, "posting", task[t].back, task[t].over)
  <2>1. session \in 0 .. MaxSessions /\ pending \subseteq Requests
    BY DEF ValuesTyped
  <2> QED BY <2>1, ToMoves DEF Stages, Outcomes
<1>2. ValuesTyped'
  BY DEF ValuesTyped
<1>3. GateInv'
  BY <1>1 DEF ValuesTyped, GateInv, LockInv, Moved
<1>4. LockInv'
  BY <1>1 DEF ValuesTyped, GateInv, LockInv, Moved
<1>5. PostsInv'
  BY <1>1 DEF ValuesTyped, PostsInv, Early, Unsent, Detours, Moved
<1>6. OpenerInv' /\ BacksInv'
  BY <1>1 DEF OpenerInv, BacksInv, Moved
<1> QED BY <1>1, <1>2, <1>3, <1>4, <1>5, <1>6

(* POST initialize: a new session, from a server that no reader speaks to.   *)
LEMMA ReinitializeKeeps ==
  ASSUME RemoteInv, NEW t \in Tasks, Reinitialize(t)
  PROVE  RemoteInv'
<1> USE TasksDiffer DEF RemoteInv, Reinitialize, At, books, others
<1>1. TasksTyped' /\ \/ Moved(t, "opening", task[t].back, task[t].over)
  <2>1. session \in 0 .. MaxSessions /\ pending \subseteq Requests
    BY DEF ValuesTyped
  <2> QED BY <2>1, ToMoves DEF Stages, Outcomes
<1>2. ValuesTyped'
  <2>1. session + 1 \in 1 .. MaxSessions /\ session + 1 \in 0 .. MaxSessions
    BY DEF ValuesTyped
  <2> QED BY <2>1 DEF ValuesTyped
<1>3. GateInv'
  BY <1>1 DEF ValuesTyped, GateInv, LockInv, Moved
<1>4. LockInv'
  BY <1>1 DEF ValuesTyped, GateInv, LockInv, Moved
<1>5. PostsInv'
  BY <1>1 DEF ValuesTyped, PostsInv, Early, Unsent, Detours, Moved
<1>6. OpenerInv' /\ BacksInv'
  BY <1>1 DEF OpenerInv, BacksInv, Moved
<1> QED BY <1>1, <1>2, <1>3, <1>4, <1>5, <1>6

(* A caller sends a request.                                                 *)
LEMMA SendRequestKeeps ==
  ASSUME RemoteInv, NEW r \in Requests, SendRequest(r)
  PROVE  RemoteInv'
<1> USE TasksDiffer DEF RemoteInv, SendRequest, At, sessionState, others
<1>1. TasksTyped' /\ \/ Moved(r, "ready", task[r].back, task[r].over)
  <2>1. session \in 0 .. MaxSessions /\ pending \subseteq Requests
    BY DEF ValuesTyped
  <2> QED BY <2>1, ToMoves DEF Stages, Outcomes
<1>2. ValuesTyped'
  BY DEF ValuesTyped
<1>3. GateInv'
  BY <1>1 DEF ValuesTyped, GateInv, LockInv, Moved
<1>4. LockInv'
  BY <1>1 DEF ValuesTyped, GateInv, LockInv, Moved
<1>5. PostsInv'
  BY <1>1 DEF ValuesTyped, PostsInv, Early, Unsent, Detours, Moved
<1>6. OpenerInv' /\ BacksInv'
  BY <1>1 DEF OpenerInv, BacksInv, Moved
<1> QED BY <1>1, <1>2, <1>3, <1>4, <1>5, <1>6

(* An answer read from the stream.                                           *)
LEMMA RespondKeeps ==
  ASSUME RemoteInv, NEW r \in Requests, Respond(r)
  PROVE  RemoteInv'
<1> USE TasksDiffer DEF RemoteInv, Respond, At, sessionState, books
<1>1. TasksTyped' /\ \/ Moved(r, "concluding", task[r].back, task[r].over)
  <2>1. session \in 0 .. MaxSessions /\ pending \subseteq Requests
    BY DEF ValuesTyped
  <2> QED BY <2>1, EndsMoves DEF Stages, Outcomes
<1>2. ValuesTyped'
  BY DEF ValuesTyped
<1>3. GateInv'
  BY <1>1 DEF ValuesTyped, GateInv, LockInv, Moved
<1>4. LockInv'
  BY <1>1 DEF ValuesTyped, GateInv, LockInv, Moved
<1>5. PostsInv'
  BY <1>1 DEF ValuesTyped, PostsInv, Early, Unsent, Detours, Moved
<1>6. OpenerInv' /\ BacksInv'
  BY <1>1 DEF OpenerInv, BacksInv, Moved
<1> QED BY <1>1, <1>2, <1>3, <1>4, <1>5, <1>6

(* A stream that breaks before its answer.                                   *)
LEMMA StreamBreaksKeeps ==
  ASSUME RemoteInv, NEW r \in Requests, StreamBreaks(r)
  PROVE  RemoteInv'
<1> USE TasksDiffer DEF RemoteInv, StreamBreaks, At, Fault, sessionState, books, others
<1>1. TasksTyped' /\ \/ Moved(r, "resuming", task[r].back, task[r].over)
                     \/ Moved(r, "concluding", task[r].back, task[r].over)
  <2>1. session \in 0 .. MaxSessions /\ pending \subseteq Requests
    BY DEF ValuesTyped
  <2> QED BY <2>1, EndsMoves, ToMoves DEF Stages, Outcomes
<1>2. ValuesTyped'
  BY DEF ValuesTyped
<1>3. GateInv'
  BY <1>1 DEF ValuesTyped, GateInv, LockInv, Moved
<1>4. LockInv'
  BY <1>1 DEF ValuesTyped, GateInv, LockInv, Moved
<1>5. PostsInv'
  BY <1>1 DEF ValuesTyped, PostsInv, Early, Unsent, Detours, Moved
<1>6. OpenerInv' /\ BacksInv'
  BY <1>1 DEF OpenerInv, BacksInv, Moved
<1> QED BY <1>1, <1>2, <1>3, <1>4, <1>5, <1>6

(* A resumed stream is opened in the session of the moment.                  *)
LEMMA ResumeKeeps ==
  ASSUME RemoteInv, NEW r \in Requests, Resume(r)
  PROVE  RemoteInv'
<1> USE TasksDiffer DEF RemoteInv, Resume, At, MayRead, Enter, sessionState, books, others
<1>1. TasksTyped' /\ \/ Moved(r, "lock", "resuming", task[r].over)
                     \/ Moved(r, "resumed", task[r].back, session)
  <2>1. session \in 0 .. MaxSessions /\ pending \subseteq Requests
    BY DEF ValuesTyped
  <2> QED BY <2>1, EntersMoves, ToForMoves DEF Stages, Outcomes
<1>2. ValuesTyped'
  BY DEF ValuesTyped
<1>3. GateInv'
  <2>1. task[r].at \notin {"posted", "resumed", "cancelPosted", "getting", "lock", "write"} /\ r \in Tasks
    OBVIOUS
  <2>2. r \notin gate.readers
    BY <2>1 DEF GateInv
  <2>3. UNCHANGED <<session, expired, reinit>>
    OBVIOUS
  <2>4. CASE UNCHANGED gate
    <3>1. \A u \in gate.readers : task'[u] = task[u]
      BY <1>1, <2>2 DEF ValuesTyped, Moved
    <3> QED BY <2>3, <2>4, <3>1 DEF GateInv
  <2>5. CASE /\ gate' = [gate EXCEPT !.readers = @ \cup {r}] /\ gate.writer = NoTask
             /\ task'[r].over = session
             /\ task'[r].at \in {"posted", "resumed", "cancelPosted", "getting"}
    <3>1. gate'.writer = NoTask /\ gate'.readers = gate.readers \cup {r}
      BY <2>5 DEF ValuesTyped
    <3>2. \A u \in gate.readers : task'[u] = task[u]
      BY <1>1, <2>2 DEF ValuesTyped, Moved
    <3> QED BY <2>3, <2>5, <3>1, <3>2 DEF GateInv
  <2>6. \/ UNCHANGED gate
        \/ /\ gate' = [gate EXCEPT !.readers = @ \cup {r}] /\ gate.writer = NoTask
           /\ task'[r].over = session /\ task'[r].at \in {"posted", "resumed", "cancelPosted", "getting"}
    BY DEF TasksTyped, TaskState
  <2> QED BY <2>4, <2>5, <2>6
<1>4. LockInv'
  BY <1>1 DEF ValuesTyped, GateInv, LockInv, Moved
<1>5. PostsInv'
  BY <1>1 DEF ValuesTyped, PostsInv, Early, Unsent, Detours, Moved
<1>6. OpenerInv' /\ BacksInv'
  BY <1>1 DEF OpenerInv, BacksInv, Moved
<1> QED BY <1>1, <1>2, <1>3, <1>4, <1>5, <1>6

(* The server takes the resumption, or the session is gone.                  *)
LEMMA ResumeAnsweredKeeps ==
  ASSUME RemoteInv, NEW r \in Requests, ResumeAnswered(r)
  PROVE  RemoteInv'
<1> USE TasksDiffer DEF RemoteInv, ResumeAnswered, At, Leave, Known, sessionState, books, others
<1>1. TasksTyped' /\ \/ Moved(r, "reading", task[r].back, task[r].over)
                     \/ Moved(r, "refused", task[r].back, task[r].over)
  <2>1. session \in 0 .. MaxSessions /\ pending \subseteq Requests
    BY DEF ValuesTyped
  <2> QED BY <2>1, ToMoves DEF Stages, Outcomes
<1>2. ValuesTyped'
  BY DEF ValuesTyped
<1>3. GateInv'
  BY <1>1 DEF ValuesTyped, GateInv, LockInv, Moved
<1>4. LockInv'
  BY <1>1 DEF ValuesTyped, GateInv, LockInv, Moved
<1>5. PostsInv'
  BY <1>1 DEF ValuesTyped, PostsInv, Early, Unsent, Detours, Moved
<1>6. OpenerInv' /\ BacksInv'
  BY <1>1 DEF OpenerInv, BacksInv, Moved
<1> QED BY <1>1, <1>2, <1>3, <1>4, <1>5, <1>6

(* A resumption that fails.                                                  *)
LEMMA ResumeFailsKeeps ==
  ASSUME RemoteInv, NEW r \in Requests, ResumeFails(r)
  PROVE  RemoteInv'
<1> USE TasksDiffer DEF RemoteInv, ResumeFails, At, Fault, Leave, sessionState, books, others
<1>1. TasksTyped' /\ \/ Moved(r, "resuming", task[r].back, task[r].over)
  <2>1. session \in 0 .. MaxSessions /\ pending \subseteq Requests
    BY DEF ValuesTyped
  <2> QED BY <2>1, ToMoves DEF Stages, Outcomes
<1>2. ValuesTyped'
  BY DEF ValuesTyped
<1>3. GateInv'
  BY <1>1 DEF ValuesTyped, GateInv, LockInv, Moved
<1>4. LockInv'
  BY <1>1 DEF ValuesTyped, GateInv, LockInv, Moved
<1>5. PostsInv'
  BY <1>1 DEF ValuesTyped, PostsInv, Early, Unsent, Detours, Moved
<1>6. OpenerInv' /\ BacksInv'
  BY <1>1 DEF OpenerInv, BacksInv, Moved
<1> QED BY <1>1, <1>2, <1>3, <1>4, <1>5, <1>6

(* A request whose time is up.                                               *)
LEMMA TooLateKeeps ==
  ASSUME RemoteInv, NEW r \in Requests, TooLate(r)
  PROVE  RemoteInv'
<1> USE TasksDiffer DEF RemoteInv, TooLate, Fault, LetGo, books, others, Waits
<1>1. TasksTyped' /\ \/ Moved(r, "cancelling", task[r].back, task[r].over)
  <2>1. session \in 0 .. MaxSessions /\ pending \subseteq Requests
    BY DEF ValuesTyped
  <2> QED BY <2>1, EndsMoves DEF Stages, Outcomes
<1>2. ValuesTyped'
  BY DEF ValuesTyped
<1>3. GateInv'
  BY <1>1 DEF ValuesTyped, GateInv, LockInv, Moved
<1>4. LockInv'
  BY <1>1 DEF ValuesTyped, GateInv, LockInv, Moved
<1>5. PostsInv'
  BY <1>1 DEF ValuesTyped, PostsInv, Early, Unsent, Detours, Moved
<1>6. OpenerInv' /\ BacksInv'
  BY <1>1 DEF OpenerInv, BacksInv, Moved
<1> QED BY <1>1, <1>2, <1>3, <1>4, <1>5, <1>6

(* A request that is cancelled ends its wait.                                *)
LEMMA CancelledKeeps ==
  ASSUME RemoteInv, NEW r \in Requests, Cancelled(r)
  PROVE  RemoteInv'
<1> USE TasksDiffer DEF RemoteInv, Cancelled, LetGo, books, others, Waits, Recovers
<1>1. TasksTyped' /\ \/ Moved(r, "cancelling", task[r].back, task[r].over)
  <2>1. session \in 0 .. MaxSessions /\ pending \subseteq Requests
    BY DEF ValuesTyped
  <2> QED BY <2>1, EndsMoves DEF Stages, Outcomes
<1>2. ValuesTyped'
  BY DEF ValuesTyped
<1>3. GateInv'
  BY <1>1 DEF ValuesTyped, GateInv, LockInv, Moved
<1>4. LockInv'
  BY <1>1 DEF ValuesTyped, GateInv, LockInv, Moved
<1>5. PostsInv'
  BY <1>1 DEF ValuesTyped, PostsInv, Early, Unsent, Detours, Moved
<1>6. OpenerInv' /\ BacksInv'
  BY <1>1 DEF OpenerInv, BacksInv, Moved
<1> QED BY <1>1, <1>2, <1>3, <1>4, <1>5, <1>6

(* Whether the server is to hear of a cancellation.                          *)
LEMMA CancelUpstreamKeeps ==
  ASSUME RemoteInv, NEW r \in Requests, CancelUpstream(r)
  PROVE  RemoteInv'
<1> USE TasksDiffer DEF RemoteInv, CancelUpstream, At, sessionState, others
<1>1. TasksTyped' /\ \/ Moved(r, "concluding", task[r].back, task[r].over)
                     \/ Moved(r, "cancelGate", task[r].back, task[r].over)
  <2>1. session \in 0 .. MaxSessions /\ pending \subseteq Requests
    BY DEF ValuesTyped
  <2> QED BY <2>1, ToMoves DEF Stages, Outcomes
<1>2. ValuesTyped'
  BY DEF ValuesTyped
<1>3. GateInv'
  BY <1>1 DEF ValuesTyped, GateInv, LockInv, Moved
<1>4. LockInv'
  BY <1>1 DEF ValuesTyped, GateInv, LockInv, Moved
<1>5. PostsInv'
  BY <1>1 DEF ValuesTyped, PostsInv, Early, Unsent, Detours, Moved
<1>6. OpenerInv' /\ BacksInv'
  BY <1>1 DEF OpenerInv, BacksInv, Moved
<1> QED BY <1>1, <1>2, <1>3, <1>4, <1>5, <1>6

(* notifications/cancelled is posted in the session of the moment.           *)
LEMMA PostCancelKeeps ==
  ASSUME RemoteInv, NEW r \in Requests, PostCancel(r)
  PROVE  RemoteInv'
<1> USE TasksDiffer DEF RemoteInv, PostCancel, At, MayRead, Enter, sessionState, books, others
<1>1. TasksTyped' /\ \/ Moved(r, "concluding", task[r].back, task[r].over)
                     \/ Moved(r, "cancelPosted", task[r].back, session)
  <2>1. session \in 0 .. MaxSessions /\ pending \subseteq Requests
    BY DEF ValuesTyped
  <2> QED BY <2>1, EntersMoves, ToMoves DEF Stages, Outcomes
<1>2. ValuesTyped'
  BY DEF ValuesTyped
<1>3. GateInv'
  <2>1. task[r].at \notin {"posted", "resumed", "cancelPosted", "getting", "lock", "write"} /\ r \in Tasks
    OBVIOUS
  <2>2. r \notin gate.readers
    BY <2>1 DEF GateInv
  <2>3. UNCHANGED <<session, expired, reinit>>
    OBVIOUS
  <2>4. CASE UNCHANGED gate
    <3>1. \A u \in gate.readers : task'[u] = task[u]
      BY <1>1, <2>2 DEF ValuesTyped, Moved
    <3> QED BY <2>3, <2>4, <3>1 DEF GateInv
  <2>5. CASE /\ gate' = [gate EXCEPT !.readers = @ \cup {r}] /\ gate.writer = NoTask
             /\ task'[r].over = session
             /\ task'[r].at \in {"posted", "resumed", "cancelPosted", "getting"}
    <3>1. gate'.writer = NoTask /\ gate'.readers = gate.readers \cup {r}
      BY <2>5 DEF ValuesTyped
    <3>2. \A u \in gate.readers : task'[u] = task[u]
      BY <1>1, <2>2 DEF ValuesTyped, Moved
    <3> QED BY <2>3, <2>5, <3>1, <3>2 DEF GateInv
  <2>6. \/ UNCHANGED gate
        \/ /\ gate' = [gate EXCEPT !.readers = @ \cup {r}] /\ gate.writer = NoTask
           /\ task'[r].over = session /\ task'[r].at \in {"posted", "resumed", "cancelPosted", "getting"}
    BY DEF TasksTyped, TaskState
  <2> QED BY <2>4, <2>5, <2>6
<1>4. LockInv'
  BY <1>1 DEF ValuesTyped, GateInv, LockInv, Moved
<1>5. PostsInv'
  BY <1>1 DEF ValuesTyped, PostsInv, Early, Unsent, Detours, Moved
<1>6. OpenerInv' /\ BacksInv'
  BY <1>1 DEF OpenerInv, BacksInv, Moved
<1> QED BY <1>1, <1>2, <1>3, <1>4, <1>5, <1>6

(* The notification is taken or refused.                                     *)
LEMMA CancelAnsweredKeeps ==
  ASSUME RemoteInv, NEW r \in Requests, CancelAnswered(r)
  PROVE  RemoteInv'
<1> USE TasksDiffer DEF RemoteInv, CancelAnswered, At, MarkExpired, Leave, Known, books, others
<1>1. TasksTyped' /\ \/ Moved(r, "concluding", task[r].back, task[r].over)
                     \/ Moved(r, "sweep", "concluding", task[r].over)
  <2>1. session \in 0 .. MaxSessions /\ pending \subseteq Requests
    BY DEF ValuesTyped
  <2> QED BY <2>1, ToForMoves, ToMoves DEF Stages, Outcomes
<1>2. ValuesTyped'
  BY DEF ValuesTyped
<1>3. GateInv'
  BY <1>1 DEF ValuesTyped, GateInv, LockInv, Moved
<1>4. LockInv'
  BY <1>1 DEF ValuesTyped, GateInv, LockInv, Moved
<1>5. PostsInv'
  BY <1>1 DEF ValuesTyped, PostsInv, Early, Unsent, Detours, Moved
<1>6. OpenerInv' /\ BacksInv'
  BY <1>1 DEF OpenerInv, BacksInv, Moved
<1> QED BY <1>1, <1>2, <1>3, <1>4, <1>5, <1>6

(* The opening notification answered 404.                                    *)
LEMMA OpenRefusedKeeps ==
  ASSUME RemoteInv, OpenRefused
  PROVE  RemoteInv'
<1> USE TasksDiffer DEF RemoteInv, OpenRefused, At, MarkExpired, Known, books, others
<1>1. TasksTyped' /\ \/ Moved(Opener, "lock", "done", task[Opener].over)
  <2>1. session \in 0 .. MaxSessions /\ pending \subseteq Requests
    BY DEF ValuesTyped
  <2> QED BY <2>1, ToForMoves DEF Stages, Outcomes
<1>2. ValuesTyped'
  BY DEF ValuesTyped
<1>3. GateInv'
  BY <1>1 DEF ValuesTyped, GateInv, LockInv, Moved
<1>4. LockInv'
  BY <1>1 DEF ValuesTyped, GateInv, LockInv, Moved
<1>5. PostsInv'
  BY <1>1 DEF ValuesTyped, PostsInv, Early, Unsent, Detours, Moved
<1>6. OpenerInv' /\ BacksInv'
  BY <1>1 DEF OpenerInv, BacksInv, Moved
<1> QED BY <1>1, <1>2, <1>3, <1>4, <1>5, <1>6

(* The opener notes the session's id, outside the gate.                      *)
LEMMA NameSessionKeeps ==
  ASSUME RemoteInv, NameSession
  PROVE  RemoteInv'
<1> USE TasksDiffer DEF RemoteInv, NameSession, At, sessionState, books, others
<1>1. TasksTyped' /\ Moved(Opener, "named", task[Opener].back, session)
  <2>1. session \in 0 .. MaxSessions
    BY DEF ValuesTyped
  <2> QED BY <2>1, EntersMoves DEF Stages
<1>2. ValuesTyped'
  BY DEF ValuesTyped
<1>3. GateInv'
  <2>1. Opener \in Tasks /\ Opener \notin gate.readers
    BY DEF GateInv, Tasks
  <2>2. \A u \in gate.readers : task'[u] = task[u]
    BY <1>1, <2>1 DEF ValuesTyped, Moved
  <2>3. UNCHANGED <<gate, session, expired, reinit>>
    OBVIOUS
  <2> QED BY <2>2, <2>3 DEF GateInv
<1>4. LockInv'
  BY <1>1 DEF ValuesTyped, GateInv, LockInv, Moved
<1>5. PostsInv'
  BY <1>1 DEF ValuesTyped, PostsInv, Early, Unsent, Detours, Moved
<1>6. OpenerInv' /\ BacksInv'
  BY <1>1 DEF OpenerInv, BacksInv, Moved
<1> QED BY <1>1, <1>2, <1>3, <1>4, <1>5, <1>6

(* The opener enters the gate with the id it noted.                          *)
LEMMA PostInitializedKeeps ==
  ASSUME RemoteInv, PostInitialized
  PROVE  RemoteInv'
<1> USE TasksDiffer DEF RemoteInv, PostInitialized, At, MayRead, Enter, sessionState, books, others
<1>1. TasksTyped' /\ Moved(Opener, "posted", task[Opener].back, task[Opener].over)
  BY ToMoves DEF Stages
<1>2. ValuesTyped'
  BY DEF ValuesTyped
<1>3. GateInv'
  BY <1>1 DEF ValuesTyped, GateInv, LockInv, Moved
<1>4. LockInv'
  BY <1>1 DEF ValuesTyped, GateInv, LockInv, Moved
<1>5. PostsInv'
  BY <1>1 DEF ValuesTyped, PostsInv, Early, Unsent, Detours, Moved
<1>6. OpenerInv' /\ BacksInv'
  BY <1>1 DEF OpenerInv, BacksInv, Moved
<1> QED BY <1>1, <1>2, <1>3, <1>4, <1>5, <1>6

(* The opening notification fails.                                           *)
LEMMA OpenFailsKeeps ==
  ASSUME RemoteInv, OpenFails
  PROVE  RemoteInv'
<1> USE TasksDiffer DEF RemoteInv, OpenFails, At, Fault, Leave, sessionState, books
<1>1. TasksTyped' /\ \/ Moved(Opener, "done", task[Opener].back, task[Opener].over)
  <2>1. session \in 0 .. MaxSessions /\ pending \subseteq Requests
    BY DEF ValuesTyped
  <2> QED BY <2>1, ToMoves DEF Stages, Outcomes
<1>2. ValuesTyped'
  BY DEF ValuesTyped
<1>3. GateInv'
  BY <1>1 DEF ValuesTyped, GateInv, LockInv, Moved
<1>4. LockInv'
  BY <1>1 DEF ValuesTyped, GateInv, LockInv, Moved
<1>5. PostsInv'
  BY <1>1 DEF ValuesTyped, PostsInv, Early, Unsent, Detours, Moved
<1>6. OpenerInv' /\ BacksInv'
  BY <1>1 DEF OpenerInv, BacksInv, Moved
<1> QED BY <1>1, <1>2, <1>3, <1>4, <1>5, <1>6

(* The listener sees that the session was replaced.                          *)
LEMMA FollowGenerationKeeps ==
  ASSUME RemoteInv, FollowGeneration
  PROVE  RemoteInv'
<1> USE TasksDiffer DEF RemoteInv, FollowGeneration, Leave, books, others
<1>1. TasksTyped' /\ \/ Moved(Listener, "listen", task[Listener].back, task[Listener].over)
  <2>1. session \in 0 .. MaxSessions /\ pending \subseteq Requests
    BY DEF ValuesTyped
  <2> QED BY <2>1, ToMoves DEF Stages, Outcomes
<1>2. ValuesTyped'
  BY DEF ValuesTyped
<1>3. GateInv'
  BY <1>1 DEF ValuesTyped, GateInv, LockInv, Moved
<1>4. LockInv'
  BY <1>1 DEF ValuesTyped, GateInv, LockInv, Moved
<1>5. PostsInv'
  BY <1>1 DEF ValuesTyped, PostsInv, Early, Unsent, Detours, Moved
<1>6. OpenerInv' /\ BacksInv'
  BY <1>1 DEF OpenerInv, BacksInv, Moved
<1> QED BY <1>1, <1>2, <1>3, <1>4, <1>5, <1>6

(* The listener opens its stream in the session of the moment.               *)
LEMMA OpenStreamKeeps ==
  ASSUME RemoteInv, OpenStream
  PROVE  RemoteInv'
<1> USE TasksDiffer DEF RemoteInv, OpenStream, At, MayRead, Enter, sessionState, books, others
<1>1. TasksTyped' /\ \/ Moved(Listener, "sweep", "listen", task[Listener].over)
                     \/ Moved(Listener, "getting", task[Listener].back, session)
  <2>1. session \in 0 .. MaxSessions /\ pending \subseteq Requests
    BY DEF ValuesTyped
  <2> QED BY <2>1, EntersMoves, ToForMoves DEF Stages, Outcomes
<1>2. ValuesTyped'
  BY DEF ValuesTyped
<1>3. GateInv'
  <2>1. task[Listener].at \notin {"posted", "resumed", "cancelPosted", "getting", "lock", "write"} /\ Listener \in Tasks
    OBVIOUS
  <2>2. Listener \notin gate.readers
    BY <2>1 DEF GateInv
  <2>3. UNCHANGED <<session, expired, reinit>>
    OBVIOUS
  <2>4. CASE UNCHANGED gate
    <3>1. \A u \in gate.readers : task'[u] = task[u]
      BY <1>1, <2>2 DEF ValuesTyped, Moved
    <3> QED BY <2>3, <2>4, <3>1 DEF GateInv
  <2>5. CASE /\ gate' = [gate EXCEPT !.readers = @ \cup {Listener}] /\ gate.writer = NoTask
             /\ task'[Listener].over = session
             /\ task'[Listener].at \in {"posted", "resumed", "cancelPosted", "getting"}
    <3>1. gate'.writer = NoTask /\ gate'.readers = gate.readers \cup {Listener}
      BY <2>5 DEF ValuesTyped
    <3>2. \A u \in gate.readers : task'[u] = task[u]
      BY <1>1, <2>2 DEF ValuesTyped, Moved
    <3> QED BY <2>3, <2>5, <3>1, <3>2 DEF GateInv
  <2>6. \/ UNCHANGED gate
        \/ /\ gate' = [gate EXCEPT !.readers = @ \cup {Listener}] /\ gate.writer = NoTask
           /\ task'[Listener].over = session /\ task'[Listener].at \in {"posted", "resumed", "cancelPosted", "getting"}
    BY DEF TasksTyped, TaskState
  <2> QED BY <2>4, <2>5, <2>6
<1>4. LockInv'
  BY <1>1 DEF ValuesTyped, GateInv, LockInv, Moved
<1>5. PostsInv'
  BY <1>1 DEF ValuesTyped, PostsInv, Early, Unsent, Detours, Moved
<1>6. OpenerInv' /\ BacksInv'
  BY <1>1 DEF OpenerInv, BacksInv, Moved
<1> QED BY <1>1, <1>2, <1>3, <1>4, <1>5, <1>6

(* The stream of the listener is taken or refused.                           *)
LEMMA StreamAnsweredKeeps ==
  ASSUME RemoteInv, StreamAnswered
  PROVE  RemoteInv'
<1> USE TasksDiffer DEF RemoteInv, StreamAnswered, At, Leave, Known, sessionState, books, others
<1>1. TasksTyped' /\ \/ Moved(Listener, "streaming", task[Listener].back, task[Listener].over)
                     \/ Moved(Listener, "refused", task[Listener].back, task[Listener].over)
  <2>1. session \in 0 .. MaxSessions /\ pending \subseteq Requests
    BY DEF ValuesTyped
  <2> QED BY <2>1, ToMoves DEF Stages, Outcomes
<1>2. ValuesTyped'
  BY DEF ValuesTyped
<1>3. GateInv'
  BY <1>1 DEF ValuesTyped, GateInv, LockInv, Moved
<1>4. LockInv'
  BY <1>1 DEF ValuesTyped, GateInv, LockInv, Moved
<1>5. PostsInv'
  BY <1>1 DEF ValuesTyped, PostsInv, Early, Unsent, Detours, Moved
<1>6. OpenerInv' /\ BacksInv'
  BY <1>1 DEF OpenerInv, BacksInv, Moved
<1> QED BY <1>1, <1>2, <1>3, <1>4, <1>5, <1>6

(* The stream of the listener breaks.                                        *)
LEMMA StreamLostKeeps ==
  ASSUME RemoteInv, StreamLost
  PROVE  RemoteInv'
<1> USE TasksDiffer DEF RemoteInv, StreamLost, Fault, Leave, sessionState, books, others
<1>1. TasksTyped' /\ \/ Moved(Listener, "listen", task[Listener].back, task[Listener].over)
                     \/ Moved(Listener, "done", task[Listener].back, task[Listener].over)
  <2>1. session \in 0 .. MaxSessions /\ pending \subseteq Requests
    BY DEF ValuesTyped
  <2> QED BY <2>1, ToMoves DEF Stages, Outcomes
<1>2. ValuesTyped'
  BY DEF ValuesTyped
<1>3. GateInv'
  BY <1>1 DEF ValuesTyped, GateInv, LockInv, Moved
<1>4. LockInv'
  BY <1>1 DEF ValuesTyped, GateInv, LockInv, Moved
<1>5. PostsInv'
  BY <1>1 DEF ValuesTyped, PostsInv, Early, Unsent, Detours, Moved
<1>6. OpenerInv' /\ BacksInv'
  BY <1>1 DEF OpenerInv, BacksInv, Moved
<1> QED BY <1>1, <1>2, <1>3, <1>4, <1>5, <1>6

(* The server forgets the session: nobody here knows yet.                    *)
LEMMA ForgetKeeps ==
  ASSUME RemoteInv, Forget
  PROVE  RemoteInv'
BY TasksDiffer DEF RemoteInv, Forget, ValuesTyped, TasksTyped, GateInv, LockInv, PostsInv, Early,
   OpenerInv, BacksInv, books, others

(* A caller cancels; the notice of it may start.                             *)
LEMMA CancelRequestKeeps ==
  ASSUME RemoteInv, NEW r \in Requests, CancelRequest(r)
  PROVE  RemoteInv'
<1> USE TasksDiffer DEF RemoteInv, CancelRequest, Fault, sessionState
<1>1. TasksTyped' /\ \/ UNCHANGED task
                     \/ /\ At(Canceller, "idle")
                        /\ Moved(Canceller, "ready", task[Canceller].back, task[Canceller].over)
  <2>1. CASE UNCHANGED task
    BY <2>1 DEF TasksTyped
  <2>2. CASE At(Canceller, "idle") /\ To(Canceller, "ready")
    <3>1. "ready" \in Stages
      BY DEF Stages
    <3> QED BY <2>2, <3>1, ToMoves
  <2> QED BY <2>1, <2>2
<1>2. ValuesTyped'
  BY DEF ValuesTyped
<1>3. CASE UNCHANGED task
  BY <1>1, <1>2, <1>3 DEF GateInv, LockInv, PostsInv, Early, OpenerInv, BacksInv
<1>4. CASE At(Canceller, "idle") /\ Moved(Canceller, "ready", task[Canceller].back, task[Canceller].over)
  <2>1. GateInv' /\ LockInv'
    BY <1>4 DEF ValuesTyped, GateInv, LockInv, Moved, At
  <2>2. PostsInv' /\ OpenerInv' /\ BacksInv'
    BY <1>4 DEF PostsInv, Early, OpenerInv, BacksInv, Moved
  <2> QED BY <1>1, <1>2, <2>1, <2>2
<1> QED BY <1>1, <1>3, <1>4

(* A POST is made once per request, in the session of the moment, by a reader of the gate. *)
LEMMA PostKeeps ==
  ASSUME RemoteInv, NEW t \in Tasks, Post(t)
  PROVE  RemoteInv'
<1> USE TasksDiffer DEF RemoteInv
<1>1. TasksTyped' /\ Moved(t, "posted", task[t].back, session)
  <2>1. session \in 0 .. MaxSessions /\ "posted" \in Stages
    BY DEF ValuesTyped, Stages
  <2>4. \A s \in TaskState, v \in 0 .. MaxSessions :
          LET n == [s EXCEPT !.at = "posted", !.over = session, !.ran = v]
          IN  n \in TaskState /\ n.at = "posted" /\ n.back = s.back /\ n.over = session
    BY <2>1 DEF TaskState
  <2>2. CASE t \in Requests
    <3>1. task' = [task EXCEPT ![t] = [task[t] EXCEPT !.at = "posted", !.over = session, !.ran = session]]
      BY <2>2 DEF Post
    <3>2. session \in 0 .. MaxSessions
      BY <2>1
    <3> QED BY <2>4, <3>1, <3>2 DEF TasksTyped, Moved
  <2>3. CASE t \notin Requests
    <3>1. task' = [task EXCEPT ![t] = [task[t] EXCEPT !.at = "posted", !.over = session, !.ran = task[t].ran]]
      BY <2>3 DEF Post
    <3>2. task[t].ran \in 0 .. MaxSessions
      BY DEF TasksTyped, TaskState
    <3> QED BY <2>4, <3>1, <3>2 DEF TasksTyped, Moved
  <2> QED BY <2>2, <2>3
<1>2. ValuesTyped'
  BY DEF Post, Enter, ValuesTyped, sessionState, books
<1>3. GateInv'
  <2>1. gate.writer = NoTask /\ gate'.writer = NoTask /\ gate'.readers = gate.readers \cup {t}
    BY DEF Post, Enter, MayRead, ValuesTyped
  <2>2. t \notin gate.readers
    BY DEF Post, At, GateInv
  <2>3. \A u \in gate.readers : task'[u] = task[u]
    BY <1>1, <2>2 DEF ValuesTyped, Moved
  <2>4. UNCHANGED <<session, expired, reinit>>
    BY DEF Post, sessionState
  <2> QED BY <1>1, <2>1, <2>3, <2>4 DEF GateInv, Moved
<1>4. LockInv'
  BY <1>1 DEF Post, At, Enter, sessionState, ValuesTyped, GateInv, LockInv, Moved
<1>5. PostsInv'
  <2>1. task[t].at = "current"
    BY DEF Post, At
  <2>2. ASSUME NEW r \in Requests, r # t PROVE posts'[r] = posts[r] /\ task'[r] = task[r]
    BY <1>1, <2>2 DEF Post, ValuesTyped, Moved
  <2>3. t \in Requests => posts'[t] = 1
    BY <2>1 DEF Post, ValuesTyped, PostsInv, Early, Unsent
  <2>4. ~Early(t)'
    BY <1>1 DEF Early, Unsent, Detours, Moved
  <2> QED BY <2>2, <2>3, <2>4 DEF PostsInv, Early
<1>6. OpenerInv' /\ BacksInv'
  BY <1>1 DEF Post, At, OpenerInv, BacksInv, Moved
<1> QED BY <1>1, <1>2, <1>3, <1>4, <1>5, <1>6

(* A request is concluded and forgotten.                                     *)
LEMMA ConcludeKeeps ==
  ASSUME RemoteInv, NEW r \in Requests, Conclude(r)
  PROVE  RemoteInv'
<1> USE TasksDiffer DEF RemoteInv
<1>1. TasksTyped' /\ Moved(r, "done", "done", 0)
  BY DEF Conclude, TasksTyped, TaskState, Stages, Outcomes, Finished, Moved
<1>2. ValuesTyped'
  BY DEF Conclude, ValuesTyped, sessionState
<1>3. GateInv' /\ LockInv'
  BY <1>1 DEF Conclude, At, ValuesTyped, GateInv, LockInv, Moved, sessionState
<1>4. PostsInv'
  BY <1>1 DEF Conclude, ValuesTyped, PostsInv, Early, Unsent, Detours, Moved
<1>5. OpenerInv' /\ BacksInv'
  BY <1>1 DEF OpenerInv, BacksInv, Moved
<1> QED BY <1>1, <1>2, <1>3, <1>4, <1>5

(* The opening handshake is done: the waits end and the listener starts.     *)
LEMMA OpenSessionKeeps ==
  ASSUME RemoteInv, OpenSession
  PROVE  RemoteInv'
<1> USE TasksDiffer DEF RemoteInv
<1>1. TasksTyped'
  <2>1. "done" \in Stages /\ "listen" \in Stages
    BY DEF Stages
  <2>2. /\ Woken(task) \in [Tasks -> TaskState]
        /\ task' = [Woken(task) EXCEPT ![Opener].at = "done", ![Listener].at = "listen"]
    BY WokenTyped DEF OpenSession
  <2>3. \A s \in TaskState, a \in Stages : [s EXCEPT !.at = a] \in TaskState
    BY DEF TaskState
  <2>4. task' = [[Woken(task) EXCEPT ![Opener] = [Woken(task)[Opener] EXCEPT !.at = "done"]]
                   EXCEPT ![Listener] = [Woken(task)[Listener] EXCEPT !.at = "listen"]]
    BY <2>2
  <2>5. /\ [Woken(task)[Opener] EXCEPT !.at = "done"] \in TaskState
        /\ [Woken(task)[Listener] EXCEPT !.at = "listen"] \in TaskState
    BY <2>1, <2>2, <2>3
  <2> QED BY <2>2, <2>4, <2>5 DEF TasksTyped
<1>2. /\ \A u \in Tasks \ {Opener, Listener} :
           /\ task'[u].back = task[u].back /\ task'[u].over = task[u].over
           /\ task'[u].at = task[u].at \/ (task[u].at = "waiting" /\ task'[u].at = "ready")
      /\ task'[Opener].at = "done" /\ task'[Listener].at = "listen"
      /\ task'[Opener].back = task[Opener].back /\ task'[Listener].back = task[Listener].back
  <2>1. /\ Woken(task) \in [Tasks -> TaskState]
        /\ task' = [Woken(task) EXCEPT ![Opener].at = "done", ![Listener].at = "listen"]
    BY WokenTyped DEF OpenSession
  <2>2. /\ \A u \in Tasks \ {Opener, Listener} : task'[u] = Woken(task)[u]
        /\ task'[Opener].at = "done" /\ task'[Listener].at = "listen"
        /\ task'[Opener].back = Woken(task)[Opener].back /\ task'[Listener].back = Woken(task)[Listener].back
    BY <2>1 DEF TaskState
  <2> QED BY <2>2, WokenTyped
<1>3. ValuesTyped'
  BY DEF OpenSession, Leave, ValuesTyped, books, others
<1>4. Opener \in gate.readers => gate.writer = NoTask
  BY DEF GateInv, ValuesTyped
<1>5. GateInv'
  <2>1. gate'.writer = gate.writer /\ gate'.readers = gate.readers \ {Opener}
    BY DEF OpenSession, Leave, ValuesTyped
  <2>2. Listener \notin gate.readers
    BY DEF GateInv, OpenerInv, OpenSession, At
  <2>3. UNCHANGED <<session, expired, reinit>>
    BY DEF OpenSession
  <2>4. \A u \in gate'.readers : task'[u].over = task[u].over /\ task'[u].at = task[u].at
    BY <1>2, <2>1, <2>2 DEF GateInv, ValuesTyped
  <2> QED BY <2>1, <2>3, <2>4 DEF GateInv
<1>6. LockInv'
  <2>1. gate'.writer = gate.writer /\ reinit' = reinit
    BY DEF OpenSession, Leave, ValuesTyped
  <2>2. task[Opener].at = "posted" /\ task[Listener].at = "idle"
    BY DEF OpenSession, At, OpenerInv
  <2>3. \A u \in Tasks, h \in {"write", "posting", "opening"} : task'[u].at = h <=> task[u].at = h
    BY <1>2, <2>2
  <2> QED BY <2>1, <2>3 DEF LockInv, ValuesTyped
<1>7. PostsInv'
  <2>1. UNCHANGED posts
    BY DEF OpenSession, others
  <2>2. \A r \in Requests : Early(r)' => Early(r)
    BY <1>2 DEF Early, Unsent, Detours
  <2> QED BY <2>1, <2>2 DEF PostsInv
<1>8. OpenerInv' /\ BacksInv'
  BY <1>2 DEF OpenerInv, BacksInv
<1> QED BY <1>1, <1>3, <1>5, <1>6, <1>7, <1>8

(* The tasks after a recovery are tasks.                                     *)
LEMMA RecoveredTyped ==
  ASSUME NEW tasks \in [Tasks -> TaskState], NEW t \in Tasks
  PROVE  /\ Recovered(tasks, t) \in [Tasks -> TaskState]
         /\ \A u \in Tasks \ {t} : Recovered(tasks, t)[u] = tasks[u]
         /\ Recovered(tasks, t)[t].back = tasks[t].back /\ Recovered(tasks, t)[t].over = tasks[t].over
         /\ Recovered(tasks, t)[t].at \in {"done", tasks[t].back}
         /\ t # Canceller \/ tasks[t].back # "concluding" => Recovered(tasks, t)[t].at = tasks[t].back
<1>1. tasks[t] \in TaskState /\ "done" \in Stages /\ "expired" \in Outcomes
  BY DEF Stages, Outcomes
<1> QED BY <1>1 DEF Recovered, TaskState

(* The reinitialisation lock: one task at a time replaces a session, and the next finds it replaced. *)
LEMMA LockReinitKeeps ==
  ASSUME RemoteInv, NEW t \in Tasks, LockReinit(t)
  PROVE  RemoteInv'
<1> USE TasksDiffer DEF RemoteInv
<1>1. CASE expired
  <2>1. TasksTyped' /\ Moved(t, "write", task[t].back, task[t].over)
    BY <1>1, ToMoves DEF LockReinit, Stages
  <2>2. reinit = NoTask /\ reinit' = t /\ task[t].at = "lock" /\ UNCHANGED <<session, expired, gate, posts>>
    BY <1>1 DEF LockReinit, At, others
  <2>3. ValuesTyped'
    <3>1. /\ ready' = FALSE
          /\ UNCHANGED <<honoured, generation, tokens, pending, sweptAway, cancelSent, told, closed, faults>>
      BY <1>1 DEF LockReinit, books, others
    <3> QED BY <2>2, <3>1 DEF ValuesTyped
  <2>4. GateInv' /\ LockInv'
    BY <1>1, <2>1, <2>2 DEF ValuesTyped, GateInv, LockInv, Moved
  <2>5. PostsInv' /\ OpenerInv' /\ BacksInv'
    BY <2>1, <2>2 DEF PostsInv, Early, Unsent, Detours, OpenerInv, BacksInv, Moved
  <2> QED BY <2>1, <2>3, <2>4, <2>5
<1>2. CASE ~expired
  <2>1. UNCHANGED <<reinit, session, expired, gate, posts>> /\ task[t].at = "lock" /\ task' = Recovered(task, t)
    BY <1>2 DEF LockReinit, At, others
  <2>2. ValuesTyped'
    BY <1>2, <2>1 DEF LockReinit, ValuesTyped, books, others
  <2>3. /\ TasksTyped' /\ (\A u \in Tasks \ {t} : task'[u] = task[u])
        /\ task'[t].back = task[t].back /\ task'[t].over = task[t].over
        /\ task'[t].at \in {"done", task[t].back}
    BY <2>1, RecoveredTyped DEF TasksTyped
  <2>4. t \notin gate.readers
    BY <1>2, <2>1 DEF GateInv
  <2>5. task[t].back \notin {"write", "posting", "opening"}
    BY <2>1 DEF BacksInv
  <2>6. GateInv'
    <3>1. \A u \in gate.readers : task'[u] = task[u]
      BY <2>3, <2>4 DEF ValuesTyped
    <3> QED BY <2>1, <3>1 DEF GateInv
  <2>7. LockInv'
    <3>1. \A u \in Tasks, h \in {"write", "posting", "opening"} : task'[u].at = h <=> task[u].at = h
      BY <2>1, <2>3, <2>5
    <3> QED BY <2>1, <3>1 DEF LockInv, ValuesTyped
  <2>8. PostsInv'
    BY <2>1, <2>3 DEF PostsInv, Early, Unsent, Detours
  <2>9. OpenerInv'
    BY <2>1, <2>3 DEF OpenerInv
  <2>10. BacksInv'
    BY <2>3 DEF BacksInv
  <2> QED BY <2>2, <2>3, <2>6, <2>7, <2>8, <2>9, <2>10
<1> QED BY <1>1, <1>2

(* The recovery is complete: the gate opens again and the lock is let go.    *)
LEMMA ReopenKeeps ==
  ASSUME RemoteInv, NEW t \in Tasks, Reopen(t)
  PROVE  RemoteInv'
<1> USE TasksDiffer DEF RemoteInv
<1>1. task[t].at = "opening" /\ gate.writer = t /\ reinit = t /\ gate.readers = {}
  BY DEF Reopen, At, LockInv, GateInv, ValuesTyped
<1>2. gate' = [readers |-> {}, writer |-> NoTask] /\ reinit' = NoTask /\ UNCHANGED <<session, posts>>
  BY <1>1 DEF Reopen, LetGo, others
<1>3. ValuesTyped'
  BY <1>2 DEF Reopen, ValuesTyped, books, others
<1>4. /\ TasksTyped'
      /\ \A u \in Tasks \ {t} : /\ task'[u].back = task[u].back /\ task'[u].over = task[u].over
                                /\ \/ task'[u].at = task[u].at
                                   \/ task[u].at = "waiting" /\ task'[u].at = "ready"
      /\ task'[t].back = task[t].back /\ task'[t].over = task[t].over
      /\ task'[t].at \in {"done", task[t].back}
  <2>1. task' = Recovered(Woken(task), t)
    BY DEF Reopen
  <2>2. Woken(task)[t].back = task[t].back /\ Woken(task)[t].over = task[t].over
    BY WokenTyped
  <2>3. \A u \in Tasks \ {t} : task'[u] = Woken(task)[u]
    BY <2>1, WokenTyped, RecoveredTyped
  <2>4. /\ TasksTyped' /\ task'[t].back = task[t].back /\ task'[t].over = task[t].over
        /\ task'[t].at \in {"done", task[t].back}
    BY <2>1, <2>2, WokenTyped, RecoveredTyped DEF TasksTyped
  <2> QED BY <2>3, <2>4, WokenTyped
<1>5. task[t].back \notin {"write", "posting", "opening"}
  BY <1>1 DEF BacksInv
<1>6. GateInv'
  BY <1>2 DEF GateInv
<1>7. LockInv'
  BY <1>1, <1>2, <1>4, <1>5 DEF LockInv
<1>8. PostsInv'
  BY <1>1, <1>2, <1>4 DEF PostsInv, Early, Unsent, Detours
<1>9. OpenerInv' /\ BacksInv'
  BY <1>1, <1>4 DEF OpenerInv, BacksInv
<1> QED BY <1>3, <1>4, <1>6, <1>7, <1>8, <1>9

(* A recovery that fails opens the gate, lets the lock go and ends its task. *)
LEMMA RecoveryFailsKeeps ==
  ASSUME RemoteInv, NEW t \in Tasks, RecoveryFails(t)
  PROVE  RemoteInv'
<1> USE TasksDiffer DEF RemoteInv
<1>1. task[t].at \in {"posting", "opening"} /\ gate.writer = t /\ reinit = t /\ gate.readers = {}
  BY DEF RecoveryFails, LockInv, GateInv, ValuesTyped
<1>2. gate' = [readers |-> {}, writer |-> NoTask] /\ reinit' = NoTask /\ UNCHANGED <<session, posts>>
  BY <1>1 DEF RecoveryFails, LetGo, others
<1>3. ValuesTyped'
  BY <1>2 DEF RecoveryFails, MarkExpired, Fault, ValuesTyped, books, others
<1>4. /\ TasksTyped'
      /\ \A u \in Tasks \ {t} : /\ task'[u].back = task[u].back /\ task'[u].over = task[u].over
                                /\ \/ task'[u].at = task[u].at
                                   \/ task[u].at = "waiting" /\ task'[u].at = "ready"
      /\ task'[t].back = task[t].back /\ task'[t].over = task[t].over
      /\ task'[t].at \in {"done", "resuming", "concluding"}
      /\ t \notin Requests => task'[t].at = "done"
  <2> DEFINE a == CASE t \notin Requests -> "done"
                    [] t \in Requests /\ task[t].back = "resuming" -> "resuming"
                    [] OTHER -> "concluding"
             o == IF task[t].back # "resuming" /\ Woken(task)[t].outcome = "none"
                     THEN "failed" ELSE Woken(task)[t].outcome
  <2>1. task' = [Woken(task) EXCEPT ![t].at = a, ![t].outcome = o]
    BY DEF RecoveryFails
  <2>2. a \in {"done", "resuming", "concluding"} /\ (t \notin Requests => a = "done")
    OBVIOUS
  <2>3. a \in Stages
    BY <2>2 DEF Stages
  <2>4. o \in Outcomes
    BY WokenTyped DEF TaskState, Outcomes
  <2> HIDE DEF a, o
  <2>5. Woken(task) \in [Tasks -> TaskState]
    BY WokenTyped
  <2>6. /\ task' \in [Tasks -> TaskState] /\ (\A u \in Tasks \ {t} : task'[u] = Woken(task)[u])
        /\ task'[t].at = a /\ task'[t].back = Woken(task)[t].back /\ task'[t].over = Woken(task)[t].over
    <3>1. Woken(task)[t] \in TaskState
      BY <2>5
    <3>2. \A s \in TaskState : LET n == [s EXCEPT !.at = a, !.outcome = o]
                              IN  n \in TaskState /\ n.at = a /\ n.back = s.back /\ n.over = s.over
      BY <2>3, <2>4 DEF TaskState
    <3>3. task' = [Woken(task) EXCEPT ![t] = [Woken(task)[t] EXCEPT !.at = a, !.outcome = o]]
      BY <2>1, <2>5
    <3> QED BY <2>5, <3>1, <3>2, <3>3
  <2> QED BY <2>2, <2>6, WokenTyped DEF TasksTyped
<1>5. GateInv'
  BY <1>2 DEF GateInv
<1>6. LockInv'
  BY <1>1, <1>2, <1>4 DEF LockInv
<1>7. PostsInv'
  BY <1>1, <1>2, <1>4 DEF PostsInv, Early, Unsent, Detours
<1>8. OpenerInv' /\ BacksInv'
  BY <1>1, <1>4 DEF OpenerInv, BacksInv
<1> QED BY <1>3, <1>4, <1>5, <1>6, <1>7, <1>8

(* The invariant holds before the first step.                                *)
LEMMA RemoteInvInit == RemoteInit => RemoteInv
<1> SUFFICES ASSUME RemoteInit PROVE RemoteInv
  OBVIOUS
<1> USE TasksDiffer
<1>1. Finished \in TaskState
  BY DEF Finished, TaskState, Stages, Outcomes
<1>2. TasksTyped /\ \A t \in Tasks : /\ task[t].at \in {"idle", "current"} /\ task[t].back = "done"
                                   /\ task[t].at = (IF t = Opener THEN "current" ELSE "idle")
  <2>1. "idle" \in Stages /\ "current" \in Stages
    BY DEF Stages
  <2>2. \A x \in Stages : LET f == [Finished EXCEPT !.at = x] IN f \in TaskState /\ f.at = x /\ f.back = "done"
    BY DEF Finished, TaskState, Stages, Outcomes
  <2> QED BY <2>1, <2>2 DEF RemoteInit, TasksTyped
<1>3. ValuesTyped
  <2>1. 1 \in 1 .. MaxSessions /\ 1 \in 0 .. MaxSessions /\ 0 \in 0 .. MaxFaults
    OBVIOUS
  <2> QED BY <2>1 DEF RemoteInit, ValuesTyped
<1>4. GateInv /\ LockInv
  BY <1>2 DEF RemoteInit, GateInv, LockInv
<1>5. PostsInv
  <2>1. \A r \in Requests : r \in Tasks /\ posts[r] = 0 /\ r # Opener
    BY DEF RemoteInit
  <2>2. \A r \in Requests : task[r].at = "idle"
    BY <1>2, <2>1
  <2> QED BY <2>1, <2>2 DEF PostsInv, Early, Unsent
<1>6. OpenerInv /\ BacksInv
  BY <1>2 DEF RemoteInit, OpenerInv, BacksInv
<1> QED BY <1>2, <1>3, <1>4, <1>5, <1>6 DEF RemoteInv

(* No step leaves the invariant.                                             *)
LEMMA RemoteInvStep == RemoteInv /\ [RemoteNext]_remoteVars => RemoteInv'
<1> SUFFICES ASSUME RemoteInv, [RemoteNext]_remoteVars PROVE RemoteInv'
  OBVIOUS
<1>1. CASE UNCHANGED remoteVars
  BY <1>1 DEF RemoteInv, remoteVars, ValuesTyped, TasksTyped, GateInv, LockInv, PostsInv, Early,
     OpenerInv, BacksInv
<1>2. CASE Forget \/ NameSession \/ PostInitialized \/ OpenSession \/ OpenRefused \/ OpenFails \/ Streaming \/ StreamLost
  BY <1>2, ForgetKeeps, NameSessionKeeps, PostInitializedKeeps, OpenSessionKeeps, OpenRefusedKeeps, OpenFailsKeeps, FollowGenerationKeeps,
     OpenStreamKeeps, StreamAnsweredKeeps, StreamLostKeeps DEF Streaming
<1>3. ASSUME NEW t \in Tasks, Sending(t) \/ PostFails(t)
      PROVE  RemoteInv'
  BY <1>3, WaitReadyKeeps, NoticeReadyKeeps, EnsureCurrentKeeps, PostKeeps, PostAcceptedKeeps,
     PostRefusedKeeps,
     PostFailsKeeps DEF Sending
<1>4. ASSUME NEW t \in Tasks, Recovery(t) \/ RecoveryFails(t)
      PROVE  RemoteInv'
  BY <1>4, StreamRefusedKeeps, SweepKeeps, ExtendKeeps, LockReinitKeeps, CloseGateKeeps, ReinitializeKeeps,
     ReopenKeeps, RecoveryFailsKeeps DEF Recovery
<1>5. ASSUME NEW r \in Requests,
             \/ SendRequest(r) \/ CancelRequest(r) \/ Respond(r)
             \/ StreamBreaks(r) \/ Resume(r) \/ ResumeAnswered(r)
      PROVE  RemoteInv'
  BY <1>5, SendRequestKeeps, CancelRequestKeeps, RespondKeeps, StreamBreaksKeeps, ResumeKeeps,
     ResumeAnsweredKeeps
<1>6. ASSUME NEW r \in Requests, ResumeFails(r) \/ TooLate(r) \/ Cancelled(r) \/ Ending(r)
      PROVE  RemoteInv'
  BY <1>6, ResumeFailsKeeps, TooLateKeeps, CancelledKeeps, CancelUpstreamKeeps, PostCancelKeeps,
     CancelAnsweredKeeps,
     ConcludeKeeps DEF Ending
<1> QED BY <1>1, <1>2, <1>3, <1>4, <1>5, <1>6 DEF RemoteNext

(* The invariant implies what the run checks.                                *)
LEMMA RemoteInvSound == RemoteInv => RemoteIsSound
<1> SUFFICES ASSUME RemoteInv PROVE RemoteIsSound
  OBVIOUS
<1> USE TasksDiffer DEF RemoteInv
<1>1. RemoteTypeOK
  <2>1. \A t \in gate.readers : task[t].at \notin Stages \ InGate
    BY DEF GateInv, InGate
  <2>2. gate.writer # NoTask => reinit = gate.writer /\ task[reinit].at \in {"posting", "opening"}
    BY DEF GateInv, LockInv, ValuesTyped
  <2> QED BY <2>1, <2>2 DEF ValuesTyped, TasksTyped, TaskState, RemoteTypeOK
<1>2. NeverReplayed
  BY DEF PostsInv, NeverReplayed
<1>3. PostsStayCurrent
  BY DEF GateInv, PostsStayCurrent
<1> QED BY <1>1, <1>2, <1>3 DEF RemoteIsSound, OneSession

(* A request is posted at most once; requests, cancellations and streams    *)
(* speak in the session of the moment, notifications/initialized excepted;  *)
(* and a session is replaced by one task alone, with nobody in the gate:    *)
(* remote_transport.rs, its http.rs and messages.rs, for any requests and   *)
(* bounds.                                                                  *)
THEOREM RemoteStaysSound == RemoteSpec => []RemoteIsSound
<1>1. RemoteInit => RemoteInv
  BY RemoteInvInit
<1>2. RemoteInv /\ [RemoteNext]_remoteVars => RemoteInv'
  BY RemoteInvStep
<1>3. RemoteInv => RemoteIsSound
  BY RemoteInvSound
<1> QED BY <1>1, <1>2, <1>3, PTL DEF RemoteSpec
=============================================================================
