# A verification project for aifuel

aifuel runs coding agents: it drives provider programs (Claude Code, Codex, OpenCode, ACP agents, ...), records what they
do in an SQLite store, and offers the runs to terminals, to MCP hosts and through an OpenAI-style gateway. This
directory models the part of it where threads, processes, files and a shared store meet: TLA+ modules translated from
the Rust sources under `src/crates`, TLC configurations that check them on small instances, and proofs, checked by
TLAPS, of what matters most for every size of instance.

The source is the reference. Where a comment, a document and the code disagree the model follows the code, and the
disagreement is stated as a property that does not hold (see *Where code and documents disagree*).

Paths below are relative to `src/crates`; `runtime` is `aifuel-runtime/src`, `app` is `aifuel-app/src`, `providers` is
`aifuel-providers/src`, `mcp` is `aifuel-mcp/src` and `bin` is `aifuel/src`.

## The system

| Component | State it keeps | Operations | Talks to |
|---|---|---|---|
| Session Event Log (`app/run_store/session_log`) | `session_events` (seq per session), projection `agent_sessions` (status, owner, cursor) | append, upsert, claim, sweep of orphans, mark on shutdown, replay, snapshot | every runtime of every process on the same SQLite file |
| Runtime (`runtime/runtime.rs`) | `Inner`: live sessions, registered answers, consumers; an owner guard | open (sweep, then resume of interrupted sessions), shutdown, drop | store, adapters, pumps |
| Commands (`runtime/commands.rs`, `dispatch.rs`) | `commands` table of receipts | dispatch with deduplication; create, subscribe, list, close, run.start, run.cancel, approval.answer, model.select | `Inner` mutex, adapter, store |
| Pump (`runtime/pump.rs`) | one thread and one event stream per live session | take the stream, skip a stale prelude, append, broadcast, stamp answers, post-run checkpoint and quota | adapter's event channel, store, consumers' channels |
| Checkpoints (`runtime/checkpoints.rs`) | git refs per run, `checkpoint.*` facts | create after a run, restore on request | git, store, consumers |
| Session drivers (`providers/*_runtime`) | an agent process, its queues, a reader and a driver thread, `SessionState` | start, send, answer, cancel, select, stop, teardown | the agent by lines of JSON or by HTTP |
| Run manager (`app/run_management`) | `RunRecord` per run: metadata, pending input, response, cancellation, worker handle, event buffer | start, answer, approve, cancel, read, complete, shutdown | adapters (one worker thread per run), run store, approval channel |
| Run store (`app/run_store.rs`) | `runs` and `events` tables | started, completed, append event, read back, reconcile dead owners' rows | several processes |
| Workspace lock (`app/workspace_lock.rs`) | an exclusive file lock per directory | acquire at start, release at completion or death | several processes |
| Approval channel (`app/approval_ipc`) | a socket, an owner record, a record per pending approval | register, remove, sweep, one decision at a time | `aifuel approve` in another process |
| Execution adapter (`runtime/execution_adapter`) | none beyond a call | create, subscribe, start, drain, cancel, close | runtime, the owner's handler |
| MCP gateway (`mcp/gateway`) | aggregated lists and their caches, upstream connections and subscriptions, progress routes, HTTP sessions and event queues, the session with a remote server | refresh, page, connect and restore, subscribe, route progress, POST, GET, DELETE, recover | MCP hosts and servers |
| Credentials (`providers/credentials`, `oauth`, `wire/pool.rs`) | one locked JSON file: key pools, OAuth grants | read-modify-write, cooldown, rotation, refresh, login, logout | several processes, token and API endpoints |
| Model gateway (`bin/gateway`, `bin/route_planner.rs`) | the answer being served, the chain of attempts, the request log | resolve, plan, attempt, commit, fail over, forward, write frames | adapters, endpoints, clients |
| Setup (`app/agent_mcp_setup`) | lock, backup, journal, receipt beside the host's configuration | setup, remove, recover | a file that other programs and the user write |
| Quota webhooks (`app/webhooks.rs`) | marks of crossings in a file, a cached report | collect, compare, save, post | several processes, endpoints |

`PROJECT.json` lists every component with the part of it that is modelled and the reason for the rest.

What is hard here, and what makes each part correct:

* **Several runtimes on one store.** Processes open, adopt what dead ones left, and crash at every step. Correct: one
  driver per session, the projection never drifts from the log, what is orphaned in flight gets settled, and opening
  disturbs nobody who is alive.
* **One live session.** A pump thread, several consumers, a closer and a restorer share a mutex they do not hold
  throughout. Correct: each consumer sees every fact once and in order from where it subscribed, the close is last,
  nothing the provider said of its runs is lost.
* **A driver between hosts and an agent that may die.** Checks are made under a mutex, effects happen later on another
  thread. Correct: one run at a time, each ended once, the close last, nobody left waiting.
* **Retries.** A host that heard nothing sends its command again. Correct: the effect happens once and the answer does
  not change.
* **A manager whose callers, worker, approval thread and shutdown take three mutexes in different orders.** Correct:
  admission holds at every moment, writers do not share a directory, an answer reaches the request it was given for,
  an outcome stands, a run that is told to stop ends.
* **Files that several processes and the user write** (approval records, MCP configurations, webhook marks,
  credentials). Locks cover the writers of this program only and die with their holder. Correct: nothing is written
  from a stale copy, nobody else's entry is touched, whoever waits can be reached.
* **A gateway between two parties that both restart.** Upstream sessions are forgotten, lists change while they are
  read, a POST and a DELETE cross. Correct: what the host was told stays so or is known to be stale, accounts of
  bytes are exact, every request gets an answer.
* **One answer out of several providers.** Correct: another one is asked only while nothing was delivered, the client
  gets all of one answer and the log says which, the order follows the evidence.

## Modules

```
SessionLog             the tables of the session log and its transactions
  RuntimeLifecycle     runtimes in processes over one log           RuntimeLifecycleProofs
EventFeed              what session.subscribe promises              UserFilesProofs
SessionPump            one live session; implements EventFeed       UserFilesProofs
CommandDispatch        receipts, run.start and approval.answer      CommandDispatchProofs
ClaudeDriver           a Claude session
LocalSession           what the other three drivers share
  CodexDriver, AcpDriver, OpenCodeDriver
    SessionDrivers     any of the four, and what a host may rely on  SessionDriversProofs
RunManagement          one owner's run manager                      LocalRunsProofs
ApprovalRecords        the files behind `aifuel approve`            LocalRunsProofs
ExecutionDrain         one execute() over a runtime session         LocalRunsProofs
RunReaders             who reads the events of a run                UserFilesProofs
SetupTransaction       setup and removal of an MCP registration     UserFilesProofs
QuotaWebhooks          collections, marks and posts                 UserFilesProofs
McpLists, McpConnection, McpProgress, McpHttp                       McpGatewayProofs
McpRemote              the gateway's session with a remote server    McpRemoteProofs
GatewayServing         one answer of the model gateway
SurfaceFrames          prompts made of conversations, frames of answers
RoutePlanning          which integrations, in which order
  RequestForwarding    embeddings, audio, decisions
CredentialStore        the credential file and its lock
  KeyPool, OAuthGrants                                              ModelGatewayProofs
MC*                    instances for TLC; MCLocalRuns, MCUserFiles, MCMcpGateway and
                       MCModelGateway put small components side by side
```

The modules meet at named seams. RuntimeLifecycle uses `SessionLog` for every store transaction and cuts a runtime's
work into the transactions other runtimes can interleave with; what happens inside one runtime, between two of its
transactions, is `SessionPump`. SessionPump's adapter emits what `SessionDrivers` shows an adapter may emit (a run at a
time, its end once, a close last); CommandDispatch and ExecutionDrain assume the same of theirs. The approver thread of
RunManagement is what the server of ApprovalRecords hands a decision to; the events RunManagement pushes are what
RunReaders buffers. GatewayServing runs the chain RoutePlanning ranks and writes the frames SurfaceFrames spells; its runs
send with the keys of KeyPool and the grants of OAuthGrants.

Four MC modules explore several small components, one at a time: a variable `part`, chosen at the start, says which of
them moves. The components put together so share no state in the code beyond what each module shows from its side; the
conjunction is there so that one run, one invariant and one theorem can speak of a neighbourhood.

### SessionLog and RuntimeLifecycle

`log[s]` is the sequence of facts of a session, `row[s]` its line of `agent_sessions` (known, status, owner, cursor). The
operators `AppendFact`, `Upserted`, `ClaimSession`, `AppendInterrupted` and so on are the store's transactions
(`append.rs`, `agent_sessions.rs`), each atomic because the code runs it as one immediate SQLite transaction. A runtime
(`phase[r]`) goes through open (`Open`, `ReadOrphans`, `MarkOrphans`, `Enumerate`), the resume loop (`Claim` or
`SkipCandidate`, `StartAdapter`, `RecordWorking`, `Attach`), serving (`CreateRow`, `CreateLive`, `PumpFact`, `CloseLive`,
`CloseKnown`), shutdown (`ShutdownCursors`, `ShutdownMark`) and `Drop`. `Crash(p)` takes a process with all its runtimes. A
runtime is named by its owner id and never reused; whether an owner is dead is `Dead(r)`, the guard for the own process
and the pid for others, as `session_owner_dead` has it. `tail` holds pumps that upgraded their weak reference before a
drop and write after it.

### SessionPump and EventFeed

One session in one runtime. The creating thread, the adapter's stream, the pump, `Subscribe`, the closers and the restorers
are separate threads; a section under the `Inner` mutex is one action. `chan[c]` is what has been sent to a consumer for its
latest subscription, as sequence numbers. A resumed session starts from a log that was interrupted in an earlier life.
`EventFeed` says the same without threads: facts appear and are sent in one step, a subscription starts somewhere and is
complete from there.

### ClaudeDriver, LocalSession and the other drivers

In ClaudeDriver `state` is `SessionState`, `inbox` the one queue that commands and provider lines share, `flow` the driver's
`RunFlow`, `out` everything the session emitted. A host thread (`call[t]`) checks under the mutex (`Send`, `Answer`,
`Cancel`, `Select`), posts (`PostCommand`), waits and may give up. What the driver does with one input is one action
(`OnUserMessage`, `OnAnswer`, `OnInterrupt`, `OnSetModel`, `OnMessage`, `OnControlRequest`, `OnControlCancel`, `FinishRun`,
`EofTeardown`, `DriverCloses`, `OnShutdown`). The provider is a process that talks, asks, withdraws, ends turns and dies.

The Codex, ACP and OpenCode adapters have two queues, `commands` and `mail`, of which the driver prefers the first, and the
same calls, opening, stop and teardown, which LocalSession shows; each driver module adds what its loop does with a command
or a message. A Codex turn names itself, so that one whose sender gave up is an orphan that is interrupted and never
announced; an ACP run is its prompt's answer; an OpenCode prompt is a POST of its own, and events, which do not name their
run to the driver, come on another connection. A Claude or OpenCode sender whose acknowledgement is overdue lets go of the
session first and returns then (stages overdue and late of `call[t]`), while its message is still on the way: the next send
may pass beside it, so that `OneRunAtATime` and the last part of `RunsEndOnce` except late sends. SessionDrivers picks one
of the four at the start (`kind`) and states what a host may rely on whichever it is; ClaudeDriver is an INSTANCE over the
same variables. Abstracted: a run is named by the thread whose send opened it, error events are left out, the race of a send
with its `recv_timeout` is narrower in the code than here, ACP's file requests touch files only.

### CommandDispatch

`Lookup`, the handler's steps and `Record` are separate, since `dispatch` holds nothing between them. `receipts` is the
table with INSERT OR IGNORE; what the adapter took may still get a receipt that rejects it, as the head of the log is read
after it (`Accepted`); `answers` is the registration that attributes an approval, `stream` follows the event from the
adapter to the log, where `PumpStamps` names the consumer.

### RunManagement

`run[r]` is the `RunRecord`, `worker[r]` the worker thread (with the provider it runs inside), `thread[t]` a calling thread,
one per HTTP request in flight (`mcp/http.rs:246-251`), `Approver` the single thread of the approval channel, `closer` the
thread in `shutdown_inner`. Three mutexes of a record outlive a step: metadata and pending_input in `answer_input_value`,
interaction_response in the waiting loop. `HoldsMetadata`, `HoldsPending` and `HoldsResponse` read off the program counters who
has them, and every action that takes one waits. `row` and `events` are the tables; `events` keeps terminal events only.
After `OwnerDies` another process reconciles, in two statements as `reconcile_orphaned_runs` does.

### ApprovalRecords, ExecutionDrain and RunReaders

ApprovalRecords has an owner with its shutdown flag and server slot (`owner`), the requests of its runs (`input`), the
directory (`files`: the owner record with its kernel lock, sockets, pending records) and the submitters. A request that
waits starts the server if there is none (`LookAtSlot`, `BindSocket`, `PublishOwner`) and registers; a submitter reads the
record, connects, and treats an owner whose lock it gets as dead (`TryLock`, `SweepRecords`, `SweepFiles`). Owners and
submitters may die anywhere; the kernel drops their locks.

ExecutionDrain is `run` of the execution adapter: `drain` the calling thread, `agent` the session and its run, `channel` the
consumer's receiver, `control` the cancellation token, the deadline and the settle time. `finish` is the table that decides
what is reported; an agent may stay silent for good, cancelled or not.

RunReaders follows one stream of events into the byte-bounded buffer (`push_event`, with its sticky gap) and into the history
(`append_event`, with the payload budget), and readers who page through either and switch from the one to the other when
the owner is gone. An event is its size, and a page the positions of its events: the first after the cursor and those that
fit with all before them.

### SetupTransaction and QuotaWebhooks

SetupTransaction: processes that set up or remove an entry take the lock, reconcile what a dead one left
(`reconcile_pending`, `Verdict`), plan, write the backup and the journal, check that the file is still the one they read, rename,
write or clear the receipt and clear the journal; a step may fail or its process die before it; `UserSaves` happens at any
time. A configuration is its entry for AI Fuel and the rest of the text.

QuotaWebhooks: collectors in processes load the marks under a mutex of their process (the file has no lock), save them if
they changed, or discard a file they cannot read, post one event after another whatever the endpoints answer, and cache the
report. Of several endpoints with one threshold the first sees the mark as it was found, and the others see it as the first
left it (`FirstOf`). One window of one account is shown; every window has marks of its own.

### The MCP gateway

McpLists is one kind of list (tools, resources or prompts) over several servers: host requests and the watcher refresh under
the aggregate's lock, the dirty flag is taken when a refresh begins and set again by a change, a server that failed or a
conflict; `host` walks pages by cursor. A server may change its list without a notice that reaches the gateway: it announces
nothing, it is disconnected, or the connection goes with the notice on it (`Reconnect`), and connecting anew marks no list
(`state.rs:266-309`). `missed` and `unheard` record such changes; the lists are held to be current or marked except for
those, until a refresh that begins later asks the servers again. McpConnection is one upstream connection: whoever finds it
closed connects anew under the lock and restores the registrations one by one while hosts subscribe and unsubscribe;
`promised` records what the host was told and `unsure` what the gateway keeps without knowing. McpProgress has the routes,
the one notification kept per token, the bytes and the counters of `ProgressRoutes`, each method under its lock once.
McpHttp is one HTTP session: POST threads with their waiters, the service loop, the event queue with its byte credit, GET
streams, DELETE, and the five steps of `finish()` on whichever threads end it. McpRemote is the other side, the gateway's
own session with a server that may forget it: the session gate (read by every POST, written by a recovery; the opening
notification reads the session id before it takes the gate, `NameSession` and `PostInitialized`), the reinitialize lock, the
sweep of requests under way, and the event listener that follows the generation.

### The model gateway

GatewayServing resolves the inbound name through the route table (`RoutesResolve` compares with a reference definition),
starts the attempts one after another, each a worker thread that posts deltas and a result, and lets the surface write:
nothing before the commit, then deltas, then an ending; `requestLog` is the line logged. SurfaceFrames is what the four
surfaces (chat, completions, messages, responses) make of a conversation, block by block, and of an answer, frame by frame,
including the tool calls found in the text of a run. Text on the line of a fence is lost with the block, only the first
fenced block is parsed and an unclosed one goes out as text, as in the code. RoutePlanning ranks the integrations
(measured quota, then free-tier keys, paid keys, then the depleted), expands chains, checks efforts against the catalog
and reorders by a decision; RequestForwarding walks its own ranking over the endpoints, the first that answers deciding.

CredentialStore is the file, its lock and the holder's copy. Every mutation is `Acquire` (which rereads the file), then
`Persist` or `Release`; `LockedTimeout` is the ten seconds a writer waits. KeyPool runs resolve the pool once, send with the
first member usable now, record what the endpoint said against the slot and rotate, while the user adds and removes keys.
OAuthGrants callers read without the lock, refresh an expired grant under it (`RefreshChecks`, `RefreshPosts`, `RefreshLands`),
retry what never left and confirm what may have landed, while the user logs in and out; `lost` are refresh tokens spent by an
exchange whose answer never reached the file.

## What the runs check

Run one with `tlc -config Lifecycle.cfg MCRuntimeLifecycle.tla`, and likewise the others. The suite is kept to a dozen runs so
that all of it can be checked in a few minutes; each asks one question of one neighbourhood.

| Run (module, cfg) | Instance | What it shows | States |
|---|---|---|---|
| `lifecycle` (MCRuntimeLifecycle, Lifecycle.cfg) | two runtimes in two processes, one session that can be resumed | one driver per session, owned by the row; the row tells the log; what is orphaned in flight is settled | 30,633 |
| `pump_feed` (SessionPump, PumpFeed.cfg) | two consumers that may subscribe before the create returns, one closer, a store that works | the threads implement EventFeed; the log is orderly (run facts drained in order, close last, continuation stands, checkpoints follow their run); a close settles | 241,409 |
| `user_files` (MCUserFiles, UserFiles.cfg) | a consumer, a closer and a restorer over a store that may fail; two setups and a removal beside a user who saves; three collections in two processes; a reader of one run | no fact is lost to an attached consumer though a restorer appends outside the mutex; the entry AI Fuel wrote is owned and the user's saves are kept; crossings notify once; pages are honest | 800,197 |
| `dispatch` (MCCommandDispatch, Dispatch.cfg) | five deliveries of three commands by two consumers, crashes, late acknowledgements, receipts that reject what was done | retries are quiet, receipts stand, one answer is taken, the winner keeps its credit | 1,111,654 |
| `run_admission` (MCLocalRuns, RunAdmission.cfg) | two runs, two callers, the approver, a closer | admission holds at every moment, writers exclude each other, shutdown leaves nobody it could see | 1,641,218 |
| `local_runs` (MCLocalRuns, LocalRuns.cfg) | one run that asks twice and has a deadline, with a crash; an owner with two requests or two submitters; a drain whose agent says and asks two things | an answer reaches its request and a stream has one ending; who waits can be approved; an execution reports what happened; outcomes stand; whoever was told to stop ends | 182,449 |
| `session_drivers` (MCSessionDrivers, SessionDrivers.cfg) | each of four adapters: two sends that may give up, two answers, a cancel, a selection, a stop, an agent that may refuse, fall silent or die | late sends of Claude and OpenCode apart, one run at a time, each ended once; close last; the first answer wins; nobody waits forever | 749,720 |
| `mcp_gateway` (MCMcpGateway, McpGateway.cfg) | two servers, which announce their changes or not, and one caller; two hosts on two URIs; three calls; two POSTs of one id, two frames | lists are current or marked stale but for changes the gateway was never told of; promises are kept; accounts exact; POSTs told the truth; announced changes and answers arrive | 521,286 |
| `mcp_remote` (McpRemote, McpRemote.cfg) | one request, three sessions, two faults | nothing is replayed, POSTs but the opening one name the session of the moment, recovery ends and the stream follows | 352,059 |
| `mcp_remote_opening` (McpRemote, McpRemoteOpening.cfg) | one fault | does not hold: recovery also ends when `notifications/initialized` meets the 404 | 3,947 |
| `run_deadline` (MCLocalRuns, RunDeadline.cfg) | the run of `local_runs` without crashes | does not hold: a run whose deadline expired ends | 120,502 |
| `model_gateway` (MCModelGateway, ModelGateway.cfg) | requests of every surface over eight route tables; some thousand conversations and answers; eight integrations; two pooled keys, two runs, two edits; two callers, a logout, a login | answers, logs, prompts, frames, rankings and walks are honest; credentials are nobody's stale copy; nobody is left waiting by the gateway | 427,027 |

A passing run checks every property it names. Each property of a passing run has a mutant in `PROJECT.json`: a plausible
bug in one definition (a guard dropped, a lock given up early, a reset forgotten, an order swapped) under which TLC refutes it.

Properties are named for what they promise and most are conjunctions of named parts, kept in the modules:
`LogIsOrderly` of `DrainedInOrder`, `ClosedIsLast`, `ContinuationStands`, `CheckpointFollowsRun`; `RestoreIsHonest` of
`NothingMissed` and the recorded checkpoint; `InteractionIsHonest` of the answer that reaches its request and the one ending;
`StreamIsSound` of `OneRunAtATime`, `RunsEndOnce`, `ClosedLast`, `MessagesAreClosed`, `RunsAreNotMixed`;
`CredentialsAreKept` of `HolderIsCurrent`, `BenchedForCause`, `EditsStand`, `StoredGrantIsLive`, `ExchangeIsExclusive`,
`LastWordIsTheUsers`; `ServingIsHonest` of what each part of the model gateway owes. A module's type invariant is the first
conjunct of its property where it has no run of its own.

**Bounds, and why they are enough.**

* Lifecycle: the races are between pairs (an opener and an owner, two openers, a dropper and an adopter), sessions are
  independent of each other but for the sweep, and what decides a session is its last few facts. `MaxFacts` = 3 lets a
  session be worked on, interrupted, adopted and worked on again. The proofs lift all of it.
* Pump: two consumers suffice for a broadcast to reach one and miss the other; `MaxReplay` = 2 gives replays that overlap
  live facts; `MaxEmitted` bounds what the adapter emits, enough for a run, its end and one more event.
* Drivers: two sends race for the session and two answers for one request; the cancel and the selection race both.
  `MaxLines` (what the agent says: two lines of Claude, one of the others; two were tried for the others too, at 2.3 to 2.9
  million states each, with the same result) and `MaxCalls` = 3 bound the agent and the hosts. Threads of one kind are
  interchangeable, so `Order` lets the second begin after the first; it also has the selection begin after the first send,
  and leaves it out of Codex and OpenCode sessions, which store it for the next send and tell nobody. `AcksExpire` has one
  Claude and one OpenCode sender give up on a driver that is slow, and lets every Codex sender and an ACP selection, whose
  agents may never answer, wait past their timeouts. For Claude and
  OpenCode a call that gives up without an answer counts twice against `MaxCalls`, which keeps the run short; without the
  double count both were checked as well, a million states each, with the same result. An ACP agent may die before it is
  announced (`EarlyDeath`).
* Dispatch: a command delivered twice, a winner and two losers, of which one is of the winner's own consumer.
* Run management: `Requests` has a run that may write in directory d1 and one that resumes native session n1, so that two
  runs may compete for either; two callers and the approver suffice to answer one request twice while a third thread
  cancels. With two runs and `MaxActive` = 2 the limit on active runs is not reached in the run; the theorem
  `AdmissionHoldsAlways` covers it, for every limit. `MaxAsks` bounds the provider's requests; asks and crashes are off in
  `run_admission`, which is about starting and closing. Callers are symmetric there, which is sound as no liveness
  property is checked in that run.
* Approvals and drain: one owner, two requests with one submitter or one with two, `MaxServers` = 2 servers one after
  another; two deltas and two requests of the agent.
* Files: two setups and a removal overlap in pairs and leave a journal for the third; `MaxSaves` = 2 puts one save of the
  user before and one after the last check; three collections, two in one process, with two endpoints on one threshold and
  a third that hears of resets only; `MaxEvents` = 4, a buffer of 3 and pages of 2 make the buffer drop and the cursor fall
  behind.
* MCP gateway: one change per server and one failure at a time, an oversized list at sB; two URIs of one connection, two
  connections, one refusal, one update; bytes 1, 2, 1 against a bound of 2, so that the buffer fills and overflows; both POSTs
  carry one id and the frames have 1 and 2 bytes of a capacity of 2.
* Remote session: the server may forget it twice, while one request, its cancellation, the opener and the listener are at
  every stage.
* Model gateway: `MaxRouteDepth` = 3 and `ForwardDepth` = 2 where the code has 8, with tables of aliases just below, at and
  above it; two deltas; two members in the pool, one command that removes a key and one that adds one; cooldowns of one and two
  ticks; four tokens, so that both callers and the login can each mint one.

`CHECK_DEADLOCK FALSE` appears in every configuration: hosts may stop calling, an agent may stay silent, and a closed session
or a runtime that is gone has nothing left to do. What must not rest is a liveness property.

**Fairness, and what justifies it.** Threads are scheduled by the operating system, so a step a thread has begun and can
finish is weakly fair; whatever an outsider decides is not.

* RuntimeLifecycle: weak fairness of the thread inside `open` only. Nobody need open, shut down or drop. `OrphansSettle`
  allows for the process dying or the open failing.
* SessionPump: the creating thread, the pump, and closers and restorers that have begun. Consumers and the adapter owe
  nothing.
* Session drivers: one weak fairness of all of the adapter's own threads (`AdapterStep`: the starting and stopping threads,
  the driver, an event on its way, callers that have posted). The agent may never answer; callers have `recv_timeout`, the
  stop kills the process.
* RunManagement: callers inside a call, the approver, the closer, workers; another process opens the store in the end
  (`Reconcile`); an adapter returns once it was told to stop (`Told`), since every adapter polls the cancellation handle or is
  killed by its deadline. A mutex is not fair in Rust, but every section under one is finite, except the cycle
  `LockCycle` names. Approvals and drain: threads in a call go on, and the settle time passes; nothing is assumed of the
  agent or of the owner's answer.
* McpLists: a notification that is not lost with its connection is handled, a server that is asked answers or its deadline
  passes, the watcher runs, and the aggregate's lock, a fair queue (tokio's mutex), is strongly fair to each waiter: hosts
  that keep asking would starve a waiter under weak fairness, and one fairness for notices, refreshes and the watcher
  together would let them starve each other. McpHttp: one weak fairness of POST threads past their lookup, the service loop
  and the steps of `finish()`.
* McpRemote: each task goes on when it can by itself or with an answer, since every POST and every GET of a broken answer has a
  deadline. The GET of the common event stream has none; nothing is assumed of its answer.
* Model gateway: the thread that serves the answer; runs and commands at the key file; callers and commands at the grant.
  Nothing is assumed of providers and endpoints: a run has no deadline here, and may take as long as it likes.

## What is proved

Check a proof module with `tlapm LocalRunsProofs.tla`. All theorems are for every value of the constants that meets the
named `ASSUME`s (finite or infinite sets of sessions, consumers, deliveries, ...). Those assumptions say that placeholders are not
members, that maps have the right domain and range, that threads and processes of different kinds are different, and
that bounds are naturals; TLC evaluates them in every run.

| Module | Theorems | Assumes, beside the ASSUMEs |
|---|---|---|
| RuntimeLifecycleProofs | `TypeInvariant`, `DriverOwnership`, `NoDoubleAttach`, `ProjectionTellsLog`, `SweepSettles` | |
| UserFilesProofs | `FeedKeepsPromise` | |
| | `PumpImplementsFeed`, `AttachedAreUpToDate` | no restorer, no closer is eager |
| | `RunFactsArrive` | the store works |
| | `LogStaysOrderly` | the store works; one closer; nobody is eager or restores |
| | `RestoreStaysHonest` | no closer is eager |
| | `RegistrationStaysOwned`, `SavesStayKept`, `CrossingsStayOnce`, `PagesStayHonest` | |
| CommandDispatchProofs | `DispatchTypes`, `ReceiptsStand`, `RequestAnsweredOnce`, `CreditIsKept` | |
| | `RetriesAreQuiet` | receipts can be read and written |
| SessionDriversProofs | `FirstAnswerAlwaysWins` | |
| LocalRunsProofs | `InvHolds`, `TypeCorrect`, `AdmissionHoldsAlways`, `OutcomeStandsAlways`, `WritersAreExclusive`, `ShutdownReapsAll`, `InteractionStaysHonest` | |
| | `ExecutionStaysHonest`, `ApprovalsStayLive` | |
| McpGatewayProofs | `ListsStayHonest`, `AccountStaysExact`, `HttpStaysHonest` | |
| | `PromisesAreKept` | one host thread to a URI |
| McpRemoteProofs | `RemoteStaysSound` | |
| ModelGatewayProofs | `CredentialsStayKept`, `OneAnswerIsHonest` | |

A condition in the last column is needed: TLC finds the theorem's formula violated without it, and says so below.

*Lifecycle.* `DriverOwnsRow` is not inductive: a runtime that claimed a session and has not attached it yet could lose the
row to a sweep. What keeps it is that only a dead owner's row is claimed (`claim_session` compares the owner), that an owner
is never seen dead and then alive (`SeenAreFinished`), that a runtime with work at hand is registered (`BusyIsActive`), and
that the session in its hands has a row in its name (`JobOwnsRow`). `NoDoubleAttach` follows: two drivers would both be the
one owner. `ProjectionTellsLog` needs that a row exists for every written log (`WrittenAreKnown`) and a lemma that says how
one more fact moves the status the log tells (`TellsAppend`); `SweepSettles` needs that the orphans a sweep selected are all
those in flight of the owners it saw (`SweepSelected`).

*Feed.* The pump appends to the log and broadcasts under one mutex, so that both look like one step of the feed. What could
break it is a consumer attached while nobody broadcasts; `Handover` (nobody is attached before the session is live or after
it is gone) excludes it. With a restorer the claim is false (its append is outside the mutex), which is why it is assumed
away in the theorem. `AttachedAreUpToDate` is then EventFeed's own theorem under the refinement.

*The log of a live session.* `RunFactsArrive` maps the run facts in the log to those the pump has taken: the map grows by
one pair with each drained run fact, whatever else is appended, and a resumed session's idle is skipped only in the prelude.
`LogStaysOrderly` adds that there is one way the session closes at a time (`OneCloser`) and that once the log says closed
nothing is left that could append (`NothingLeft`). Two closers, an eager closer (which comes before the pump), a restorer
and a store that fails each break it. `RestoreStaysHonest` has none of these but the eager closer: the facts a restorer
appended outside the mutex are with it until it broadcasts (pending restorers), nobody is attached to a session that is not
live, and a restorer was allowed only a checkpoint the log knows.

*Setup.* `SetupInv` strengthens the two properties by what the steps rely on: one process is in the lock; a journal names an
entry the file did not have when it was read, or the receipt's; the receipt never names the user's entry; a plan keeps the
user's text and replaces only no entry or the receipt's; and from the last check to the rename the file is the snapshot unless the
user saved in between (`late`), which is the one loss the code admits.

*Dispatch.* A retry sees a receipt because whoever has returned left one (`DoneIsRecorded`), whatever it had overlapped
with; this is where the store must work. The request is answered once because "told so or about to be" (`Told`) implies
being the winner and the request being gone from the adapter; an entry in the receipts table was written by a delivery that
is done (`WriterIsDone`), so that a delivery that finds one is never its author. All that a crash loses is unfinished
deliveries.

*Session drivers.* `FirstAnswerWins` speaks of resolved requests and of hosts told that their answer counted; what keeps it
is where a request is before that. The ledger (`Ledger`, and `ClaudeLedger` for the one queue of a Claude session) says that
a request is in one place: with the agent, in the mail, parked, held by one host, or resolved. A host holds one from the
moment `Answer` took it out of the parked ones until the driver replied, also when that host gave up waiting. Most steps are
`Quiet`: what they take from a queue or a host they drop, and what they emit resolves nothing, so that one lemma serves them
all. The others are proved by the move they make: the agent asks, the driver parks, a host takes, its command is queued, the
driver resolves, hears that another client resolved, or retracts what is parked. The sets of threads are disjoint
(`ThreadsAssumption`) as a call is of one kind; how much of the types the ledger needs is in `LocalTyped` and `ClaudeTyped`.

*Run management.* The bound and the exclusion of native sessions are decided under the `runs` mutex, but runs become
inactive elsewhere, under their own. `WorkersMatchStates` (a live worker's run is active, a finished one's is terminal),
`StartsMatchStates` (one thread starts a run, which has no worker before the spawn) and `AnswersMatchStates` (an answer that
holds the metadata has a run that is not over) make it inductive. Most actions are *calm*: they change no request, no
terminal state, no worker's life. The five that are not (`Acquire`, `Admit`, `Spawn`, `SetOutcome`, `OwnerDies`) are proved
one by one. `OutcomeStandsAlways` is about the one write that could undo a terminal state: an answer that sets Running, and
does so under the metadata mutex after looking. Three further invariants rest on `Inv`. `LocksHeld`: a directory has one
holder, from the `Acquire` of a starting thread until its run is refused or its last row is written, so that two writers are
never at work in one (`WritersAreExclusive`). `HandlesStored` and `ShutdownKeepsCount`: the flag is up before shutdown
collects the records, so that a worker it has no handle of belongs to a start it could not see, which `missed` records
(`ShutdownReapsAll`). `EndingsMatchRows` and `RequestsMatchAnswers`: a stream's ending, the row and the state of the worker
tell the same outcome at each stage of completion, death and reconciliation; what is pending is the last thing asked and is
not answered yet, who holds a lock is unique, and the approver's request is one that still waits (`InteractionStaysHonest`).

*Drain.* `DrainInv` adds three facts to the property: what was received and what is still in the channel add up to what the
agent said and asked (`WordsAreCounted`, by a recursive function over the channel whose two equations suffice); an ending in the
channel is the last word and the agent's end (`EndingsAreTrue`); and each stage has the session it needs (`DrainIsStaged`).

*Approvals.* A submitter may sweep only an owner that is dead, because a live owner keeps its record's lock from before the
record is seen until it drops the server. `ApprovalsInv` says so step by step: servers are numbered by the owner's record
(`ServersAreNumbered`), a channel that is up is whole (`ChannelsAreWhole`), a sweeper holds the lock of what it removes
(`SweepersHold`), one request at a time registers (`OneRegisters`), and a record has its request or is about to be taken out
(`RecordsFollow`).

*Webhooks.* What was decided for an endpoint is posted, or in the hands of a call that posts: by the cardinality of those
calls (`PostsAreOwed`), so that a call that dies owes nothing. While nobody is unsure, one call at a time is between
comparing and saving (`SavesAreExclusive`), what it is about to tell is how its marks differ from the file's
(`ComparisonHolds`), and the last word an endpoint was told is what the file says of its threshold (`MarkIsTold`).

*Readers.* The buffer ends with the event pushed last, and what it lacks of the run is a gap (`BufferIsWhole`, by the lemma
`PushIsWhole`); the store has every event unless it refused one (`HistoryIsOrderly`); and a reader that was not warned has
seen the events 1 to m, with its cursor among them (`ReaderIsTold`). That a page goes on where the cursor stands and leaves
none out between its events is the lemma `PageGoesOn`, from sizes that only grow with a set of positions.

*MCP gateway.* Lists: the page a refresh collects follows its cursor (`WalkFollowsCursor`), the first refresh finds nothing
to be stale, and what is in the cache or already in a refresh's hands is current, marked or missed (`CacheIsMarked`,
`GotIsMarked`): a change that falls between the answer of a server and the end of the refresh has raised the flag again, if
it was announced, and if it was not, its server is in `missed` until a later refresh takes it out. Connection: the holder of
the lock and the connection fit (`ConnShape`), a request is for what its host last asked (`RequestsMatch`), and what is
registered is carried, being restored or unsure (`RegistrationsCarried`). Two hosts on one URI break the promise: one's
refused subscribe takes out the registration the other was promised; hence `OneThreadPerUri`. Progress: amounts of bytes are
cardinalities of sets of byte positions, so that keeping, replacing and dropping add up by the theory of finite sets
(`BytesAreCounted`), and the counter of a server is the cardinality of its calls under way (`CallsAreCounted`). HTTP:
whoever ends a session marks it closed first (`FinishersClose`) and nobody is told before that (`ToldAtTheEnd`); a waiter is
its POST's own unless a duplicate took the id (`WaitersAreTheirs`); frames are pushed and read in order, and their credit is
again a cardinality.

*Remote session.* The gate is a read-write lock: whoever has it for reading speaks in the session of the moment or has
nothing on the wire, and its writer is the task that posts the new handshake (`GateInv`, `LockInv`). The one reader that
keeps the gate on its way to the recovery lock is the opener, which runs once (`OpenerInv`); as it notes the session before
it has the gate, a recovery by a cancelled request may overtake it there, and the invariant says nothing of the session it
names. A request that has not come to its POST, or is on a detour from before it, has made none (`PostsInv`), and no detour
leads back to a POST that was made (`BacksInv`), which is why a recovery never sends a request twice.

*Credentials.* The keys and the grants are two invariants over one store. For the keys (`PoolInv`): what a run is about to
record is what an endpoint answered it (`VerdictsAreEarned`), so that a mark in the file has a run that earned it; a command
that is done has the slot it wrote (`EditsAreSlotted`), and runs write only marks, into the file as it is under the lock
(`HolderIsCurrent`), so that they neither bring back a key nor remove one. For the grants (`GrantsInv`): the holder's copy
is the file from its check to its write (`ExchangeIsExclusive`), an answer on its way carries the account that is stored and
a refresh token the provider takes, or none, in which case the stored one is still taken (`AnswersAreLive`), and that token
is nobody else's; a login that has not stored its grant has tokens of its own that nobody spends (`LoginsAreLive`); commands
come one after another (`OneAfterAnother`), and what the last one that is done did is in the file though refreshes follow
(`LastDone`).

*One answer.* `AnswerIsHonest` is what `ServingIsHonest` says of one answer. The gateway and the run meet in a channel,
which holds the deltas the gateway has yet to take, in order, and then the result (`ChannelIsInOrder`); before the last word
the client has nothing, or an opening and deltas (`StreamIsOpen`): those the gateway took, and all of them once the result
is taken (`StreamSaysTheRun`). `RunsAreAccounted` says which run there is, and what became of it, at each point of the walk:
one that is left for the next provider has failed before its first delta or panicked, and one still on after its request is
being joined. Deltas are numbers that are compared, so that no step needs an induction over them.

Model changes the proofs asked for, none of which changes what the modules say of the code: overlapping CASEs became IF/ELSE;
sums of bytes became cardinalities; the first free slot and the first usable member are described by what they are rather
than chosen; the endpoints a collection tells and the events of a page are described by what they are rather than folded or
filtered; and placeholders, threads and bounds got the assumptions listed above.

Only model-checked: all liveness (`OrphansSettle`, `CloseSettles`, `NobodyWaitsForever`, `EverythingEnds`,
`GatewayDelivers`, `SessionRecovers`, `EverybodyIsAnswered`), which TLAPS does not do under fairness; the rest of
`ServingIsHonest`, whose route tables, conversations and frames are walked by recursive operators that TLAPS cannot reason
about; and `StreamIsSound`, whose order of a whole stream rests on the state of four drivers at once.

## Where code and documents disagree

Two statements of the sources are refuted by a run each.

* `DeadlineEndsRun` (`run_deadline`): `unified-agent-management.md` has runs end at their deadline. `answer_input_value` takes
  metadata, pending_input, then interaction_response; the waiting worker, when cancelled or late, holds interaction_response and
  takes pending_input. Each waits for the other; the run, and whoever wants its metadata, stay.
* `OpeningRecovers` (`mcp_remote_opening`): `gateway-contract-review.md:85` has a 404 lead to a fresh initialization.
  `send_message` holds the session gate for reading while it awaits a recovery that wants it for writing, when the message is
  `notifications/initialized`.

More statements are in the modules, stated after the properties and checked by hand by adding them to a configuration; they do
not hold either.

| Statement | Module | What the code does |
|---|---|---|
| `OpenLeavesOthersAlone` | RuntimeLifecycle | `append.rs:205-209` promises that an open never interrupts another's work; orphans are selected outside the transaction that marks them (`215`), so that the slower of two openers interrupts what the faster one adopted |
| `ClosedIsLast` | RuntimeLifecycle | a session closed by another host between enumeration and claim is claimed all the same: `agent_sessions.rs:62` compares the owner only |
| `DropLeavesNothingInFlight` | RuntimeLifecycle | a pump that upgraded its weak reference before the drop writes after it (`runtime.rs:465`, `507`) |
| `ProviderCloseLands` | SessionPump | `pump.rs:13-15` promises that a close on the provider's side is never lost; the pump skips it when there is no live entry, also before `session_create` has inserted one (`pump.rs:89`) |
| `DeliveredInOrder` | SessionPump | a restore appends outside the mutex and broadcasts later (`checkpoints.rs:311`), so consumers may get its fact after later ones |
| `RestoredAtRest` | SessionPump | the check for rest (`checkpoints.rs:224-226`) and the restore (`252`) are apart: a run may begin between |
| `ClosedOnce` | SessionPump | two closers both pass the check (`commands.rs:286-287`) and both append (`319`) |
| `QueueDrained` | SessionPump | a closer that comes before the pump took the stream finds no pump to join (`commands.rs:302-304`) |
| `AnsweredIsAttached` | SessionPump | a subscription between the row and the live entry is answered and not attached (`commands.rs:168`, `190`) |
| `ClosedFlagTells` | SessionPump | with a store that fails, `closed` is set though the append did not happen (`pump.rs:97`, `runtime.rs:54`) |
| `CausalOrder` | ClaudeDriver | `session.rs:5-9` promises approval events while a run runs; an answer accepted under the mutex reaches the driver after the provider's result |
| `CancelHitsItsRun` | ClaudeDriver, SessionDrivers | cancel checks the run and posts an interrupt; the next run may be the one interrupted (`session.rs:504-531`); ACP and OpenCode cancel whatever runs |
| `SelectionWaits` | ClaudeDriver | a selection is checked idle and posted; a run may have started (`session.rs:534-546`) |
| `SecondSendLoses` | SessionDrivers | `claude_runtime/session.rs:381`, `415`: a send "on a session fails while a run is in flight", "so a racing send loses"; a Claude or OpenCode sender whose acknowledgement is overdue clears the reservation with its message still queued (`claude_runtime/session.rs:431-432`, `opencode_runtime/session.rs:358`), the next send passes and a second run starts with no end of the first |
| `EventsAreTheirRuns`, `FailedSendIsSilent` | SessionDrivers | for OpenCode: late parts are credited to the run in flight, and a sender that gave up leaves a prompt that runs (`driver/events.rs:293`, `session.rs:358`) |
| `FailuresChangeNothing` | SessionDrivers | an ACP selection that is refused after a part of it was configured has changed it (`acp_runtime/session.rs:291-295`) |
| `StopIsNoLoss` | SessionDrivers | a stop that finds the agent dying reports a lost connection |
| `AnsweredByIsHonest` | CommandDispatch | `agent-runtime-library.md:144`; the first consumer to reach `approval_answer` is registered, before the adapter decides whose answer it takes (`commands.rs:427`) |
| `AtMostOnce` | CommandDispatch | overlapping deliveries, or a crash before the receipt, execute twice; the receipt is written after the effect (`dispatch.rs:7-9`) |
| `ShutdownLeavesNobodyAtAll` | RunManagement | a start past its check of the flag, or whose handle is not stored yet, is missed (`observation.rs:230`) |
| `CancellingIsLast` | RunManagement | an answer sets Running over Cancelling, and a run told to stop may still end succeeded |
| `ShutdownRemovesChannel` | ApprovalRecords | a request that read the flag before it was set starts a server after the shutdown |
| `SessionAlwaysCloses` | ExecutionDrain | `execution_adapter.rs:18-19`; the guard is made after the subscription, whose failure leaves the session open |
| `AgentEndEndsRun` | ExecutionDrain | a run whose agent is gone waits for the owner's answer, which nobody takes back |
| `StoredStreamsAreComplete` | RunReaders | `observation.rs:128`; an event that could not be stored is only logged |
| `TerminalPageIsLast` | RunReaders | the state is terminal before the last events are pushed |
| `RecoverySucceeds` | SetupTransaction | ADR 0002; a save between the rename and the recovery leaves a journal that every later operation meets with a conflict |
| `EveryEndpointIsTold` | QuotaWebhooks | `webhooks.rs:3-5`; endpoints with one threshold share a mark (`464`), the first one listed is told |
| `OnceForEveryone`, `PostedInOrder` | QuotaWebhooks | two processes read the marks before either saved them; overlapping calls may post a recovery before its crossing |
| `NoEmptyPromise`, `LastUpdateShown` | McpConnection | a left-over registration answers for a new subscription (`handler.rs:331`); an update during the write of another is coalesced away (`progress.rs:117`) |
| `LatestIsKept` | McpProgress | `gateway-contract-review.md:79`; handlers run in tasks of their own, an older notification may replace a newer one |
| `DuplicateIsHarmless` | McpHttp | `gateway/http.rs:103-122`; the waiter of the earlier POST is replaced before the duplicate is noticed |
| `RecoverableSession` | McpRemote | `messages.rs:50-53` against `gateway-contract-review.md:83`; a recovering request cancelled after the flag is taken leaves a session nobody recovers |
| `OpeningIsCurrent` | McpRemote | `gateway-contract-review.md:85`; the opening notification reads the session id before it takes the gate (`http.rs:71-72`), so that a recovery in between leaves it with the replaced id |
| `EndsAreTold`, `NoNeedlessExpiry` | McpRemote | requests swept away by a recovery are told nothing (`cancel_pending_except`); a resumed GET's late 404 expires the new session |
| `FailureIsTold` | GatewayServing | `execute.rs:48-52`; a failed completions request ends in a bare 500 (`completions.rs:248-259`) |
| `MediaIsRefused` | SurfaceFrames | `chat.rs:70-77`; the markers of media parts count as text |
| `InstancesRedefineNothing` | RoutePlanning | `instances.rs:23-25`; an instance makes its provider's bare name ambiguous |
| `BilledOnce`, `SelectorStaysHere` | RequestForwarding | `providers/forward.rs:36-39`: a timeout or a truncated body comes after the work and the walk moves on; `forward.rs:365-367`: a form sends the gateway's own selector to the endpoint |
| `InvalidStaysOut` | KeyPool | `schema.rs:363-365`; a success of an older request clears the mark of a rejected key (`pool.rs:332-342`) |

The late sends of `SecondSendLoses` are in the passing run, as exceptions of two of its properties. Two constants of
SessionDrivers widen the model beyond that run: `EarlyDeath` for the other adapters (an agent that dies before its session
is announced makes the Codex or OpenCode driver report a close for it) and `JoinsExpire` (a reader joined for five seconds
at most may speak after the close). `ClosedLast` fails then. A run's message may be left open when the teardown of Codex,
ACP or OpenCode ends the run.

Some divergences concern steps the models have but no property. `cancel_run` may push "cancelling" to the events after the
terminal one (`observation.rs:221`); a repeated identical answer gets InputConflict where the documents say it is
acknowledged; reconciliation updates the row before it inserts the event, so a second crash leaves a row without one; an
owner that dies between the terminal event and the row leaves a stream that says completed in a row that says failed; after
the deadline the drain polls without waiting until it settles, and a cancellation followed by the deadline is reported as a
timeout; a refresh that is cancelled forgets that the list was dirty (`tools.rs:47`), and a failed refresh of the watcher
does not tell the host again (`gateway-contract-review.md:57`); the listener of a remote session ends after one failed
recovery (`event_listener.rs:67`, `116`), and `wait_ready` may miss its wake-up (`messages.rs:25-29`); OpenCode's answers
and aborts have no timeout although `driver.rs:35-37` calls them bounded; another provider is tried after the commit when a
worker panics (`execute.rs:502`); chat logs 200 for an answer a gone client never got; a client that leaves before the first
delta is not noticed; a request is retried after an ambiguous disconnect where `provider-integrations.md` says never; a mark
hits whatever key the slot holds by now (`provider-integrations.md:215`); a later 429 without Retry-After shortens a
declared hour to at most 300 s; a login is lost when the lock is held by an exchange for more than its ten seconds; the file
grant of the Codex CLI is refreshed without a lock, so that two processes may spend one token (`codex_oauth.rs:8-14`).

## What is not modelled

Within the modelled components:

* RunManagement: writes to the run store that fail, the cap on remembered runs and on retained content, `request_input` of hosts,
  refusals of `resolve_request` (they change nothing). A run's id is taken where its lock is acquired. An adapter is assumed to
  pass on the error with which an interaction ends. The provider asks one thing at a time, as the mutex of the interaction has it.
* SessionPump: git itself; the quota readings a post-run step appends are one note like any other. A `stop` that fails while
  a session closes (`commands.rs:304-306`): `local_adapter/mod.rs:203-214` fails it only for a session the adapter does not
  hold, and only `stop` takes one out, once the closer has taken the live entry. Reads of `session.subscribe` that fail
  (`commands.rs:223-262`): before the registration they change nothing; a failed snapshot after it rejects a subscription
  that is in place all the same, and a consumer whose replay was truncated then has no snapshot to stand for it.
* CommandDispatch: session.create, close and the rest go through the same receipts and are not repeated. A receipt that cannot
  be parsed is read as none (`StoreFails`); a handler that panics (`dispatch.rs:223-232`) is rejected, like what `Accepted` shows,
  and the mutex it may leave poisoned is not shown.
* SessionLog: the fields of a snapshot other than status and cursor, and the opening of the database and its schema.
* Drivers: ACP's file requests, error and todo events, wording.
* ApprovalRecords: the ten seconds a reply may take, modes and path checks. ExecutionDrain: diagnostics, usage and quota facts.
* SetupTransaction: `dry_run`, file modes, digests (taken for the contents). QuotaWebhooks: the bodies of posts.
* McpHttp: a frame that does not fit is refused in one step, where the code adds, looks and takes back (`http.rs:104-108`): two
  frames that overlap there may both be refused where the model refuses one.
* MCP: the stdio transport and the decoding of event streams, the other requests the handler passes through, the sizes of lists.
* Model gateway: route tables that change during a resolution, environments of instances, headers and URLs, redirects, token
  counting, ids and sequence numbers, the prompt of the completions surface; keys from the environment, session cookies and the
  destination check; the permission repair after a rename, whose failure ends a mutation with an error though the file has it
  (`lock.rs:90-92`); the file grant of the Codex CLI and the login flows.

Whole components, with the reason, are listed in `PROJECT.json`. In short: wire protocols, catalogues, dashboards and
optimizers are conversions without state of their own; the walk of a terminal run over its candidates, the admission of the
model gateway, the CLI session adapter and the JSON-RPC bridge are next.

## Plan

Written: the modules above, in the order of their importance to a host: the session log and the runtimes on it, the live
session, the drivers, the commands, the managed run with its approvals, its drain and its readers, the MCP gateway, the
credentials and the model gateway.

Next, proving more: `StreamIsSound` of the four drivers (the run in the driver's flow is the session's active one), and a
`ServingIsHonest` whose tables, transcripts and frames are described by what they contain rather than computed.

Next, extending the model:

1. `RunCli`: the walk of a terminal run over its candidates, the launcher's loop and the precedence of selections, beside the
   run manager (`run_cli/auto.rs`, `launcher.rs`, `selection.rs`, `resolver.rs`).
2. `GatewayAdmission`: keys, permissions and limits read at two moments (`gateway/keys.rs`).
3. `ModelCatalog` and `IntegrationFile`: cached listings and the configuration file of integrations, as files of the user.
4. `Logins`: device and browser flows and the file grant of the Codex CLI (`codex_oauth.rs`, `copilot_oauth.rs`).
5. The CLI session adapter and the one-shot executions, as one more kind of SessionDrivers.

Small components share an instance so that the suite stays at a dozen runs; a refuted statement gives up its run when a
passing one needs the place, and stays in the table above.
