--------------------------- MODULE CommandDispatch ---------------------------
(***************************************************************************)
(* The seam every command flows through: the receipt log that answers a    *)
(* retry, and around it the two commands whose double execution a host     *)
(* would notice most, run.start and approval.answer.  Deliveries of one    *)
(* command may overlap, the process may crash, the receipts survive it.    *)
(*                                                                         *)
(* The adapter is abstracted to what ClaudeDriver says of it: one run at a *)
(* time, the first answer takes the request, its acknowledgement may come  *)
(* after approval.resolved is on the stream, or not in time.               *)
(***************************************************************************)
EXTENDS Naturals

CONSTANTS Calls,        \* deliveries: one thread in `dispatch` each
          Commands,     \* command ids
          Starts,       \* those that are run.start; the others answer the request
          Consumers,    \* hosts
          CommandOf,    \* CommandOf[t]: the command t delivers
          ConsumerOf,   \* ConsumerOf[t]: the consumer it comes from
          Crashes,      \* the process may crash
          AcksExpire,   \* the adapter's acknowledgement may come too late
          StoreFails,   \* receipts may be unreadable, or fail to be written
          None          \* no receipt, no consumer: the placeholder "adapter"

ASSUME CommandsAssumption == CommandOf \in [Calls -> Commands] /\ Starts \subseteq Commands
ASSUME ConsumersAssumption == ConsumerOf \in [Calls -> Consumers] /\ None \notin Consumers
ASSUME FaultsAssumption == {Crashes, AcksExpire, StoreFails} \subseteq BOOLEAN

VARIABLES up,           \* the process is running and drives the session
          receipts,     \* the commands table
          call,         \* the delivering threads
          answers,      \* Inner.answers at the request: the registered consumer
          pending,      \* the adapter holds the request
          stream,       \* where its approval.resolved is
          answeredBy,   \* the log's approval.resolved: whom it names
          running,      \* the adapter has a run in flight
          effects,      \* history: the deliveries that changed something
          winner        \* history: the delivery whose answer was taken

sessionVars == <<answers, pending, stream, answeredBy, running>>
vars == <<up, receipts, call, sessionVars, effects, winner>>

Receipt == [by : Calls, ok : BOOLEAN]
ASSUME NoneAssumption == None \notin Calls \cup Receipt

Places == {"idle", "missed", "registered", "waiting", "refused", "executed", "done", "lost"}
CallState == [at : Places, ok : BOOLEAN, retry : BOOLEAN, got : Receipt \cup {None}]

TypeOK ==
    /\ up \in BOOLEAN /\ pending \in BOOLEAN /\ running \in BOOLEAN
    /\ receipts \in [Commands -> Receipt \cup {None}]
    /\ call \in [Calls -> CallState]
    /\ answers \in Consumers \cup {None} /\ answeredBy \in Consumers \cup {None}
    /\ stream \in {"empty", "queued", "emitted", "recorded"}
    /\ effects \subseteq Calls /\ winner \in Calls \cup {None}

(* A session with an idle adapter and one pending request.                  *)
Init ==
    /\ up = TRUE
    /\ receipts = [c \in Commands |-> None]
    /\ call = [t \in Calls |-> [at |-> "idle", ok |-> FALSE, retry |-> FALSE, got |-> None]]
    /\ answers = None /\ pending = TRUE /\ stream = "empty" /\ answeredBy = None
    /\ running = FALSE /\ effects = {} /\ winner = None

-----------------------------------------------------------------------------
(* The receipt log.                                                         *)

(* Some delivery of the command has returned: from now on one is a retry.   *)
Returned(c) == \E u \in Calls : CommandOf[u] = c /\ call[u].at = "done"

(* dispatch: a recorded receipt is the answer; a failing read is a miss.    *)
Lookup(t) ==
    /\ up /\ call[t].at = "idle"
    /\ LET c == CommandOf[t]
           from == [call[t] EXCEPT !.retry = Returned(c)]
       IN \/ /\ receipts[c] # None
             /\ call' = [call EXCEPT ![t] = [from EXCEPT !.at = "done", !.got = receipts[c]]]
          \/ /\ receipts[c] = None \/ StoreFails
             /\ call' = [call EXCEPT ![t] = [from EXCEPT !.at = "missed"]]
    /\ UNCHANGED <<up, receipts, sessionVars, effects, winner>>

(* Mutants: a rejection is not recorded; a later execution overwrites.      *)
RecordAccepted(t) ==
    /\ up /\ call[t].at = "executed"
    /\ LET mine == [by |-> t, ok |-> call[t].ok]
       IN /\ receipts' = [receipts EXCEPT ![CommandOf[t]] =
                 IF @ = None /\ mine.ok THEN mine ELSE @]
          /\ call' = [call EXCEPT ![t] = [@ EXCEPT !.at = "done", !.got = mine]]
    /\ UNCHANGED <<up, sessionVars, effects, winner>>
RecordLatest(t) ==
    /\ up /\ call[t].at = "executed"
    /\ LET mine == [by |-> t, ok |-> call[t].ok]
       IN /\ receipts' = [receipts EXCEPT ![CommandOf[t]] = mine]
          /\ call' = [call EXCEPT ![t] = [@ EXCEPT !.at = "done", !.got = mine]]
    /\ UNCHANGED <<up, sessionVars, effects, winner>>

(* record_command inserts or ignores; the caller gets its own outcome.      *)
Record(t) ==
    /\ up /\ call[t].at = "executed"
    /\ LET mine == [by |-> t, ok |-> call[t].ok]
       IN /\ \/ receipts' = [receipts EXCEPT ![CommandOf[t]] = IF @ = None THEN mine ELSE @]
             \/ StoreFails /\ UNCHANGED receipts
          /\ call' = [call EXCEPT ![t] = [@ EXCEPT !.at = "done", !.got = mine]]
    /\ UNCHANGED <<up, sessionVars, effects, winner>>

-----------------------------------------------------------------------------
(* run.start.                                                               *)

Executed(t, ok) == call' = [call EXCEPT ![t] = [@ EXCEPT !.at = "executed", !.ok = ok]]

(* What the adapter took is accepted, unless the head of the log cannot be  *)
(* read for the receipt: a rejection then, of what was done.                *)
Accepted(t) == \E ok \in BOOLEAN : Executed(t, ok)

RunStart(t) ==
    /\ up /\ call[t].at = "missed" /\ CommandOf[t] \in Starts
    /\ \/ ~running /\ running' = TRUE /\ effects' = effects \cup {t} /\ Accepted(t)
       \/ running /\ Executed(t, FALSE) /\ UNCHANGED <<running, effects>>
    /\ UNCHANGED <<up, receipts, answers, pending, stream, answeredBy, winner>>

RunEnds ==
    /\ up /\ running /\ running' = FALSE
    /\ UNCHANGED <<up, receipts, call, answers, pending, stream, answeredBy, effects, winner>>

-----------------------------------------------------------------------------
(* approval.answer.                                                         *)

(* The consumer is registered before the adapter has decided.               *)
Register(t) ==
    /\ up /\ call[t].at = "missed" /\ CommandOf[t] \notin Starts
    /\ answers' = IF answers = None THEN ConsumerOf[t] ELSE answers
    /\ call' = [call EXCEPT ![t].at = "registered"]
    /\ UNCHANGED <<up, receipts, pending, stream, answeredBy, running, effects, winner>>

(* Mutant: the request stays with the adapter. *)
AdapterKeepsRequest(t) ==
    /\ up /\ call[t].at = "registered"
    /\ \/ /\ pending /\ stream' = "queued"
          /\ effects' = effects \cup {t} /\ winner' = t
          /\ call' = [call EXCEPT ![t].at = "waiting"]
       \/ /\ ~pending /\ call' = [call EXCEPT ![t].at = "refused"]
          /\ UNCHANGED <<stream, effects, winner>>
    /\ UNCHANGED <<up, receipts, answers, pending, answeredBy, running>>

(* The adapter: the first answer takes the request.                         *)
AdapterAnswer(t) ==
    /\ up /\ call[t].at = "registered"
    /\ \/ /\ pending /\ pending' = FALSE /\ stream' = "queued"
          /\ effects' = effects \cup {t} /\ winner' = t
          /\ call' = [call EXCEPT ![t].at = "waiting"]
       \/ /\ ~pending /\ call' = [call EXCEPT ![t].at = "refused"]
          /\ UNCHANGED <<pending, stream, effects, winner>>
    /\ UNCHANGED <<up, receipts, answers, answeredBy, running>>

(* The driver writes the answer and emits, or cannot write it.              *)
DriverAnswers ==
    /\ up /\ stream = "queued"
    /\ \/ stream' = "emitted" /\ UNCHANGED call
       \/ stream' = "empty" /\ call' = [call EXCEPT ![winner].at = IF @ = "waiting" THEN "refused" ELSE @]
    /\ UNCHANGED <<up, receipts, answers, pending, answeredBy, running, effects, winner>>

Acknowledged(t) ==
    /\ up /\ call[t].at = "waiting" /\ stream \in {"emitted", "recorded"}
    /\ Accepted(t)
    /\ UNCHANGED <<up, receipts, sessionVars, effects, winner>>

(* WRITE_ACK_TIMEOUT: the answer may still be on its way.                   *)
AckExpires(t) ==
    /\ AcksExpire /\ up /\ call[t].at = "waiting"
    /\ call' = [call EXCEPT ![t].at = "refused"]
    /\ UNCHANGED <<up, receipts, sessionVars, effects, winner>>

(* Mutant: a loser removes whatever is registered. *)
DeregisterAnyone(t) ==
    /\ up /\ call[t].at = "refused"
    /\ answers' = None
    /\ Executed(t, FALSE)
    /\ UNCHANGED <<up, receipts, pending, stream, answeredBy, running, effects, winner>>

(* The error path: only a registration of this consumer is removed.         *)
Deregister(t) ==
    /\ up /\ call[t].at = "refused"
    /\ answers' = IF answers = ConsumerOf[t] THEN None ELSE answers
    /\ Executed(t, FALSE)
    /\ UNCHANGED <<up, receipts, pending, stream, answeredBy, running, effects, winner>>

(* Mutant: the delivery is named, not the consumer. *)
PumpStampsCall ==
    /\ up /\ stream = "emitted"
    /\ stream' = "recorded" /\ answeredBy' = winner /\ answers' = None
    /\ UNCHANGED <<up, receipts, call, pending, running, effects, winner>>

(* The pump stamps the registered consumer onto approval.resolved.          *)
PumpStamps ==
    /\ up /\ stream = "emitted"
    /\ stream' = "recorded" /\ answeredBy' = answers /\ answers' = None
    /\ UNCHANGED <<up, receipts, call, pending, running, effects, winner>>

-----------------------------------------------------------------------------

Unfinished == {t \in Calls : call[t].at \notin {"idle", "done", "lost"}}

(* The receipts and the log survive; a host may deliver a lost command      *)
(* again.                                                                   *)
Crash ==
    /\ Crashes /\ up /\ up' = FALSE
    /\ call' = [t \in Calls |-> IF t \in Unfinished THEN [call[t] EXCEPT !.at = "lost"] ELSE call[t]]
    /\ answers' = None /\ pending' = FALSE /\ running' = FALSE
    /\ stream' = IF stream = "recorded" THEN stream ELSE "empty"
    /\ UNCHANGED <<receipts, answeredBy, effects, winner>>

(* The session was claimed and continued: the adapter is fresh.             *)
Restart ==
    /\ ~up /\ up' = TRUE
    /\ UNCHANGED <<receipts, call, sessionVars, effects, winner>>

CallStep(t) ==
    \/ Record(t) \/ RunStart(t)
    \/ Register(t) \/ AdapterAnswer(t) \/ Acknowledged(t) \/ AckExpires(t) \/ Deregister(t)

Next ==
    \/ \E t \in Calls : Lookup(t) \/ CallStep(t)
    \/ DriverAnswers \/ PumpStamps \/ RunEnds
    \/ Crash \/ Restart

Spec == Init /\ [][Next]_vars

-----------------------------------------------------------------------------
(* Properties.                                                              *)

(* A retry, a delivery that began when another one had returned, changes    *)
(* nothing and gets the recorded receipt, whatever overlapped before and    *)
(* also when the process has crashed since (the store does not fail).       *)
RetryIsQuiet ==
    \A t \in Calls : call[t].retry =>
        /\ t \notin effects
        /\ call[t].at = "done" /\ call[t].got = receipts[CommandOf[t]]

(* A recorded receipt stands, though two overlapping executions record.     *)
ReceiptStands ==
    [][\A c \in Commands : receipts[c] # None => receipts'[c] = receipts[c]]_vars

(* The request is answered once, however many deliveries race: one takes    *)
(* it, and only that one is ever told so.                                   *)
AnsweredOnce ==
    /\ \A t, u \in effects : CommandOf[t] \notin Starts /\ CommandOf[u] \notin Starts => t = u
    /\ \A t \in Calls : CommandOf[t] \notin Starts /\ call[t].at = "done" /\ call[t].got.by = t =>
           (call[t].got.ok => t = winner)

CreditIsTaken ==
    /\ stream \in {"queued", "emitted"}
    /\ answers = ConsumerOf[winner] /\ answers' # answers
LeavesRefusal(t) == call[t].at = "refused" /\ call'[t].at # "refused"

(* The comment in approval_answer, "keep the winner's attribution": once    *)
(* the winner's consumer is the registered one, it stays so until the log   *)
(* names it, whatever other consumers lose; only a crash or a refused       *)
(* delivery of the same consumer takes the registration away.               *)
WinnerKeepsCredit ==
    [][CreditIsTaken =>
         \/ stream' = "recorded" /\ answeredBy' = ConsumerOf[winner]
         \/ ~up'
         \/ \E t \in Calls : ConsumerOf[t] = ConsumerOf[winner] /\ LeavesRefusal(t)
      ]_vars

(* Statements of the source and the docs that do not hold.                  *)

(* docs/specs/agent-runtime-library.md: answeredBy keeps every consumer's   *)
(* UI honest.                                                               *)
AnsweredByIsHonest == stream = "recorded" => answeredBy = ConsumerOf[winner]

(* dispatch.rs: an ambiguous delivery never double-executes.                *)
AtMostOnce == \A t, u \in effects : CommandOf[t] = CommandOf[u] => t = u
=============================================================================
