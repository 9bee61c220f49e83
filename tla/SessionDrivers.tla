--------------------------- MODULE SessionDrivers ---------------------------
(***************************************************************************)
(* A session of any of the four structured adapters, and what a host may   *)
(* rely on whichever it is.  Codex, ACP and OpenCode share the parts of    *)
(* LocalSession; a Claude session is of another make, with one queue for   *)
(* commands and lines, and gives the same variables a shape of its own.    *)
(***************************************************************************)
EXTENDS CodexDriver, AcpDriver, OpenCodeDriver

CONSTANT Decisions    \* what an answer to a Claude session may decide

ASSUME DecisionsAssumption == Decisions \subseteq {"allow", "cancel"}

Claude == INSTANCE ClaudeDriver WITH
    inbox <- mail, provider <- agent, MaxLines <- MaxLines["claude"],
    EarlyDeath <- "claude" \in EarlyDeath,
    AcksExpire <- {t \in Calls : <<"claude", t>> \in AcksExpire},
    Order <- {pair \in Calls \X Calls : <<"claude", pair[1], pair[2]>> \in Order}

Init ==
    \/ LocalInit
    \/ "claude" \in Kinds /\ kind = "claude" /\ commands = <<>> /\ Claude!Init

TypeOK == IF kind = "claude" THEN commands = <<>> /\ Claude!TypeOK ELSE LocalTypeOK

DriverStep == CodexStep \/ AcpStep \/ OpenCodeStep \/ TeardownStep

Next ==
    \/ /\ kind # "claude"
       /\ StartStep \/ HostStep \/ StopStep \/ DriverStep \/ AgentStep
    \/ kind = "claude" /\ Claude!Next /\ UNCHANGED <<kind, commands>>

Spec == Init /\ [][Next]_vars

(* The adapter's threads are scheduled and timeouts pass; hosts and the     *)
(* agent owe nothing.  Every thread has finitely much to do, so that it is  *)
(* enough that one of those with something to do moves.                     *)
AdapterStep ==
    \/ /\ kind # "claude"
       /\ StartStep \/ StopStep \/ DriverStep \/ EventArrives \/ \E t \in Calls : CallStep(t)
    \/ /\ kind = "claude" /\ UNCHANGED <<kind, commands>>
       /\ Claude!StartStep \/ Claude!StopStep \/ Claude!DriverStep
             \/ \E t \in Calls : Claude!CallStep(t)

FairSpec == Spec /\ WF_vars(AdapterStep)

-----------------------------------------------------------------------------
(* Properties.                                                              *)

At(whats) == {i \in DOMAIN out : out[i].what \in whats}

(* A sender whose acknowledgement was overdue has let go of the session,    *)
(* with its message still on the way (Claude and OpenCode).                 *)
LateSend == \E t \in Sends : call[t].at = "late"

(* Without a late send this holds; see the end of the module.               *)
SecondSendLoses ==
    \A i, j \in At({"started"}) : i < j =>
        \E n \in At(Results) : i < n /\ n < j /\ out[n].run = out[i].run

(* One run at a time, whoever raced to start one: a second run.started      *)
(* comes only after the first run's run.completed, as long as no sender     *)
(* that gave up let go of the session.                                      *)
OneRunAtATime == ~LateSend => SecondSendLoses

(* A run ends at most once, after it started, and, late sends apart, has    *)
(* ended by the time its driver is gone, whether the agent, a stop or a     *)
(* lost agent ended it.                                                     *)
RunsEndOnce ==
    /\ \A n \in At(Results) : \E i \in At({"started"}) : i < n /\ out[i].run = out[n].run
    /\ \A m, n \in At(Results) : out[m].run = out[n].run => m = n
    /\ driver = "exited" /\ ~LateSend =>
         \A i \in At({"started"}) : \E n \in At(Results) : out[n].run = out[i].run

(* session.created comes first, session.closed last, and an announced       *)
(* session whose driver is gone, or whose stop has returned, is closed.     *)
ClosedLast ==
    /\ \A i \in DOMAIN out : out[i].what = "created" <=> i = 1
    /\ \A i \in At({"closed"}) : i = Len(out)
    /\ (driver = "exited" /\ state.announced)
         \/ (stopper = "done" /\ driver = "exited") => At({"closed"}) # {}

(* A run the agent ended has no message left open; the Claude driver sees   *)
(* to it however a run ends.                                                *)
MessagesAreClosed ==
    driver = "serving" \/ kind = "claude" =>
        \A i \in At({"delta"}) : \A n \in At(Results) : i < n /\ out[n].run = out[i].run =>
            \E m \in At({"messageDone"}) : i < m /\ m < n


(* The first answer wins, against other hosts, the agent's other clients    *)
(* and the end of the run: one approval.resolved per request, and a host is *)
(* told its answer counted only when it is that one.                        *)
FirstAnswerWins ==
    /\ \A i, j \in At({"resolved"}) : out[i].of = out[j].of => i = j
    /\ \A t \in Answers : call[t].at = "ok" =>
         /\ \E i \in At({"resolved"}) : out[i].of = call[t].of
         /\ \A u \in Answers \ {t} : call[u].at = "ok" => call[u].of # call[t].of

(* What a run shows was said by its own prompt.                             *)
EventsAreTheirRuns ==
    \A i \in At({"delta"}) : out[i].run = out[i].of

(* A run nobody stopped ends cancelled only if a host named it.             *)
CancelHitsItsRun ==
    \A n \in At({"cancelled"}) :
        stopper # "idle" \/ \E t \in Cancels : call[t].of = out[n].run

(* A send that was refused or given up on never shows on the stream.        *)
FailedSendIsSilent ==
    \A t \in Sends : call[t].at = "failed" => \A i \in DOMAIN out : out[i].run # t

(* Runs are not mistaken for one another.  Codex names the turn in every    *)
(* message; an ACP agent has one pipe.                                      *)
RunsAreNotMixed ==
    /\ kind \in {"codex", "acp"} => EventsAreTheirRuns
    /\ kind = "codex" => CancelHitsItsRun /\ FailedSendIsSilent

(* The stream a host follows is sound: one run at a time and one ending for *)
(* each, messages closed before it, the session's close last, in all four   *)
(* adapters; and no run is mistaken for another where its agent can tell.   *)
StreamIsSound ==
    /\ TypeOK
    /\ OneRunAtATime /\ RunsEndOnce /\ ClosedLast /\ MessagesAreClosed
    /\ RunsAreNotMixed

(* No host waits forever, neither a caller nor the stopping thread: every   *)
(* call that was made returns.                                              *)
NobodyWaitsForever ==
    []<>(/\ stopper \in {"idle", "done"}
         /\ \A t \in Calls :
              call[t].at \notin {"checked", "posted", "clearing", "overdue", "storing"})

(* Statements of the source that do not hold of it.                         *)

(* send_turn "on a session fails while a run is in flight" and "a racing    *)
(* send loses": SecondSendLoses.  A Claude or OpenCode send whose           *)
(* acknowledgement is overdue clears the reservation while the queue still  *)
(* has its message; the next send passes beside it.                         *)

(* The teardown of every exit path: interrupted before closed, and only for *)
(* a connection that was lost.                                              *)
StopIsNoLoss == stopper # "idle" /\ At({"interrupted"}) # {} => ~agent.alive

(* set_selection: failures change nothing.                                  *)
FailuresChangeNothing ==
    (\E t \in Selects : call[t].at = "refused") /\ (\A t \in Selects : call[t].at # "ok")
        => state.selection = "old"
=============================================================================
