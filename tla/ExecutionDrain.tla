--------------------------- MODULE ExecutionDrain ---------------------------
(***************************************************************************)
(* RuntimeExecutionAdapter: one legacy execute() over one runtime session. *)
(* It creates the session, subscribes, starts the run and drains the       *)
(* consumer's channel until the run is over, while the owner may cancel    *)
(* and the deadline may pass at any moment.  The agent is the runtime and  *)
(* its driver as the channel shows them: whatever it says, in whatever     *)
(* order a run allows, and it may stay silent for good, cancelled or not.  *)
(* A dispatch is one step.  Diagnostics, usage and quota facts are left    *)
(* out, and so are the events of other runs and retryable errors, which    *)
(* the loop passes over.                                                   *)
(***************************************************************************)
EXTENDS Naturals, Sequences

CONSTANTS MaxSaid,      \* bound on what the agent says
          MaxAsked      \* bound on the approvals it asks for

ASSUME DrainBoundsAssumption == MaxSaid \in Nat /\ MaxAsked \in Nat

VARIABLES drain,        \* run, watch, answer and the guard
          agent,        \* the session and its run
          channel,      \* the consumer's receiver
          control       \* the cancellation token, the deadline, the settle time

drainVars == <<drain, agent, channel, control>>

Finals == {"success", "failed", "cancelled"}
AgentEvents == {"delta", "approval", "fatal", "closed"} \cup Finals
DrainEnds == {"error", "succeeded", "failed", "cancelled", "timeout"}

DrainTypeOK ==
    /\ drain \in [at : {"create", "subscribe", "start", "loop", "receive", "asking", "close",
                         "over"},
                  cancelSent : BOOLEAN, output : 0 .. MaxSaid,
                  asks : 0 .. MaxAsked, result : DrainEnds \cup {"none"}]
    /\ agent \in [session : {"none", "open", "closed"}, told : BOOLEAN,
                  run : {"none", "running", "waiting", "over"}, said : 0 .. MaxSaid,
                  asked : 0 .. MaxAsked, end : Finals \cup {"none", "fatal", "closed"}]
    /\ channel \in Seq(AgentEvents)
    /\ control \in [cancelled : BOOLEAN, expired : BOOLEAN, settled : BOOLEAN]

DrainInit ==
    /\ drain = [at |-> "create", cancelSent |-> FALSE, output |-> 0,
                asks |-> 0, result |-> "none"]
    /\ agent = [session |-> "none", told |-> FALSE, run |-> "none", said |-> 0,
                asked |-> 0, end |-> "none"]
    /\ channel = << >>
    /\ control = [cancelled |-> FALSE, expired |-> FALSE, settled |-> FALSE]

-----------------------------------------------------------------------------
(* The adapter.                                                             *)

Drains(at) == drain.at = at
RunIsOn == agent.run \in {"running", "waiting"}

(* Every way out of run drops the guard, once there is a session.           *)
Leave(at, result) == drain' = [drain EXCEPT !.at = at, !.result = result]

SessionCreate ==
    /\ Drains("create")
    /\ \/ drain' = [drain EXCEPT !.at = "subscribe"] /\ agent' = [agent EXCEPT !.session = "open"]
       \/ Leave("over", "error") /\ UNCHANGED agent
    /\ UNCHANGED <<channel, control>>

(* The guard is made when open_session has returned: a subscription that    *)
(* the store fails leaves the session open.                                 *)
SessionSubscribe ==
    /\ Drains("subscribe")
    /\ drain' = [drain EXCEPT !.at = "start"] \/ Leave("over", "error")
    /\ UNCHANGED <<agent, channel, control>>

start_run ==
    /\ Drains("start")
    /\ \/ /\ agent.session = "open"
          /\ drain' = [drain EXCEPT !.at = "loop"] /\ agent' = [agent EXCEPT !.run = "running"]
       \/ Leave("close", "error") /\ UNCHANGED agent
    /\ UNCHANGED <<channel, control>>

(* Mutant: the outcome the agent reports wins over the cancellation. *)
finish_as_reported(cancelled, timedOut, outcome) ==
    IF timedOut THEN "timeout"
    ELSE IF outcome = "success" THEN "succeeded"
    ELSE IF cancelled \/ outcome = "cancelled" THEN "cancelled" ELSE "failed"

(* What the run came to: local facts win over what the agent reports.       *)
finish(cancelled, timedOut, outcome) ==
    IF timedOut THEN "timeout"
    ELSE IF cancelled \/ outcome = "cancelled" THEN "cancelled"
    ELSE IF outcome = "success" THEN "succeeded" ELSE "failed"

(* run.cancel: an agent whose run is over answers with an error.            *)
cancel_run == agent' = [agent EXCEPT !.told = @ \/ RunIsOn]

(* The top of the loop: the run is told to stop, once, and given a time to  *)
(* settle.                                                                  *)
Watch ==
    /\ Drains("loop")
    /\ CASE ~drain.cancelSent /\ (control.expired \/ control.cancelled) ->
                drain' = [drain EXCEPT !.at = "receive", !.cancelSent = TRUE] /\ cancel_run
         [] drain.cancelSent /\ control.settled ->
                Leave("close", finish(TRUE, control.expired, "none")) /\ UNCHANGED agent
         [] OTHER -> drain' = [drain EXCEPT !.at = "receive"] /\ UNCHANGED agent
    /\ UNCHANGED <<channel, control>>

recv_timeout ==
    /\ Drains("receive") /\ channel = << >>
    /\ drain' = [drain EXCEPT !.at = "loop"]
    /\ UNCHANGED <<agent, channel, control>>

Receive ==
    /\ Drains("receive") /\ channel # << >>
    /\ LET e == Head(channel)
       IN CASE e = "delta" -> drain' = [drain EXCEPT !.at = "loop", !.output = @ + 1]
            [] e = "approval" -> drain' = [drain EXCEPT !.at = "asking", !.asks = @ + 1]
            [] OTHER -> Leave("close", finish(drain.cancelSent, control.expired,
                                              IF e \in Finals THEN e ELSE "none"))
    /\ channel' = Tail(channel)
    /\ UNCHANGED <<agent, control>>

(* The owner's handler returns with an answer, which loses if the agent no  *)
(* longer waits for this one ...                                            *)
OwnerAnswers ==
    /\ Drains("asking")
    /\ drain' = [drain EXCEPT !.at = "loop"]
    /\ agent' = [agent EXCEPT !.run = IF @ = "waiting" /\ drain.asks = agent.asked
                                      THEN "running" ELSE @]
    /\ UNCHANGED <<channel, control>>

(* ... or with an error: the run was cancelled, is out of time, or the      *)
(* owner failed.                                                            *)
OwnerGivesUp ==
    /\ Drains("asking")
    /\ Leave("close", "error") /\ cancel_run
    /\ UNCHANGED <<channel, control>>

(* SessionGuard: session.close ends whatever still runs.                    *)
close_session ==
    /\ Drains("close")
    /\ drain' = [drain EXCEPT !.at = "over"]
    /\ agent' = [agent EXCEPT !.session = "closed", !.run = IF RunIsOn THEN "over" ELSE @]
    /\ UNCHANGED <<channel, control>>

DrainStep ==
    \/ SessionCreate \/ SessionSubscribe \/ start_run \/ Watch \/ recv_timeout \/ Receive
    \/ close_session
    \/ (control.cancelled \/ control.expired) /\ OwnerGivesUp

-----------------------------------------------------------------------------
(* The agent, the owner and the clock.                                      *)

Posts(e) == channel' = Append(channel, e)

AgentSays ==
    /\ agent.run = "running" /\ agent.said < MaxSaid
    /\ agent' = [agent EXCEPT !.said = @ + 1]
    /\ Posts("delta") /\ UNCHANGED <<drain, control>>

AgentAsks ==
    /\ agent.run = "running" /\ agent.asked < MaxAsked
    /\ agent' = [agent EXCEPT !.run = "waiting", !.asked = @ + 1]
    /\ Posts("approval") /\ UNCHANGED <<drain, control>>

(* Another consumer of the session answers.                                 *)
OtherAnswers ==
    /\ agent.run = "waiting"
    /\ agent' = [agent EXCEPT !.run = "running"]
    /\ UNCHANGED <<drain, channel, control>>

(* The run ends, by itself or because it was told to, and a told agent may  *)
(* still report success; a fatal error stands for an ending.                *)
AgentEnds(e) ==
    /\ agent.run = "running" \/ (agent.told /\ agent.run = "waiting")
    /\ agent' = [agent EXCEPT !.run = "over", !.end = e]
    /\ Posts(e) /\ UNCHANGED <<drain, control>>

(* The session is lost, in a run or before one.                             *)
AgentDies ==
    /\ agent.session = "open"
    /\ agent' = [agent EXCEPT !.session = "closed", !.run = IF RunIsOn THEN "over" ELSE @,
                              !.end = IF RunIsOn THEN "closed" ELSE @]
    /\ Posts("closed") /\ UNCHANGED <<drain, control>>

TokenCancelled ==
    /\ ~control.cancelled /\ drain.at # "over"
    /\ control' = [control EXCEPT !.cancelled = TRUE]
    /\ UNCHANGED <<drain, agent, channel>>

DeadlinePasses ==
    /\ ~control.expired /\ drain.at \in {"loop", "receive", "asking"}
    /\ control' = [control EXCEPT !.expired = TRUE]
    /\ UNCHANGED <<drain, agent, channel>>

(* CANCEL_SETTLE after the run was told to stop.                            *)
SettlePasses ==
    /\ drain.cancelSent /\ ~control.settled
    /\ control' = [control EXCEPT !.settled = TRUE]
    /\ UNCHANGED <<drain, agent, channel>>

DrainNext ==
    \/ DrainStep \/ OwnerAnswers \/ OwnerGivesUp
    \/ AgentSays \/ AgentAsks \/ OtherAnswers \/ AgentDies
    \/ \E e \in Finals \cup {"fatal"} : AgentEnds(e)
    \/ TokenCancelled \/ DeadlinePasses \/ SettlePasses

-----------------------------------------------------------------------------
(* Properties.                                                              *)

(* execute reports what happened: success only of a run that succeeded,     *)
(* whose text it has in full and that nobody had told to stop; a cancelled  *)
(* run was told to stop, or said it was; a timeout follows the deadline; a  *)
(* failure is no success that was overlooked.  When it returns, the session *)
(* it made is closed, a failed subscription excepted.                       *)
DrainIsHonest ==
    /\ DrainTypeOK
    /\ drain.result = "succeeded" =>
           agent.end = "success" /\ drain.output = agent.said /\ ~drain.cancelSent
    /\ drain.result = "cancelled" => drain.cancelSent \/ agent.end = "cancelled"
    /\ drain.result = "timeout" => control.expired
    /\ drain.result = "failed" => agent.end \in {"failed", "fatal", "closed"}
    /\ Drains("over") => agent.session # "open" \/ agent.run = "none"

(* Statements of the source that do not hold.                               *)

(* execution_adapter.rs: session.close always runs before return.           *)
SessionAlwaysCloses == Drains("over") => agent.session # "open"

(* A run whose agent is gone returns: not while it waits for the owner's    *)
(* answer, which nobody takes back.                                         *)
AgentEndEndsRun == agent.run = "over" ~> Drains("over")
=============================================================================
