----------------------------- MODULE CodexDriver -----------------------------
(***************************************************************************)
(* The driver of a Codex session.  A run begins when the app-server answers *)
(* turn/start; a turn whose sender gave up waiting is an orphan: it is     *)
(* interrupted and never announced.  What the driver does with one input   *)
(* is one action.                                                          *)
(***************************************************************************)
EXTENDS LocalSession

CodexTakesCommand(threads) == kind = "codex" /\ TakesCommand(threads)
CodexTakesMail(whats) == kind = "codex" /\ TakesMail(whats)

(* turn/start is written; the reply waits for the app-server.               *)
CodexStartTurn ==
    /\ CodexTakesCommand(Sends)
    /\ \/ /\ agent.alive
          /\ flow' = [flow EXCEPT !.rpcs = @ \cup {By}]
          /\ agent' = [agent EXCEPT !.offered = Append(@, By)]
          /\ UNCHANGED <<state, call>>
       \/ /\ ~agent.alive
          /\ state' = [state EXCEPT !.starting = FALSE] /\ Replied(By, "failed")
          /\ UNCHANGED <<flow, agent>>
    /\ UNCHANGED <<mail, out>>

(* The answer to turn/start: the run is registered, the sender told, the    *)
(* start announced; with nobody to tell it becomes an orphan.               *)
CodexTurnAccepted ==
    /\ CodexTakesMail({"accepted"}) /\ Letter.run \in flow.rpcs
    /\ LET run == Letter.run
           waiting == [flow EXCEPT !.rpcs = @ \ {run}]
       IN \/ /\ Heard(run)
             /\ flow' = [waiting EXCEPT !.run = run, !.open = FALSE]
             /\ state' = [state EXCEPT !.starting = FALSE, !.active = run]
             /\ Emit(<<Event("started", run, call[run].of), Status("working")>>)
             /\ Replied(run, "ok") /\ UNCHANGED agent
          \/ /\ ~Heard(run)
             /\ flow' = [waiting EXCEPT !.orphans = @ \cup {run}]
             /\ state' = [state EXCEPT !.starting = FALSE, !.active = None]
             /\ agent' = [agent EXCEPT !.interrupted = @ \/ (agent.turns # <<>> /\ Turn = run)]
             /\ UNCHANGED <<call, out>>

CodexTurnRefused ==
    /\ CodexTakesMail({"refused"}) /\ Letter.run \in flow.rpcs
    /\ flow' = [flow EXCEPT !.rpcs = @ \ {Letter.run}]
    /\ state' = [state EXCEPT !.starting = FALSE] /\ Replied(Letter.run, "failed")
    /\ UNCHANGED <<agent, out>>

(* An answer: the wire, approval.resolved, working.                         *)
CodexAnswer ==
    /\ CodexTakesCommand(Answers)
    /\ \/ /\ agent.alive
          /\ agent' = [agent EXCEPT !.open = @ \ {call[By].of}]
          /\ Emit(<<Event("resolved", None, call[By].of), Status("working")>>) /\ Replied(By, "ok")
       \/ ~agent.alive /\ Replied(By, "failed") /\ UNCHANGED <<agent, out>>
    /\ UNCHANGED <<state, mail, flow>>

(* Mutant: the interrupt names no turn. *)
CodexInterruptsAny ==
    /\ CodexTakesCommand(Cancels)
    /\ \/ /\ agent.alive /\ Replied(By, "ok")
          /\ agent' = [agent EXCEPT !.interrupted = @ \/ agent.turns # <<>>]
       \/ ~agent.alive /\ Replied(By, "failed") /\ UNCHANGED agent
    /\ UNCHANGED <<state, mail, flow, out>>

(* turn/interrupt names its turn.                                           *)
CodexInterrupt ==
    /\ CodexTakesCommand(Cancels)
    /\ \/ /\ agent.alive /\ Replied(By, "ok")
          /\ agent' = [agent EXCEPT !.interrupted =
                         @ \/ (agent.turns # <<>> /\ Turn = call[By].of)]
       \/ ~agent.alive /\ Replied(By, "failed") /\ UNCHANGED agent
    /\ UNCHANGED <<state, mail, flow, out>>

(* A request is offered inside a run and rejected outside of one.           *)
CodexServerRequest ==
    /\ CodexTakesMail({"request"})
    /\ \/ /\ flow.run # None
          /\ state' = [state EXCEPT !.pending = @ \cup {Letter.of}] /\ Emit(Offered(Letter.of))
          /\ UNCHANGED agent
       \/ /\ flow.run = None
          /\ agent' = [agent EXCEPT !.open = @ \ {Letter.of}] /\ UNCHANGED <<state, out>>
    /\ UNCHANGED <<flow, call>>

(* Notifications: the first of an orphan is dropped, the others count only  *)
(* for the run they name.                                                   *)
CodexOrphanNotified ==
    /\ CodexTakesMail({"delta", "done"}) /\ Letter.run \in flow.orphans
    /\ flow' = [flow EXCEPT !.orphans = @ \ {Letter.run}]
    /\ UNCHANGED <<state, call, agent, out>>

CodexNoise ==
    /\ CodexTakesMail({"delta", "done"})
    /\ Letter.run \notin flow.orphans /\ Letter.run # flow.run
    /\ UNCHANGED <<state, flow, call, agent, out>>

CodexDelta ==
    /\ CodexTakesMail({"delta"}) /\ Letter.run \notin flow.orphans /\ Letter.run = flow.run
    /\ flow' = [flow EXCEPT !.open = TRUE] /\ Emit(<<Event("delta", flow.run, Letter.run)>>)
    /\ UNCHANGED <<state, call, agent>>

(* turn/completed retracts what the turn asked.                             *)
CodexTurnCompleted ==
    /\ CodexTakesMail({"done"}) /\ Letter.run \notin flow.orphans /\ Letter.run = flow.run
    /\ Emit(RunEnds(flow.run, Letter.of) \o IdleUnlessClosed)
    /\ flow' = [flow EXCEPT !.run = None, !.open = FALSE]
    /\ state' = [state EXCEPT !.active = IF @ = flow.run THEN None ELSE @, !.pending = {}]
    /\ UNCHANGED <<call, agent>>

CodexStep ==
    \/ CodexStartTurn \/ CodexTurnAccepted \/ CodexTurnRefused \/ CodexAnswer \/ CodexInterrupt
    \/ CodexServerRequest \/ CodexOrphanNotified \/ CodexNoise \/ CodexDelta \/ CodexTurnCompleted
=============================================================================
