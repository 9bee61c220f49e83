------------------------------ MODULE AcpDriver ------------------------------
(***************************************************************************)
(* The driver of an Agent Client Protocol session.  A run begins when its  *)
(* prompt is on the wire and ends with the answer to that prompt; a        *)
(* cancellation names no run.                                              *)
(***************************************************************************)
EXTENDS LocalSession, SequencesExt

AcpTakesCommand(threads) == kind = "acp" /\ TakesCommand(threads)
AcpTakesMail(whats) == kind = "acp" /\ TakesMail(whats)

(* The prompt is written and announced; nobody to tell, so it is cancelled. *)
AcpPrompt ==
    /\ AcpTakesCommand(Sends)
    /\ \/ /\ agent.alive
          /\ flow' = [flow EXCEPT !.rpcs = @ \cup {By}, !.run = By, !.open = FALSE]
          /\ state' = [state EXCEPT !.starting = FALSE, !.active = By]
          /\ Emit(<<Event("started", By, call[By].of), Status("working")>>) /\ Replied(By, "ok")
          /\ agent' = [agent EXCEPT !.turns = Append(@, By), !.interrupted = @ \/ ~Heard(By)]
       \/ /\ ~agent.alive
          /\ state' = [state EXCEPT !.starting = FALSE] /\ Replied(By, "failed")
          /\ UNCHANGED <<flow, agent, out>>
    /\ UNCHANGED mail

AcpAnswer ==
    /\ AcpTakesCommand(Answers)
    /\ \/ /\ agent.alive
          /\ agent' = [agent EXCEPT !.open = @ \ {call[By].of}]
          /\ Emit(<<Event("resolved", None, call[By].of), Status("working")>>) /\ Replied(By, "ok")
       \/ ~agent.alive /\ Replied(By, "failed") /\ UNCHANGED <<agent, out>>
    /\ UNCHANGED <<state, mail, flow>>

(* cancel_pending_permissions: every parked request is answered cancelled.  *)
Retracted == [i \in 1 .. Cardinality(state.pending) |->
                Event("resolved", None, SetToSeq(state.pending)[i])]

(* session/cancel concerns whatever the agent works on.                     *)
AcpCancelTurn ==
    /\ AcpTakesCommand(Cancels)
    /\ \/ /\ agent.alive
          /\ agent' = [agent EXCEPT !.interrupted = @ \/ agent.turns # <<>>,
                                    !.open = @ \ state.pending]
          /\ Emit(Retracted) /\ state' = [state EXCEPT !.pending = {}] /\ Replied(By, "ok")
       \/ ~agent.alive /\ Replied(By, "failed") /\ UNCHANGED <<state, agent, out>>
    /\ UNCHANGED <<mail, flow>>

(* session/set_config_option, and its answer.                               *)
AcpSetModel ==
    /\ AcpTakesCommand(Selects)
    /\ \/ /\ agent.alive
          /\ flow' = [flow EXCEPT !.rpcs = @ \cup {By}]
          /\ agent' = [agent EXCEPT !.config = @ \cup {By}] /\ UNCHANGED call
       \/ ~agent.alive /\ Replied(By, "failed") /\ UNCHANGED <<flow, agent>>
    /\ UNCHANGED <<state, mail, out>>

AcpConfigAnswered ==
    /\ AcpTakesMail({"configured", "misconfigured"})
    /\ flow' = [flow EXCEPT !.rpcs = @ \ {Letter.of}]
    /\ Replied(Letter.of, IF Letter.what = "configured" THEN "ok" ELSE "refused")
    /\ UNCHANGED <<state, agent, out>>

(* session/update has no run of its own: it is the run in flight's.         *)
AcpUpdate ==
    /\ AcpTakesMail({"delta"})
    /\ \/ /\ flow.run # None
          /\ flow' = [flow EXCEPT !.open = TRUE] /\ Emit(<<Event("delta", flow.run, Letter.run)>>)
       \/ flow.run = None /\ UNCHANGED <<flow, out>>
    /\ UNCHANGED <<state, call, agent>>

AcpPermission ==
    /\ AcpTakesMail({"request"})
    /\ \/ /\ flow.run # None
          /\ state' = [state EXCEPT !.pending = @ \cup {Letter.of}] /\ Emit(Offered(Letter.of))
          /\ UNCHANGED agent
       \/ /\ flow.run = None
          /\ agent' = [agent EXCEPT !.open = @ \ {Letter.of}] /\ UNCHANGED <<state, out>>
    /\ UNCHANGED <<flow, call>>

(* The answer to the prompt ends the run; what it asked is answered first.  *)
AcpPromptDone ==
    /\ AcpTakesMail({"done"}) /\ Letter.run \in flow.rpcs
    /\ Emit(Retracted \o RunEnds(flow.run, Letter.of) \o IdleUnlessClosed)
    /\ flow' = [flow EXCEPT !.rpcs = @ \ {Letter.run}, !.run = None, !.open = FALSE]
    /\ state' = [state EXCEPT !.active = None, !.pending = {}]
    /\ UNCHANGED <<call, agent>>

AcpStep ==
    \/ AcpPrompt \/ AcpAnswer \/ AcpCancelTurn \/ AcpSetModel
    \/ AcpConfigAnswered \/ AcpUpdate \/ AcpPermission \/ AcpPromptDone
=============================================================================
