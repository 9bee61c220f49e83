--------------------------- MODULE OpenCodeDriver ---------------------------
(***************************************************************************)
(* The driver of an OpenCode session.  A prompt is a POST of its own whose *)
(* answer ends the run, events come on another connection, and neither     *)
(* names the run to the driver; answers and aborts are awaited in the loop.*)
(***************************************************************************)
EXTENDS LocalSession

OpenCodeTakesCommand(threads) == kind = "opencode" /\ TakesCommand(threads)
OpenCodeTakesMail(whats) == kind = "opencode" /\ TakesMail(whats)

(* emit_status: only a status that differs from the last one.               *)
Restated(status) == IF flow.status = status THEN <<>> ELSE <<Status(status)>>

(* The prompt is dispatched and announced; a selection or an address that   *)
(* cannot be spelled refuses it.                                            *)
OpenCodeStartPrompt ==
    /\ OpenCodeTakesCommand(Sends)
    /\ \/ /\ state' = [state EXCEPT !.starting = FALSE, !.active = By]
          /\ flow' = [NoFlow EXCEPT !.run = By, !.status = "working"]
          /\ Emit(<<Event("started", By, call[By].of), Status("working")>>) /\ Replied(By, "ok")
          /\ \/ /\ agent.alive /\ UNCHANGED mail
                /\ agent' = [agent EXCEPT !.turns = Append(@, By)]
             \/ /\ ~agent.alive /\ UNCHANGED agent
                /\ mail' = Append(mail, Mail("done", By, "failed"))
       \/ /\ state' = [state EXCEPT !.starting = FALSE] /\ Replied(By, "failed")
          /\ UNCHANGED <<flow, out, agent, mail>>

Echo(q) == IF agent.reading THEN <<Mail("replied", None, q)>> ELSE <<>>

(* The answer is posted; the server refuses one it no longer waits for, and *)
(* tells everybody of one it took.                                          *)
OpenCodeAnswer ==
    /\ OpenCodeTakesCommand(Answers)
    /\ \/ /\ agent.alive /\ call[By].of \in agent.open
          /\ agent' = [agent EXCEPT !.open = @ \ {call[By].of},
                                    !.stream = @ \o Echo(call[By].of)]
          /\ Emit(<<Event("resolved", None, call[By].of)>> \o Restated("working"))
          /\ flow' = [flow EXCEPT !.status = "working"] /\ Replied(By, "ok")
       \/ /\ ~agent.alive \/ call[By].of \notin agent.open
          /\ Replied(By, "failed") /\ UNCHANGED <<agent, flow, out>>
    /\ UNCHANGED <<state, mail>>

(* session.abort concerns whatever runs, here and on the server.            *)
OpenCodeAbort ==
    /\ OpenCodeTakesCommand(Cancels)
    /\ flow' = [flow EXCEPT !.cancel = flow.run # None]
    /\ \/ /\ agent.alive /\ Replied(By, "ok")
          /\ agent' = [agent EXCEPT !.interrupted = @ \/ agent.turns # <<>>]
       \/ ~agent.alive /\ Replied(By, "failed") /\ UNCHANGED agent
    /\ UNCHANGED <<state, mail, out>>

(* Parts of a message: the run in flight's, if there is one.                *)
OpenCodePart ==
    /\ OpenCodeTakesMail({"delta"})
    /\ \/ /\ flow.run # None
          /\ flow' = [flow EXCEPT !.open = TRUE] /\ Emit(<<Event("delta", flow.run, Letter.run)>>)
       \/ flow.run = None /\ UNCHANGED <<flow, out>>
    /\ UNCHANGED <<state, call, agent>>

(* permission.updated: parked once, inside a run, otherwise dropped.        *)
OpenCodePermission ==
    /\ OpenCodeTakesMail({"request"})
    /\ \/ /\ flow.run # None /\ Letter.of \notin state.pending
          /\ state' = [state EXCEPT !.pending = @ \cup {Letter.of}]
          /\ Emit(Restated("waiting") \o <<Event("requested", flow.run, Letter.of)>>)
          /\ flow' = [flow EXCEPT !.status = "waiting"]
       \/ /\ flow.run = None \/ Letter.of \in state.pending
          /\ UNCHANGED <<state, flow, out>>
    /\ UNCHANGED <<call, agent>>

(* permission.replied: another client's answer, unless the host's took it.  *)
OpenCodeReplied ==
    /\ OpenCodeTakesMail({"replied"})
    /\ \/ /\ Letter.of \in state.pending
          /\ state' = [state EXCEPT !.pending = @ \ {Letter.of}]
          /\ Emit(<<Event("resolved", None, Letter.of)>> \o Restated("working"))
          /\ flow' = [flow EXCEPT !.status = "working"]
       \/ Letter.of \notin state.pending /\ UNCHANGED <<state, flow, out>>
    /\ UNCHANGED <<call, agent>>

(* session.status: busy restates working, idle counts outside a run.        *)
OpenCodeStatus ==
    /\ OpenCodeTakesMail({"idle", "busy"})
    /\ LET status == IF Letter.what = "busy" THEN "working" ELSE "idle"
       IN \/ /\ status = "working" \/ flow.run = None
             /\ Emit(Restated(status)) /\ flow' = [flow EXCEPT !.status = status]
          \/ status = "idle" /\ flow.run # None /\ UNCHANGED <<flow, out>>
    /\ UNCHANGED <<state, call, agent>>

Outcome == IF Letter.of = "failed" /\ flow.cancel THEN "cancelled" ELSE Letter.of

(* A prompt returned: whichever run is in flight ends.                      *)
OpenCodePromptDone ==
    /\ OpenCodeTakesMail({"done"})
    /\ \/ /\ flow.run # None
          /\ Emit(RunEnds(flow.run, Outcome) \o Restated("idle"))
          /\ state' = [state EXCEPT !.active = IF @ = flow.run THEN None ELSE @, !.pending = {}]
          /\ flow' = NoFlow
       \/ flow.run = None /\ UNCHANGED <<state, flow, out>>
    /\ UNCHANGED <<call, agent>>

OpenCodeStep ==
    \/ OpenCodeStartPrompt \/ OpenCodeAnswer \/ OpenCodeAbort \/ OpenCodePart
    \/ OpenCodePermission \/ OpenCodeReplied \/ OpenCodeStatus \/ OpenCodePromptDone
=============================================================================
