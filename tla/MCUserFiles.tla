----------------------------- MODULE MCUserFiles -----------------------------
(***************************************************************************)
(* What processes of AI Fuel keep in files of the user, at the mercy of    *)
(* other processes and of the user's own hand: the workspace a session     *)
(* checkpoints and restores, the configuration of an MCP host, the marks   *)
(* of the quota webhooks, and the history out of which the events of a run *)
(* are read when its owner is gone.  The files have nothing to do with     *)
(* each other, so that they are explored one at a time: `part` says which. *)
(***************************************************************************)
EXTENDS SessionPump, SetupTransaction, QuotaWebhooks, RunReaders

VARIABLE part

fileVars == <<part, vars, setupVars, hookVars, readVars>>

FilesInit ==
    /\ part \in {"restore", "setup", "webhooks", "readers"}
    /\ Init /\ SetupInit /\ HooksInit /\ ReadersInit
    /\ part # "restore" => ~resumed
    /\ part # "readers" => \A r \in EventReaders : reader[r].from = "memory"

FilesNext ==
    /\ UNCHANGED part
    /\ \/ part = "restore" /\ Next /\ UNCHANGED <<setupVars, hookVars, readVars>>
       \/ part = "setup" /\ SetupNext /\ UNCHANGED <<vars, hookVars, readVars>>
       \/ part = "webhooks" /\ HooksNext /\ UNCHANGED <<vars, setupVars, readVars>>
       \/ part = "readers" /\ ReadersNext /\ UNCHANGED <<vars, setupVars, hookVars>>

FilesSpec == FilesInit /\ [][FilesNext]_fileVars
-----------------------------------------------------------------------------

(* The instance.                                                            *)

CONSTANTS e1, e2, p1, p2, p3, q1, q2

(* Two executables set up, and the first one removes its entry. *)
TwoSetupsOneRemoval ==
    p1 :> [exe |-> e1, remove |-> FALSE] @@ p2 :> [exe |-> e2, remove |-> FALSE]
        @@ p3 :> [exe |-> e1, remove |-> TRUE]

(* Two calls in one process and one in another; two endpoints share a       *)
(* threshold, a third wants to hear of recoveries only.                     *)
TwoReporters == p1 :> q1 @@ p2 :> q1 @@ p3 :> q2
ThreeEndpoints ==
    <<[threshold |-> 1, events |-> HookKinds], [threshold |-> 1, events |-> HookKinds],
      [threshold |-> 2, events |-> {"quota_reset"}]>>
=============================================================================
