----------------------------- MODULE MCLocalRuns -----------------------------
(***************************************************************************)
(* The runs of a manager and what takes part in them: the drain that       *)
(* executes one over the runtime, and the files through which another      *)
(* process finds the owner and approves.  They meet in calls each module   *)
(* shows from its side, so that they are explored one at a time: `part`    *)
(* says which moves.                                                       *)
(***************************************************************************)
EXTENDS RunManagement, ApprovalRecords, ExecutionDrain, TLC

CONSTANT Parts                 \* the parts an instance explores

ASSUME PartsAssumption == Parts \subseteq {"manager", "approvals", "drain"}

VARIABLE part

localVars == <<part, vars, approvalVars, drainVars>>

LocalInit ==
    /\ part \in Parts
    /\ Init /\ ApprovalsInit /\ DrainInit
    /\ part # "approvals" =>
           input = [i \in Inputs |-> IF i \in CHOOSE cast \in Casts : TRUE THEN "none" ELSE "gone"]

LocalNext ==
    /\ UNCHANGED part
    /\ \/ part = "manager" /\ Next /\ UNCHANGED <<approvalVars, drainVars>>
       \/ part = "approvals" /\ ApprovalsNext /\ UNCHANGED <<vars, drainVars>>
       \/ part = "drain" /\ DrainNext /\ UNCHANGED <<vars, approvalVars>>

(* Threads that are in a call go on, and time passes.  Nothing is assumed of *)
(* agents and of the owner's answers.                                         *)
ApprovalSteps ==
    \/ \E s \in Submitters : SubmitterStep(s)
    \/ \E o \in Owners : DropStep(o)
    \/ \E i \in Inputs : InputStep(i)

Managing(step) == part = "manager" /\ step

LocalFairness ==
    /\ \A t \in Callers : WF_vars(Managing(CallerSteps(t)))
    /\ WF_vars(Managing(ApproverSteps)) /\ WF_vars(Managing(CloserSteps))
    /\ \A r \in Runs :
         /\ WF_vars(Managing(WorkerSteps(r))) /\ WF_vars(Managing(Told(r) /\ Return(r)))
         /\ WF_vars(Managing(Reconcile(r))) /\ WF_vars(Managing(ReconcileEvent(r)))
    /\ WF_approvalVars(part = "approvals" /\ ApprovalSteps)
    /\ WF_drainVars(part = "drain" /\ DrainStep) /\ WF_drainVars(part = "drain" /\ SettlePasses)

LocalSafe == LocalInit /\ [][LocalNext]_localVars

LocalSpec == LocalSafe /\ LocalFairness

-----------------------------------------------------------------------------
(* Properties.                                                              *)

(* Who was told to stop stops, whoever owns it: a run that is cancelled or  *)
(* out of time ends but for the lock cycle, and so does the drain that      *)
(* executes it, however silent its agent; a drain whose agent is gone       *)
(* returns or waits for the owner; and whoever approves from another        *)
(* process gets an answer, whatever dies around it.                         *)
Owed(r) ==
    \/ part = "manager" /\ MustEnd(r)
    \/ part = "approvals" /\ \E s \in Submitters : submitter[s].at \in Asking
    \/ part = "drain" /\ (control.cancelled \/ control.expired \/ agent.run = "over")

Given(r) ==
    \/ part = "manager" /\ HasEnded(r)
    \/ part = "approvals" /\ \A s \in Submitters : submitter[s].at \notin Asking
    \/ part = "drain" /\ Drains("over")
    \/ part = "drain" /\ Drains("asking") /\ ~control.cancelled /\ ~control.expired

EverythingEnds == \A r \in Runs : Owed(r) ~> Given(r)
-----------------------------------------------------------------------------

(* The instance.                                                            *)

CONSTANTS d1, n1, c1, c2, ap, o1, i1, i2, s1, s2

(* A writer whose provider asks for input, a reader that resumes a session  *)
(* and asks for approval.                                                   *)
Writer == [dir |-> d1, resume |-> None, asks |-> "input"]
Reader == [dir |-> None, resume |-> n1, asks |-> "approval"]
WriterAndReader == {Writer, Reader}

Sym == Permutations(Callers)

NoAsks == [r \in Runs |-> 0]
TwoAsks == [r \in Runs |-> 2]

(* Two requests and who approves one of them, or one request and two.       *)
OneOwner == [i \in {i1, i2} |-> o1]
TwoCasts == {{i1, i2, s1}, {i1, s1, s2}}
=============================================================================
