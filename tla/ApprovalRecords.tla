-------------------------- MODULE ApprovalRecords --------------------------
(***************************************************************************)
(* How `aifuel approve`, a process of its own, finds the process that owns *)
(* a run: the files behind the local approval channel.  An owner publishes *)
(* one record, whose file it keeps locked while it lives, a socket, and a  *)
(* record for every permission request that waits.  A submitter that gets  *)
(* the owner's lock takes the owner for dead and removes its files.        *)
(* Owners and submitters may die at any step; the kernel drops their locks *)
(* and leaves their files.  What an approval does to its run is the        *)
(* business of RunManagement; file modes and path checks are left out.     *)
(***************************************************************************)
EXTENDS Naturals, FiniteSets

CONSTANTS Owners,       \* processes that manage runs
          Inputs,       \* permission requests
          OwnerOf,      \* the process each of them waits in
          MaxServers,   \* bound on the servers of a process
          Submitters,   \* processes that approve
          Casts,        \* the requests and submitters that take part, one set per instance
          Free          \* nobody holds the lock

ASSUME ApprovalsAssumption ==
    /\ MaxServers \in Nat /\ OwnerOf \in [Inputs -> Owners]
    /\ Owners \cap Submitters = {} /\ Free \notin Owners \cup Submitters

VARIABLES owner,        \* ManagerInner: shutdown and approval_server
          input,        \* the requests
          files,        \* the approval directory and the sockets
          submitter

approvalVars == <<owner, input, files, submitter>>

ServerIds == Owners \X (1 .. MaxServers)
NoServer == <<>>
Closing == {"flagged", "joining", "clearing", "unlinking"}
(* dropping: the server whose Drop runs; used: servers started so far.      *)
Owner == [up : BOOLEAN, at : {"open", "closed"} \cup Closing, slot : ServerIds \cup {NoServer},
          dropping : ServerIds \cup {NoServer}, used : 0 .. MaxServers]
Registering == {"bind", "publish", "register"}
InputAt == {"none", "checked", "open", "settled", "gone"} \cup Registering
Asking == {"found", "opened", "sweep records", "sweep files", "disown", "connect", "queued",
           "served", "approved"}
Submitter == [at : {"idle", "accepted", "refused", "dead"} \cup Asking,
              input : Inputs \cup {Free}, server : ServerIds \cup {NoServer}]

ApprovalsTypeOK ==
    /\ owner \in [Owners -> Owner]
    /\ input \in [Inputs -> InputAt]
    /\ files \in [records : SUBSET ServerIds, sockets : SUBSET ServerIds,
                  lock : [ServerIds -> Owners \cup Submitters \cup {Free}],
                  pending : [Inputs -> ServerIds \cup {NoServer}]]
    /\ submitter \in [Submitters -> Submitter]

ApprovalsInit ==
    /\ owner = [o \in Owners |-> [up |-> TRUE, at |-> "open", slot |-> NoServer,
                                  dropping |-> NoServer, used |-> 0]]
    /\ \E cast \in Casts :
         /\ input = [i \in Inputs |-> IF i \in cast THEN "none" ELSE "gone"]
         /\ submitter = [s \in Submitters |-> [at |-> IF s \in cast THEN "idle" ELSE "refused",
                                               input |-> Free, server |-> NoServer]]
    /\ files = [records |-> {}, sockets |-> {}, lock |-> [k \in ServerIds |-> Free],
                pending |-> [i \in Inputs |-> NoServer]]

-----------------------------------------------------------------------------
(* The requests of an owner.                                                *)

InputsOf(o) == {i \in Inputs : OwnerOf[i] = o}
(* The approval_server mutex is held from the look at the slot until the    *)
(* record is written; the other steps only take it in passing.              *)
ServerFree(o) == \A i \in InputsOf(o) : input[i] \notin Registering
NextServer(o) == <<o, owner[o].used + 1>>
Without(k) == [i \in Inputs |-> IF files.pending[i] = k THEN NoServer ELSE files.pending[i]]

(* wait_for_provider_interaction: the request is set, and the shutdown flag *)
(* is read before the mutex is taken.                                       *)
CheckFlag(i) ==
    LET o == OwnerOf[i]
    IN /\ owner[o].up /\ input[i] = "none"
       /\ input' = [input EXCEPT ![i] = IF owner[o].at = "open" THEN "checked" ELSE "gone"]
       /\ UNCHANGED <<owner, files, submitter>>

LookAtSlot(i) ==
    LET o == OwnerOf[i]
    IN /\ owner[o].up /\ input[i] = "checked" /\ ServerFree(o)
       /\ owner[o].slot = NoServer => owner[o].used < MaxServers
       /\ input' = [input EXCEPT ![i] = IF owner[o].slot = NoServer THEN "bind" ELSE "register"]
       /\ UNCHANGED <<owner, files, submitter>>

(* LocalApprovalServer::start: the socket, then the record, which is locked *)
(* before it gets its name.                                                 *)
BindSocket(i) ==
    LET o == OwnerOf[i]
    IN /\ owner[o].up /\ input[i] = "bind"
       /\ files' = [files EXCEPT !.sockets = @ \cup {NextServer(o)}]
       /\ input' = [input EXCEPT ![i] = "publish"]
       /\ UNCHANGED <<owner, submitter>>

(* Mutant: the record is not locked. *)
write_owner_record_unlocked(o) == files' = [files EXCEPT !.records = @ \cup {NextServer(o)}]

write_owner_record(o) ==
    files' = [files EXCEPT !.records = @ \cup {NextServer(o)}, !.lock[NextServer(o)] = o]

PublishOwner(i) ==
    LET o == OwnerOf[i]
    IN /\ owner[o].up /\ input[i] = "publish"
       /\ write_owner_record(o)
       /\ owner' = [owner EXCEPT ![o].slot = NextServer(o), ![o].used = @ + 1]
       /\ input' = [input EXCEPT ![i] = "register"]
       /\ UNCHANGED submitter

register_pending(i) ==
    LET o == OwnerOf[i]
    IN /\ owner[o].up /\ input[i] = "register"
       /\ files' = [files EXCEPT !.pending[i] = owner[o].slot]
       /\ input' = [input EXCEPT ![i] = "open"]
       /\ UNCHANGED <<owner, submitter>>

(* A file cannot be written: the request fails.  A server that did not come *)
(* up leaves its socket; it has used its name.                              *)
RegisterFails(i) ==
    LET o == OwnerOf[i]
    IN /\ owner[o].up /\ input[i] \in Registering
       /\ input' = [input EXCEPT ![i] = "settled"]
       /\ owner' = [owner EXCEPT ![o].used = @ + IF input[i] = "publish" THEN 1 ELSE 0]
       /\ UNCHANGED <<files, submitter>>

(* The request is answered in the owner, cancelled or out of time; then its *)
(* record is removed, if it is one of the server in the slot.               *)
Settle(i) ==
    /\ owner[OwnerOf[i]].up /\ input[i] = "open"
    /\ input' = [input EXCEPT ![i] = "settled"]
    /\ UNCHANGED <<owner, files, submitter>>

(* Mutant: the record stays. *)
forget_pending(i) == files
remove_pending(i) ==
    LET k == owner[OwnerOf[i]].slot
    IN IF k # NoServer /\ files.pending[i] = k
       THEN [files EXCEPT !.pending[i] = NoServer] ELSE files

RemoveRecord(i) ==
    /\ owner[OwnerOf[i]].up /\ input[i] = "settled" /\ ServerFree(OwnerOf[i])
    /\ files' = remove_pending(i)
    /\ input' = [input EXCEPT ![i] = "gone"]
    /\ UNCHANGED <<owner, submitter>>

InputStep(i) ==
    \/ CheckFlag(i) \/ LookAtSlot(i) \/ BindSocket(i) \/ PublishOwner(i) \/ register_pending(i)
    \/ RegisterFails(i) \/ Settle(i) \/ RemoveRecord(i)

-----------------------------------------------------------------------------
(* shutdown, and the Drop of the server.                                    *)

ShutdownStarts(o) ==
    /\ owner[o].up /\ owner[o].at = "open"
    /\ owner' = [owner EXCEPT ![o].at = "flagged"]
    /\ UNCHANGED <<input, files, submitter>>

(* The server is taken out of the slot; one that a request started behind   *)
(* shutdown's back goes with the manager.                                   *)
TakeServer(o) ==
    /\ owner[o].up /\ ServerFree(o)
    /\ \/ owner[o].at = "flagged"
       \/ /\ owner[o].at = "closed" /\ owner[o].slot # NoServer
          /\ \A i \in InputsOf(o) : input[i] \in {"none", "gone"}
    /\ owner' = [owner EXCEPT ![o].slot = NoServer, ![o].dropping = owner[o].slot,
                              ![o].at = IF owner[o].slot = NoServer THEN "closed" ELSE "joining"]
    /\ UNCHANGED <<input, files, submitter>>

ServedBy(k) ==
    {s \in Submitters : submitter[s].server = k /\ submitter[s].at \in {"served", "approved"}}

JoinThread(o) ==
    /\ owner[o].up /\ owner[o].at = "joining" /\ ServedBy(owner[o].dropping) = {}
    /\ owner' = [owner EXCEPT ![o].at = "clearing"]
    /\ UNCHANGED <<input, files, submitter>>

ClearRecords(o) ==
    /\ owner[o].up /\ owner[o].at = "clearing"
    /\ files' = [files EXCEPT !.pending = Without(owner[o].dropping)]
    /\ owner' = [owner EXCEPT ![o].at = "unlinking"]
    /\ UNCHANGED <<input, submitter>>

Unlink(o) ==
    LET k == owner[o].dropping
    IN /\ owner[o].up /\ owner[o].at = "unlinking"
       /\ files' = [files EXCEPT !.records = @ \ {k}, !.sockets = @ \ {k}, !.lock[k] = Free]
       /\ owner' = [owner EXCEPT ![o].at = "closed", ![o].dropping = NoServer]
       /\ UNCHANGED <<input, submitter>>

ApprovalOwnerDies(o) ==
    /\ owner[o].up
    /\ owner' = [owner EXCEPT ![o].up = FALSE]
    /\ files' = [files EXCEPT !.lock = [k \in ServerIds |-> IF @[k] = o THEN Free ELSE @[k]]]
    /\ UNCHANGED <<input, submitter>>

DropStep(o) == TakeServer(o) \/ JoinThread(o) \/ ClearRecords(o) \/ Unlink(o)

-----------------------------------------------------------------------------
(* submit_local_approval.                                                   *)

SubmitterMoves(s, at) == submitter' = [submitter EXCEPT ![s].at = at]
SubmitterAt(s, at) == submitter[s].at = at

ReadPending(s, i) ==
    /\ SubmitterAt(s, "idle")
    /\ submitter' = [submitter EXCEPT ![s] =
           [at |-> IF files.pending[i] = NoServer THEN "refused" ELSE "found",
            input |-> i, server |-> files.pending[i]]]
    /\ UNCHANGED <<owner, input, files>>

OpenOwner(s) ==
    /\ SubmitterAt(s, "found")
    /\ SubmitterMoves(s, IF submitter[s].server \in files.records THEN "opened" ELSE "disown")
    /\ UNCHANGED <<owner, input, files>>

(* Whoever holds the lock is taken for the owner; a record that lost its    *)
(* name since it was opened is left alone.                                  *)
TryLock(s) ==
    LET k == submitter[s].server
    IN /\ SubmitterAt(s, "opened")
       /\ IF files.lock[k] # Free
          THEN SubmitterMoves(s, "connect") /\ UNCHANGED files
          ELSE IF k \in files.records
          THEN SubmitterMoves(s, "sweep records") /\ files' = [files EXCEPT !.lock[k] = s]
          ELSE SubmitterMoves(s, "disown") /\ UNCHANGED files
       /\ UNCHANGED <<owner, input>>

SweepRecords(s) ==
    /\ SubmitterAt(s, "sweep records")
    /\ files' = [files EXCEPT !.pending = Without(submitter[s].server)]
    /\ SubmitterMoves(s, "sweep files")
    /\ UNCHANGED <<owner, input>>

SweepFiles(s) ==
    LET k == submitter[s].server
    IN /\ SubmitterAt(s, "sweep files")
       /\ files' = [files EXCEPT !.sockets = @ \ {k}, !.records = @ \ {k}, !.lock[k] = Free]
       /\ SubmitterMoves(s, "disown")
       /\ UNCHANGED <<owner, input>>

Disown(s) ==
    /\ SubmitterAt(s, "disown")
    /\ files' = IF files.pending[submitter[s].input] = submitter[s].server
                THEN [files EXCEPT !.pending[submitter[s].input] = NoServer] ELSE files
    /\ SubmitterMoves(s, "refused")
    /\ UNCHANGED <<owner, input>>

(* A thread accepts for the server in the slot, and for one that is being   *)
(* dropped until it is joined; whoever is still queued then is cut off.     *)
Listens(k) == LET o == k[1] IN owner[o].up /\ (owner[o].slot = k
                                  \/ (owner[o].at = "joining" /\ owner[o].dropping = k))

Connect(s) ==
    LET k == submitter[s].server
    IN /\ SubmitterAt(s, "connect")
       /\ SubmitterMoves(s, IF k \in files.sockets /\ Listens(k) THEN "queued" ELSE "refused")
       /\ UNCHANGED <<owner, input, files>>

Accept(s) ==
    LET k == submitter[s].server
    IN /\ SubmitterAt(s, "queued") /\ owner[k[1]].up /\ owner[k[1]].slot = k /\ ServedBy(k) = {}
       /\ SubmitterMoves(s, "served")
       /\ UNCHANGED <<owner, input, files>>

(* handle_connection and the handler: the request is approved if it waits.  *)
HandleConnection(s) ==
    LET i == submitter[s].input
    IN /\ SubmitterAt(s, "served") /\ owner[OwnerOf[i]].up
       /\ IF input[i] = "open"
          THEN input' = [input EXCEPT ![i] = "settled"] /\ SubmitterMoves(s, "approved")
          ELSE SubmitterMoves(s, "refused") /\ UNCHANGED input
       /\ UNCHANGED <<owner, files>>

Reply(s) ==
    /\ SubmitterAt(s, "approved") /\ input[submitter[s].input] = "gone"
    /\ owner[OwnerOf[submitter[s].input]].up
    /\ SubmitterMoves(s, "accepted")
    /\ UNCHANGED <<owner, input, files>>

CutOff(s) ==
    LET k == submitter[s].server
    IN /\ \/ SubmitterAt(s, "queued") /\ ~Listens(k)
          \/ submitter[s].at \in {"served", "approved"} /\ ~owner[k[1]].up
       /\ SubmitterMoves(s, "refused")
       /\ UNCHANGED <<owner, input, files>>

SubmitterDies(s) ==
    /\ submitter[s].at \in Asking \ {"served", "approved"}
    /\ SubmitterMoves(s, "dead")
    /\ files' = [files EXCEPT !.lock = [k \in ServerIds |-> IF @[k] = s THEN Free ELSE @[k]]]
    /\ UNCHANGED <<owner, input>>

SubmitterStep(s) ==
    \/ OpenOwner(s) \/ TryLock(s) \/ SweepRecords(s) \/ SweepFiles(s) \/ Disown(s) \/ Connect(s)
    \/ Accept(s) \/ HandleConnection(s) \/ Reply(s) \/ CutOff(s)

ApprovalsNext ==
    \/ \E i \in Inputs : InputStep(i)
    \/ \E o \in Owners : ShutdownStarts(o) \/ DropStep(o) \/ ApprovalOwnerDies(o)
    \/ \E s \in Submitters :
           SubmitterStep(s) \/ SubmitterDies(s) \/ \E i \in Inputs : ReadPending(s, i)

-----------------------------------------------------------------------------
(* Properties.                                                              *)

(* A request that waits can be approved: its record, its owner's record,    *)
(* the lock and the socket are there, whatever submitters made of other     *)
(* owners, until the owner shuts down.                                      *)
WaitingIsReachable ==
    \A i \in Inputs :
        LET o == OwnerOf[i]
            k == owner[o].slot
        IN input[i] = "open" /\ owner[o].up /\ owner[o].at = "open" =>
               /\ files.pending[i] = k /\ k \in files.records \cap files.sockets
               /\ files.lock[k] = o

(* The record of a request that is over does not outlive it in a process    *)
(* that lives on, but for the time a server takes to drop.                  *)
RecordsAreCurrent ==
    \A i \in Inputs :
        LET o == OwnerOf[i]
        IN owner[o].up /\ input[i] = "gone" /\ files.pending[i] # NoServer =>
               owner[o].at \in {"joining", "clearing"} /\ files.pending[i] = owner[o].dropping

ApprovalsAreLive == ApprovalsTypeOK /\ WaitingIsReachable /\ RecordsAreCurrent

(* shutdown removes the channel: not when a request read the flag before it *)
(* was set; the server it starts stands until the manager is dropped.       *)
ShutdownRemovesChannel ==
    \A o \in Owners : owner[o].at = "closed" => \A k \in files.records : k[1] # o \/ ~owner[o].up
=============================================================================
