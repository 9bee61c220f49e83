----------------------------- MODULE SessionLog -----------------------------
(***************************************************************************)
(* The Session Event Log and the agent_sessions rows it keeps in step.     *)
(*                                                                         *)
(* One SQLite database is shared by every runtime of every process.  Each  *)
(* Agent Session has a log of facts and one projection row.  An append     *)
(* inserts the fact and updates the row inside one immediate transaction,  *)
(* so both change in one step here; every other statement of the code is a *)
(* transaction of its own and is an operator of its own below.             *)
(***************************************************************************)
EXTENDS Sequences, Naturals

CONSTANTS Sessions,   \* session ids the adapters may mint
          Runtimes,   \* owner ids: one per opened store, never reused
          NoOwner     \* a row written before rows carried an owner

ASSUME OwnerAssumption == NoOwner \notin Runtimes

VARIABLES log,        \* log[s]: the facts of session s, seq = position
          row         \* row[s]: the agent_sessions row of session s

storeVars == <<log, row>>

InFlight == {"working", "waiting_approval", "compacting"}
Statuses == InFlight \cup {"idle", "interrupted", "closed"}

(* A fact is "created", "note" (any fact that leaves the status alone: runs, *)
(* deltas, approvals, checkpoints), or the status that it records.           *)
Facts == Statuses \cup {"created", "note"}
Owners == Runtimes \cup {NoOwner}

Row == [known : BOOLEAN, status : Statuses, owner : Owners, cursor : BOOLEAN]

(* No row yet: the other fields mean nothing. *)
NoRow == [known |-> FALSE, status |-> "idle", owner |-> NoOwner, cursor |-> FALSE]

(* Mutant: the conflict clause also resets the status. *)
UpsertedAfresh(old, o) == [old EXCEPT !.known = TRUE, !.owner = o, !.status = "idle"]

(* upsert_agent_session: a fresh row starts idle; on a conflict the status  *)
(* and the cursor stay and the owner is re-stamped to the writing store.    *)
Upserted(old, o) == [old EXCEPT !.known = TRUE, !.owner = o]

(* Mutant: every fact's tag is written into the status column. *)
ProjectedAnyTag(old, f, o) == IF old.known THEN [old EXCEPT !.status = f] ELSE Upserted(old, o)

(* project_session_event: only status facts and session.created reach the  *)
(* row, and a status fact updates no row that is not there.                 *)
Projected(old, f, o) ==
    IF f = "created" THEN Upserted(old, o)
    ELSE IF f \in Statuses /\ old.known THEN [old EXCEPT !.status = f]
    ELSE old

(* RunStore::append by the store of owner o. *)
AppendFact(s, f, o) ==
    /\ log' = [log EXCEPT ![s] = Append(@, f)]
    /\ row' = [row EXCEPT ![s] = Projected(@, f, o)]

(* Mutant: the sweeps record the fact and forget the projection. *)
AppendInterruptedUnprojected(S, o) ==
    /\ log' = [s \in Sessions |-> IF s \in S THEN Append(log[s], "interrupted") ELSE log[s]]
    /\ UNCHANGED row

(* The two sweeps append one `interrupted` fact per session in one          *)
(* transaction.                                                             *)
AppendInterrupted(S, o) ==
    /\ log' = [s \in Sessions |-> IF s \in S THEN Append(log[s], "interrupted") ELSE log[s]]
    /\ row' = [s \in Sessions |-> IF s \in S THEN Projected(row[s], "interrupted", o) ELSE row[s]]

(* record_agent_session *)
RecordSession(s, o) == row' = [row EXCEPT ![s] = Upserted(@, o)] /\ UNCHANGED log

(* Mutant: the UPDATE loses its owner column. *)
ClaimSessionUnstamped(s, o) == UNCHANGED storeVars

(* claim_agent_session: a compare-and-swap on the owner seen earlier. *)
ClaimLands(s, seen) == row[s].known /\ row[s].owner = seen
ClaimSession(s, o) == row' = [row EXCEPT ![s].owner = o] /\ UNCHANGED log

(* record_resume_cursor, for a set of sessions one after the other. *)
RecordCursors(S) ==
    /\ row' = [s \in Sessions |-> IF s \in S /\ row[s].known
                                  THEN [row[s] EXCEPT !.cursor = TRUE] ELSE row[s]]
    /\ UNCHANGED log

(* mark_interrupted_on_shutdown selects inside its transaction. *)
OwnInFlight(o) == {s \in Sessions : row[s].known /\ row[s].owner = o /\ row[s].status \in InFlight}
MarkInterruptedOnShutdown(o) == AppendInterrupted(OwnInFlight(o), o)

(* Mutant: rows without an owner are passed over. *)
InFlightOrphansOwned(dead) == {s \in Sessions : row[s].known /\ row[s].status \in InFlight
                                                /\ row[s].owner \in dead \ {NoOwner}}

(* The orphan selections of reconcile_orphaned_sessions and                *)
(* orphaned_agent_sessions: rows whose owner is in the set of dead owners.  *)
InFlightOrphans(dead) == {s \in Sessions : row[s].known /\ row[s].status \in InFlight
                                           /\ row[s].owner \in dead}
Orphans(dead) == {s \in Sessions : row[s].known /\ row[s].owner \in dead}

(* Status st is what log l tells: its last status fact, idle before one.    *)
Tells(l, st) ==
    \/ st = "idle" /\ \A i \in DOMAIN l : l[i] \notin Statuses
    \/ \E i \in DOMAIN l : l[i] = st /\ \A j \in DOMAIN l : j > i => l[j] \notin Statuses
=============================================================================
