----------------------------- MODULE RunReaders -----------------------------
(***************************************************************************)
(* Who reads the events of a run: read_events, out of the byte-bounded     *)
(* buffer of the manager that owns the run, and read_stored_events, out of *)
(* the history store, once that process is dead and the row is closed.  A  *)
(* reader asks for a page, follows next_cursor, and asks again with the    *)
(* cursor it last had.  An event is its size: 1 for the metadata and 1     *)
(* more for a payload.                                                     *)
(***************************************************************************)
EXTENDS Naturals, Sequences, FiniteSets

CONSTANTS EventReaders,
          MaxEvents,    \* bound on the events of the run
          BufferBytes,  \* MAX_EVENT_BYTES_PER_RUN
          PageBytes

(* push cuts an event down to what the buffer holds.                        *)
ASSUME ReadersAssumption ==
    MaxEvents \in Nat /\ PageBytes \in Nat /\ BufferBytes \in Nat \ {0, 1}

VARIABLES buffer,       \* EventBuffer
          manager,      \* the process of the manager, and whoever reconciles after it
          ended,        \* the run's state is terminal
          history,      \* the events table
          closedRow,    \* the row of the run is terminal
          refused,      \* history: the store refused an event
          reader

readVars == <<buffer, manager, ended, history, closedRow, refused, reader>>

Sizes == {1, 2}
EventSeq == [seq : 1 .. MaxEvents + 1, size : Sizes]
BytesAt(s, S) ==
    Cardinality({i \in S : s[i].size = 1}) + 2 * Cardinality({i \in S : s[i].size = 2})
Bytes(s) == BytesAt(s, 1 .. Len(s))
Payload(s) == Cardinality({i \in 1 .. Len(s) : s[i].size = 2})
Seqs(s) == {s[i].seq : i \in 1 .. Len(s)}
MaxSeq(S) == IF S = {} THEN 0 ELSE CHOOSE x \in S : \A y \in S : y <= x

(* from: where the reader reads; terminal: what it took from the metadata   *)
(* before it had the events; last: the page had no next cursor; warned: a   *)
(* page said there is a gap.                                                *)
ReadersTypeOK ==
    /\ buffer.next \in 1 .. MaxEvents + 1 /\ buffer.gap \in BOOLEAN
    /\ buffer.events \in Seq(EventSeq) /\ history \in Seq(EventSeq)
    /\ Bytes(buffer.events) <= BufferBytes /\ Payload(history) <= BufferBytes
    /\ {ended, closedRow, refused} \subseteq BOOLEAN
    /\ manager \in {"up", "exited", "reconciling"}
    /\ reader \in [EventReaders ->
           [at : {"idle", "reading", "dead"}, from : {"memory", "store"},
            cursor : 0 .. MaxEvents + 1, seen : SUBSET (1 .. MaxEvents + 1), terminal : BOOLEAN, last : BOOLEAN,
            warned : BOOLEAN, turnedDown : BOOLEAN]]

ReadersInit ==
    /\ buffer = [events |-> << >>, next |-> 1, gap |-> FALSE]
    /\ manager = "up" /\ ended = FALSE /\ history = << >> /\ closedRow = FALSE /\ refused = FALSE
    /\ \E from \in [EventReaders -> {"memory", "store"}] :
           reader = [r \in EventReaders |->
               [at |-> "idle", from |-> from[r], cursor |-> 0, seen |-> {}, terminal |-> FALSE,
                last |-> FALSE, warned |-> FALSE, turnedDown |-> FALSE]]

-----------------------------------------------------------------------------
(* EventBuffer::push: the oldest events make room.                          *)
Fits(s, e) == s = << >> \/ Bytes(s) + e.size <= BufferBytes

(* Mutant: what was dropped is not remembered. *)
forgets(dropped) == buffer.gap

gap_after(dropped) == buffer.gap \/ dropped > 0

push(e) ==
    LET left(i) == SubSeq(buffer.events, i + 1, Len(buffer.events))
        dropped == CHOOSE i \in 0 .. Len(buffer.events) :
                       Fits(left(i), e) /\ \A j \in 0 .. i - 1 : ~Fits(left(j), e)
    IN [events |-> Append(left(dropped), e), next |-> buffer.next + 1, gap |-> gap_after(dropped)]

(* append_event keeps the payload while the run's payloads fit.             *)
payload_budget_allows(size) == size = 1 \/ Payload(history) < BufferBytes
append_event(e) ==
    Append(history, [seq |-> e.seq, size |-> IF payload_budget_allows(e.size) THEN e.size ELSE 1])

(* push_event, of a run that is on or was just ended: the store may refuse. *)
push_event(size) ==
    LET e == [seq |-> buffer.next, size |-> size]
    IN /\ manager = "up" /\ ~closedRow /\ buffer.next <= MaxEvents
       /\ buffer' = push(e)
       /\ \/ history' = append_event(e) /\ UNCHANGED refused
          \/ refused' = TRUE /\ UNCHANGED history
       /\ UNCHANGED <<manager, ended, closedRow, reader>>

ManagedRunEnds ==
    /\ manager = "up" /\ ~ended /\ ended' = TRUE
    /\ UNCHANGED <<buffer, manager, history, closedRow, refused, reader>>

RowCompleted ==
    /\ manager = "up" /\ ended /\ ~closedRow /\ closedRow' = TRUE
    /\ UNCHANGED <<buffer, manager, ended, history, refused, reader>>

OwnerExits ==
    /\ manager = "up" /\ manager' = "exited"
    /\ reader' = [r \in EventReaders |-> IF reader[r].from = "memory"
                                         THEN [reader[r] EXCEPT !.at = "dead"] ELSE reader[r]]
    /\ UNCHANGED <<buffer, ended, history, closedRow, refused>>

(* Another process reconciles: it closes the row, then ends a stream that   *)
(* lacks its ending.                                                        *)
CloseOrphan ==
    /\ manager = "exited" /\ ~closedRow /\ closedRow' = TRUE
    /\ manager' = "reconciling"
    /\ UNCHANGED <<buffer, ended, history, refused, reader>>

EndOrphanStream ==
    /\ manager = "reconciling" /\ manager' = "exited"
    /\ \/ history' = Append(history, [seq |-> MaxSeq(Seqs(history)) + 1, size |-> 1])
       \/ ended /\ UNCHANGED history
    /\ UNCHANGED <<buffer, ended, closedRow, refused, reader>>

-----------------------------------------------------------------------------
(* A page: of the events after the cursor, by their positions, the first    *)
(* one and those that fit with all before them.                             *)
page(s, after) ==
    LET rest == {i \in 1 .. Len(s) : s[i].seq > after}
        upto(n) == {i \in rest : i <= n}
    IN {n \in rest : upto(n) = {n} \/ BytesAt(s, upto(n)) <= PageBytes}

(* What a reader has after a page: the cursor moves if there is more.       *)
TakesPage(r, s, gap) ==
    LET got == {s[i].seq : i \in page(s, reader[r].cursor)}
        more == got # {} /\ \E x \in Seqs(s) : x > MaxSeq(got)
    IN IF s # << >> /\ reader[r].cursor > MaxSeq(Seqs(s))
       THEN [reader[r] EXCEPT !.at = "idle", !.turnedDown = TRUE]
       ELSE [reader[r] EXCEPT !.at = "idle", !.seen = @ \cup got, !.warned = @ \/ gap,
                              !.last = ~more, !.cursor = IF more THEN MaxSeq(got) ELSE @]

(* read_events looks at the metadata first, then at the buffer.             *)
ReadMetadata(r) ==
    /\ reader[r].at = "idle" /\ reader[r].from = "memory" /\ manager = "up"
    /\ reader' = [reader EXCEPT ![r].at = "reading", ![r].terminal = ended]
    /\ UNCHANGED <<buffer, manager, ended, history, closedRow, refused>>

ReadBuffer(r) ==
    LET first == IF buffer.events = << >> THEN 0 ELSE Head(buffer.events).seq
    IN /\ reader[r].at = "reading" /\ manager = "up"
       /\ reader' = [reader EXCEPT ![r] =
              TakesPage(r, buffer.events,
                        buffer.gap \/ (reader[r].cursor # 0 /\ reader[r].cursor + 1 < first))]
       /\ UNCHANGED <<buffer, manager, ended, history, closedRow, refused>>

(* read_stored_events: persisted streams are said to be complete.           *)
ReadStored(r) ==
    /\ reader[r].at = "idle" /\ reader[r].from = "store" /\ manager # "up" /\ closedRow
    /\ reader' = [reader EXCEPT ![r] = [TakesPage(r, history, FALSE) EXCEPT !.terminal = TRUE]]
    /\ reader' # reader
    /\ UNCHANGED <<buffer, manager, ended, history, closedRow, refused>>

ReadersNext ==
    \/ \E size \in Sizes : push_event(size)
    \/ ManagedRunEnds \/ RowCompleted \/ OwnerExits \/ CloseOrphan \/ EndOrphanStream
    \/ \E r \in EventReaders : ReadMetadata(r) \/ ReadBuffer(r) \/ ReadStored(r)

-----------------------------------------------------------------------------
(* Properties.                                                              *)

(* A reader that follows the cursors it is given has every event up to the  *)
(* last it has, in memory and in the store, unless a page told it of a gap  *)
(* or the store had refused an event; and no cursor it was given is turned  *)
(* down.                                                                    *)
PagesAreHonest ==
    /\ ReadersTypeOK
    /\ \A r \in EventReaders :
        /\ ~reader[r].turnedDown
        /\ \/ reader[r].seen = 1 .. MaxSeq(reader[r].seen)
           \/ reader[r].warned
           \/ reader[r].from = "store" /\ refused

(* Statements of the source that do not hold.                               *)

(* observation.rs: persisted streams are complete, so they never report a   *)
(* gap; an event that could not be stored is only logged.                   *)
StoredStreamsAreComplete ==
    \A r \in EventReaders : reader[r].seen = 1 .. MaxSeq(reader[r].seen) \/ reader[r].warned

(* A page that says the run is over and has no next cursor ends the stream: *)
(* the state is terminal before the last events are pushed.                 *)
TerminalPageIsLast ==
    [][\A r \in EventReaders :
           /\ reader[r].at = "idle" /\ reader[r].from = "memory"
           /\ reader[r].terminal /\ reader[r].last
           =>
               buffer'.next = buffer.next]_readVars
=============================================================================
