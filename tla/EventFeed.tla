----------------------------- MODULE EventFeed -----------------------------
(***************************************************************************)
(* What `session.subscribe` promises of one session's events, without the  *)
(* threads: facts get consecutive sequence numbers, a subscription starts  *)
(* at a number the consumer names (or at the head, when a snapshot is      *)
(* given instead of a replay), and from then on an attached consumer is    *)
(* sent every fact, once, in order.                                        *)
(***************************************************************************)
EXTENDS Sequences, Naturals

CONSTANT Consumers

VARIABLES head,       \* sequence number of the newest fact
          base,       \* base[c]: the number c's latest subscription starts after
          chan,       \* chan[c]: the numbers sent to c for that subscription
          attached    \* consumers that are sent new facts

feedVars == <<head, base, chan, attached>>

(* The numbers after n up to m, in order. *)
Span(n, m) == [i \in 1..(m - n) |-> n + i]

(* chan after fact n is sent to the consumers in S. *)
Sent(S, n) == [c \in Consumers |-> IF c \in S THEN Append(chan[c], n) ELSE chan[c]]

Init ==
    /\ head \in Nat
    /\ base = [c \in Consumers |-> 0]
    /\ chan = [c \in Consumers |-> <<>>]
    /\ attached = {}

(* One more fact; whoever is attached is sent it in the same step.          *)
Record ==
    /\ head' = head + 1
    /\ chan' = Sent(attached, head + 1)
    /\ UNCHANGED <<base, attached>>

(* A subscription: everything after n is sent at once.  A consumer of a     *)
(* session nothing drives is answered but not attached.                     *)
Subscribe(c) ==
    /\ \E n \in 0..head :
         /\ base' = [base EXCEPT ![c] = n]
         /\ chan' = [chan EXCEPT ![c] = Span(n, head)]
    /\ attached' \in {attached, attached \cup {c}}
    /\ UNCHANGED head

Detach == attached' = {} /\ UNCHANGED <<head, base, chan>>

Next == Record \/ Detach \/ \E c \in Consumers : Subscribe(c)

Spec == Init /\ [][Next]_feedVars

(* The promise as invariants: a channel holds consecutive numbers from the  *)
(* start of the subscription, and an attached consumer is behind on none.   *)
InOrder == \A c \in Consumers : chan[c] = Span(base[c], base[c] + Len(chan[c]))
UpToDate == \A c \in attached : base[c] + Len(chan[c]) = head
=============================================================================
