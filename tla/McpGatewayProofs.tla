-------------------------- MODULE McpGatewayProofs --------------------------
(***************************************************************************)
(* What the MCP gateway keeps for any servers, hosts, calls, requests and  *)
(* bounds: the marks of stale lists, the promises of subscriptions, the    *)
(* accounts of the progress buffer and of the event queue, and what POSTs  *)
(* are told.                                                               *)
(*                                                                         *)
(* Amounts of bytes are cardinalities of sets of byte positions, so that   *)
(* what is kept and taken away adds up by the theory of finite sets.       *)
(***************************************************************************)
EXTENDS MCMcpGateway, FiniteSetTheorems, TLAPS

-----------------------------------------------------------------------------
(* Progress of tool calls.                                                  *)

UnderWay(s) == {c \in ToolCalls : ServerOf[c] = s /\ callAt[c] \notin {"idle", "done"}}

ProgressTyped ==
    /\ callAt \in [ToolCalls -> {"idle", "begun", "sent", "forwarding", "bound", "done"}]
    /\ routes \subseteq ToolCalls
    /\ early \in [ToolCalls -> Tick \cup {NoProgress}]
    /\ taken \in [ToolCalls -> Tick \cup {NoProgress}]
    /\ activeCalls \in [ServersCalled -> Nat]
    /\ pendingBytes \in Nat
    /\ overflow \in BOOLEAN
    /\ emitted \in [ToolCalls -> {0} \cup Tick]
    /\ wire \subseteq ToolCalls \X Tick
    /\ sending \subseteq ToolCalls \X Tick
    /\ seen \in [ToolCalls -> SUBSET Tick]

(* What register took out is a report, until it is forwarded.               *)
TakenIsProgress == \A c \in ToolCalls : callAt[c] = "forwarding" => taken[c] \in Tick

(* The counter of a server is of its calls under way, and without one       *)
(* nothing is kept for it.                                                  *)
CallsAreCounted ==
    \A s \in ServersCalled :
        /\ activeCalls[s] = Cardinality(UnderWay(s))
        /\ activeCalls[s] = 0 => \A c \in ToolCalls : ServerOf[c] = s => early[c] = NoProgress

RoutesKeepNothing == \A c \in routes : early[c] = NoProgress

(* The account of the buffer.                                               *)
BytesAreCounted ==
    /\ IsFiniteSet(Buffered(ToolCalls))
    /\ pendingBytes = Cardinality(Buffered(ToolCalls))
    /\ pendingBytes <= MaxPending

ProgressInv == ProgressTyped /\ TakenIsProgress /\ CallsAreCounted /\ RoutesKeepNothing /\ BytesAreCounted

LEMMA TickIsNat == Tick \subseteq Nat
  BY ProgressBounds DEF Tick

LEMMA UnderWayFinite == ASSUME NEW s PROVE IsFiniteSet(UnderWay(s)) /\ Cardinality(UnderWay(s)) \in Nat /\ Cardinality(UnderWay(s)) <= Cardinality(ToolCalls)
  BY ToolCallsAssumption, FS_Subset, FS_CardinalityType DEF UnderWay

LEMMA ProgressInvInit == ProgressInit => ProgressInv
<1> SUFFICES ASSUME ProgressInit PROVE ProgressInv
  OBVIOUS
<1>1. ProgressTyped
  BY DEF ProgressInit, ProgressTyped
<1>2. TakenIsProgress /\ RoutesKeepNothing
  BY DEF ProgressInit, TakenIsProgress, RoutesKeepNothing
<1>3. CallsAreCounted
  <2>1. \A s \in ServersCalled : UnderWay(s) = {}
    BY DEF ProgressInit, UnderWay
  <2> QED
    BY <2>1, FS_EmptySet DEF ProgressInit, CallsAreCounted
<1>4. BytesAreCounted
  <2>1. Buffered(ToolCalls) = {}
    BY DEF ProgressInit, Buffered, Kept
  <2> QED
    BY <2>1, FS_EmptySet, ProgressBounds DEF ProgressInit, BytesAreCounted
<1> QED
  BY <1>1, <1>2, <1>3, <1>4 DEF ProgressInv

(* Dropping what is kept for some tokens takes exactly their bytes off the  *)
(* account.                                                                 *)
LEMMA DropPays ==
  ASSUME ProgressTyped, BytesAreCounted, NEW calls \in SUBSET ToolCalls, DropEarly(calls)
  PROVE  BytesAreCounted' /\ pendingBytes' \in Nat /\ early' \in [ToolCalls -> Tick \cup {NoProgress}]
<1>1. early' \in [ToolCalls -> Tick \cup {NoProgress}]
  BY DEF DropEarly, ProgressTyped
<1>2. Buffered(calls) \subseteq Buffered(ToolCalls)
  BY DEF Buffered, Kept
<1>3. Buffered(ToolCalls)' = Buffered(ToolCalls) \ Buffered(calls)
  <2>1. Kept(ToolCalls)' = Kept(ToolCalls) \ calls
    BY DEF Kept, DropEarly
  <2>2. Kept(calls) = Kept(ToolCalls) \cap calls
    BY DEF Kept
  <2> QED
    BY <2>1, <2>2 DEF Buffered
<1>4. /\ IsFiniteSet(Buffered(ToolCalls)')
      /\ Cardinality(Buffered(ToolCalls)') = Cardinality(Buffered(ToolCalls)) - Cardinality(Buffered(calls))
  <2>1. Buffered(ToolCalls) \cap Buffered(calls) = Buffered(calls)
    BY <1>2
  <2> QED
    BY <1>3, <2>1, FS_Difference DEF BytesAreCounted
<1>5. Cardinality(Buffered(calls)) \in Nat /\ Cardinality(Buffered(ToolCalls)') \in Nat
  BY <1>2, <1>4, FS_Subset, FS_CardinalityType DEF BytesAreCounted
<1>6. pendingBytes' = Cardinality(Buffered(ToolCalls)') /\ pendingBytes' <= MaxPending /\ pendingBytes' \in Nat
  BY <1>4, <1>5, ProgressBounds DEF DropEarly, Bytes, BytesAreCounted, ProgressTyped
<1> QED
  BY <1>1, <1>4, <1>6 DEF BytesAreCounted

(* Keeping a report in the place of what was kept for its token.            *)
LEMMA KeepPays ==
  ASSUME ProgressInv, NEW c \in ToolCalls, NEW n \in Tick, Keep(c, n)
  PROVE  BytesAreCounted' /\ pendingBytes' \in Nat /\ early' \in [ToolCalls -> Tick \cup {NoProgress}]
<1> DEFINE own == {c} \X (1 .. BytesOf[c])
           rest == Buffered(ToolCalls) \ Buffered({c})
<1> USE DEF ProgressInv
<1>1. early' \in [ToolCalls -> Tick \cup {NoProgress}]
  BY DEF Keep, ProgressTyped
<1>2. Buffered({c}) \subseteq Buffered(ToolCalls)
  BY DEF Buffered, Kept
<1>3. IsFiniteSet(rest) /\ Cardinality(rest) = pendingBytes - Bytes({c}) /\ Cardinality(rest) \in Nat
  <2>1. Buffered(ToolCalls) \cap Buffered({c}) = Buffered({c})
    BY <1>2
  <2>2. IsFiniteSet(rest) /\ Cardinality(rest) = Cardinality(Buffered(ToolCalls)) - Cardinality(Buffered({c}))
    BY <2>1, FS_Difference DEF BytesAreCounted
  <2> HIDE DEF rest
  <2> QED
    BY <2>2, FS_CardinalityType DEF BytesAreCounted, Bytes
<1>4. IsFiniteSet(own) /\ Cardinality(own) = BytesOf[c]
  <2>1. IsFiniteSet({c}) /\ Cardinality({c}) = 1
    BY FS_Singleton
  <2>2. BytesOf[c] \in Nat
    BY ToolCallsAssumption
  <2>3. IsFiniteSet(1 .. BytesOf[c]) /\ Cardinality(1 .. BytesOf[c]) = BytesOf[c]
    BY <2>2, FS_Interval
  <2>4. IsFiniteSet(own) /\ Cardinality(own) = Cardinality({c}) * Cardinality(1 .. BytesOf[c])
    BY <2>1, <2>3, FS_Product
  <2>5. Cardinality(own) = 1 * BytesOf[c]
    BY <2>1, <2>3, <2>4
  <2> QED
    BY <2>2, <2>4, <2>5
<1>5. rest \cap own = {}
  BY DEF Buffered, Kept
<1>6. n # NoProgress /\ early[c] \in Tick \cup {NoProgress}
  BY TickIsNat, NoProgressAssumption DEF ProgressTyped
<1>7. CASE pendingBytes - Bytes({c}) + BytesOf[c] > MaxPending
  <2>1. early' = [early EXCEPT ![c] = NoProgress] /\ pendingBytes' = pendingBytes - Bytes({c})
    BY <1>7 DEF Keep
  <2>2. Buffered(ToolCalls)' = rest
    <3>1. Kept(ToolCalls)' = Kept(ToolCalls) \ {c}
      BY <2>1 DEF Kept, ProgressTyped
    <3>2. Kept({c}) = Kept(ToolCalls) \cap {c}
      BY DEF Kept
    <3> QED
      BY <3>1, <3>2 DEF Buffered
  <2>3. Bytes({c}) \in Nat
    BY <1>2, FS_Subset, FS_CardinalityType DEF BytesAreCounted, Bytes
  <2>4. pendingBytes' <= MaxPending
    BY <2>1, <2>3, <1>3, ProgressBounds DEF BytesAreCounted, ProgressTyped
  <2> QED
    BY <1>1, <1>3, <2>1, <2>2, <2>4 DEF BytesAreCounted
<1>8. CASE ~(pendingBytes - Bytes({c}) + BytesOf[c] > MaxPending)
  <2>1. early' = [early EXCEPT ![c] = n] /\ pendingBytes' = pendingBytes - Bytes({c}) + BytesOf[c]
    BY <1>8 DEF Keep
  <2>2. Buffered(ToolCalls)' = rest \cup own
    <3>1. Kept(ToolCalls)' = (Kept(ToolCalls) \ {c}) \cup {c}
      BY <2>1, <1>6 DEF Kept, ProgressTyped
    <3>2. Kept({c}) = Kept(ToolCalls) \cap {c}
      BY DEF Kept
    <3> QED
      BY <3>1, <3>2 DEF Buffered
  <2>3. IsFiniteSet(rest \cup own) /\ Cardinality(rest \cup own) = Cardinality(rest) + BytesOf[c]
    <3> HIDE DEF rest, own
    <3>1. Cardinality(rest \cap own) = 0
      BY <1>5, FS_EmptySet
    <3>2. BytesOf[c] \in Nat
      BY ToolCallsAssumption
    <3>3. /\ IsFiniteSet(rest \cup own)
          /\ Cardinality(rest \cup own) = Cardinality(rest) + Cardinality(own) - Cardinality(rest \cap own)
      BY <1>3, <1>4, FS_Union
    <3> QED
      BY <1>3, <1>4, <3>1, <3>2, <3>3
  <2>4. pendingBytes' <= MaxPending /\ pendingBytes' \in Nat
    <3>2. BytesOf[c] \in Nat
      BY ToolCallsAssumption
    <3> QED
      BY <2>1, <1>3, <1>8, <3>2, ProgressBounds
  <2> HIDE DEF rest, own
  <2> QED
    BY <1>1, <1>3, <2>1, <2>2, <2>3, <2>4 DEF BytesAreCounted
<1> QED
  BY <1>7, <1>8

(* A call's step changes whose calls are under way at its server only.      *)
LEMMA CountUp ==
  ASSUME ProgressInv, NEW c \in ToolCalls, callAt[c] = "idle",
         callAt' = [callAt EXCEPT ![c] = "begun"], NEW s
  PROVE  Cardinality(UnderWay(s))' = IF s = ServerOf[c] THEN Cardinality(UnderWay(s)) + 1 ELSE Cardinality(UnderWay(s))
<1>1. UnderWay(s)' = IF s = ServerOf[c] THEN UnderWay(s) \cup {c} ELSE UnderWay(s)
  BY DEF UnderWay, ProgressInv, ProgressTyped
<1>2. c \notin UnderWay(s)
  BY DEF UnderWay
<1> QED
  BY <1>1, <1>2, UnderWayFinite, FS_AddElement

LEMMA CountDown ==
  ASSUME ProgressInv, NEW c \in ToolCalls, callAt[c] \in {"begun", "bound"},
         callAt' = [callAt EXCEPT ![c] = "done"], NEW s
  PROVE  Cardinality(UnderWay(s))' = IF s = ServerOf[c] THEN Cardinality(UnderWay(s)) - 1 ELSE Cardinality(UnderWay(s))
<1>1. UnderWay(s)' = IF s = ServerOf[c] THEN UnderWay(s) \ {c} ELSE UnderWay(s)
  BY DEF UnderWay, ProgressInv, ProgressTyped
<1>2. s = ServerOf[c] => c \in UnderWay(s)
  BY DEF UnderWay
<1> QED
  BY <1>1, <1>2, UnderWayFinite, FS_RemoveElement

LEMMA CountStays ==
  ASSUME ProgressInv, NEW c \in ToolCalls, callAt[c] \notin {"idle", "done"}, NEW to,
         to \notin {"idle", "done"}, callAt' = [callAt EXCEPT ![c] = to], NEW s
  PROVE  UnderWay(s)' = UnderWay(s)
  BY DEF UnderWay, ProgressInv, ProgressTyped

(* The end of a call: its server's counter, and what goes with the last.    *)
LEMMA EndCounts ==
  ASSUME ProgressInv, NEW c \in ToolCalls, callAt[c] \in {"begun", "bound"},
         callAt' = [callAt EXCEPT ![c] = "done"], NEW own \in SUBSET ToolCalls, EndCall(c, own)
  PROVE  /\ CallsAreCounted' /\ BytesAreCounted'
         /\ activeCalls' \in [ServersCalled -> Nat] /\ pendingBytes' \in Nat
         /\ early' \in [ToolCalls -> Tick \cup {NoProgress}]
         /\ \A d \in ToolCalls : d \in own \/ early[d] = NoProgress => early'[d] = NoProgress
<1> USE DEF ProgressInv
<1>1. DropEarly(own \cup Orphaned(c)) /\ own \cup Orphaned(c) \in SUBSET ToolCalls
  BY DEF EndCall, Orphaned
<1>2. BytesAreCounted' /\ pendingBytes' \in Nat /\ early' \in [ToolCalls -> Tick \cup {NoProgress}]
  BY <1>1, DropPays
<1>3. \A d \in ToolCalls : d \in own \cup Orphaned(c) \/ early[d] = NoProgress => early'[d] = NoProgress
  BY <1>1 DEF DropEarly
<1>4. ServerOf[c] \in ServersCalled /\ c \in UnderWay(ServerOf[c])
  BY DEF ServersCalled, UnderWay
<1>5. activeCalls[ServerOf[c]] > 0
  <2>1. Cardinality(UnderWay(ServerOf[c])) # 0
    BY <1>4, UnderWayFinite, FS_EmptySet
  <2> QED
    BY <1>4, <2>1, UnderWayFinite DEF CallsAreCounted
<1>6. activeCalls' \in [ServersCalled -> Nat]
  BY <1>4, <1>5 DEF EndCall, ProgressTyped
<1>7. CallsAreCounted'
  <2> SUFFICES ASSUME NEW s \in ServersCalled
               PROVE  /\ activeCalls'[s] = Cardinality(UnderWay(s)')
                      /\ activeCalls'[s] = 0 =>
                            \A d \in ToolCalls : ServerOf[d] = s => early'[d] = NoProgress
    BY DEF CallsAreCounted
  <2>1. activeCalls'[s] = IF s = ServerOf[c] THEN activeCalls[s] - 1 ELSE activeCalls[s]
    BY DEF EndCall, ProgressTyped
  <2>2. activeCalls'[s] = Cardinality(UnderWay(s)')
    <3>1. Cardinality(UnderWay(s)') = IF s = ServerOf[c] THEN Cardinality(UnderWay(s)) - 1
                                                         ELSE Cardinality(UnderWay(s))
      BY CountDown
    <3>2. activeCalls[s] = Cardinality(UnderWay(s))
      BY DEF CallsAreCounted
    <3> QED
      BY <2>1, <3>1, <3>2
  <2>3. ASSUME activeCalls'[s] = 0, NEW d \in ToolCalls, ServerOf[d] = s PROVE early'[d] = NoProgress
    <3>1. CASE s = ServerOf[c]
      <4>1. activeCalls[ServerOf[c]] = 1
        BY <2>1, <2>3, <3>1, <1>5 DEF ProgressTyped
      <4> QED
        BY <4>1, <3>1, <2>3, <1>3 DEF Orphaned
    <3>2. CASE s # ServerOf[c]
      BY <2>1, <2>3, <3>2, <1>3 DEF CallsAreCounted
    <3> QED
      BY <3>1, <3>2
  <2> QED
    BY <2>2, <2>3
<1> QED
  BY <1>2, <1>3, <1>6, <1>7

LEMMA ProgressCallStep ==
  ASSUME ProgressInv, NEW c \in ToolCalls,
         \/ BeginCall(c) \/ CancelUnbound(c) \/ SendCall(c) \/ Register(c) \/ ForwardTaken(c) \/ RemoveRoute(c)
  PROVE  ProgressInv'
<1> USE DEF ProgressInv
<1>1. CASE BeginCall(c)
  <2> USE <1>1 DEF BeginCall, Moves
  <2>1. ServerOf[c] \in ServersCalled
    BY DEF ServersCalled
  <2>2. ProgressTyped' /\ TakenIsProgress' /\ RoutesKeepNothing' /\ BytesAreCounted'
    <3>1. ProgressTyped'
      BY <2>1 DEF ProgressTyped
    <3>2. TakenIsProgress' /\ RoutesKeepNothing'
      BY DEF ProgressTyped, TakenIsProgress, RoutesKeepNothing
    <3>3. BytesAreCounted'
      BY DEF BytesAreCounted, Buffered, Kept
    <3> QED
      BY <3>1, <3>2, <3>3
  <2>3. CallsAreCounted'
    <3> SUFFICES ASSUME NEW s \in ServersCalled
                 PROVE  /\ activeCalls'[s] = Cardinality(UnderWay(s)')
                        /\ activeCalls'[s] = 0 =>
                              \A d \in ToolCalls : ServerOf[d] = s => early'[d] = NoProgress
      BY DEF CallsAreCounted
    <3>1. activeCalls'[s] = IF s = ServerOf[c] THEN activeCalls[s] + 1 ELSE activeCalls[s]
      BY DEF ProgressTyped
    <3>2. activeCalls'[s] = Cardinality(UnderWay(s)')
      BY <3>1, CountUp DEF CallsAreCounted
    <3>3. activeCalls'[s] = 0 => activeCalls[s] = 0
      BY <3>1 DEF ProgressTyped
    <3> QED
      BY <3>2, <3>3 DEF CallsAreCounted
  <2> QED
    BY <2>2, <2>3
<1>2. CASE CancelUnbound(c)
  <2> USE <1>2 DEF CancelUnbound, Moves
  <2>1. /\ CallsAreCounted' /\ BytesAreCounted'
        /\ activeCalls' \in [ServersCalled -> Nat] /\ pendingBytes' \in Nat
        /\ early' \in [ToolCalls -> Tick \cup {NoProgress}]
        /\ \A d \in ToolCalls : early[d] = NoProgress => early'[d] = NoProgress
    BY EndCounts
  <2>2. ProgressTyped'
    BY <2>1 DEF ProgressTyped
  <2>3. TakenIsProgress' /\ RoutesKeepNothing'
    BY <2>1 DEF ProgressTyped, TakenIsProgress, RoutesKeepNothing
  <2> QED
    BY <2>1, <2>2, <2>3
<1>3. CASE SendCall(c)
  <2> USE <1>3 DEF SendCall, Moves
  <2>1. ProgressTyped'
    BY DEF ProgressTyped
  <2>2. TakenIsProgress' /\ RoutesKeepNothing'
    BY DEF ProgressTyped, TakenIsProgress, RoutesKeepNothing
  <2>3. CallsAreCounted'
    BY CountStays DEF CallsAreCounted
  <2>4. BytesAreCounted'
    BY DEF BytesAreCounted, Buffered, Kept
  <2> QED
    BY <2>1, <2>2, <2>3, <2>4
<1>4. CASE Register(c)
  <2> USE <1>4 DEF Register, Moves
  <2>1. BytesAreCounted' /\ pendingBytes' \in Nat /\ early' \in [ToolCalls -> Tick \cup {NoProgress}]
    BY DropPays
  <2>2. \A d \in ToolCalls : d = c \/ early[d] = NoProgress => early'[d] = NoProgress
    BY DEF DropEarly
  <2>3. ProgressTyped'
    BY <2>1 DEF ProgressTyped
  <2>4. TakenIsProgress'
    BY DEF ProgressTyped, TakenIsProgress
  <2>5. RoutesKeepNothing'
    BY <2>2 DEF ProgressTyped, RoutesKeepNothing
  <2>6. CallsAreCounted'
    <3> DEFINE to == IF early[c] = NoProgress THEN "bound" ELSE "forwarding"
    <3>1. callAt' = [callAt EXCEPT ![c] = to] /\ to \notin {"idle", "done"}
      OBVIOUS
    <3>2. \A s : UnderWay(s)' = UnderWay(s)
      <4> HIDE DEF to
      <4> QED
        BY <3>1, CountStays
    <3> QED
      BY <3>2, <2>2 DEF CallsAreCounted
  <2> QED
    BY <2>1, <2>3, <2>4, <2>5, <2>6
<1>5. CASE ForwardTaken(c)
  <2> USE <1>5 DEF ForwardTaken, Moves
  <2>1. ProgressTyped'
    BY DEF ProgressTyped, TakenIsProgress
  <2>2. TakenIsProgress' /\ RoutesKeepNothing'
    BY DEF ProgressTyped, TakenIsProgress, RoutesKeepNothing
  <2>3. CallsAreCounted'
    BY CountStays DEF CallsAreCounted
  <2>4. BytesAreCounted'
    BY DEF BytesAreCounted, Buffered, Kept
  <2> QED
    BY <2>1, <2>2, <2>3, <2>4
<1>6. CASE RemoveRoute(c)
  <2> USE <1>6 DEF RemoveRoute, Moves
  <2>1. /\ CallsAreCounted' /\ BytesAreCounted'
        /\ activeCalls' \in [ServersCalled -> Nat] /\ pendingBytes' \in Nat
        /\ early' \in [ToolCalls -> Tick \cup {NoProgress}]
        /\ \A d \in ToolCalls : early[d] = NoProgress => early'[d] = NoProgress
    BY EndCounts
  <2>2. ProgressTyped'
    BY <2>1 DEF ProgressTyped
  <2>3. TakenIsProgress' /\ RoutesKeepNothing'
    BY <2>1 DEF ProgressTyped, TakenIsProgress, RoutesKeepNothing
  <2> QED
    BY <2>1, <2>2, <2>3
<1> QED
  BY <1>1, <1>2, <1>3, <1>4, <1>5, <1>6

LEMMA ProgressNewsStep ==
  ASSUME ProgressInv, NEW c \in ToolCalls, NEW n \in Tick,
         \/ Emit(c) \/ Route(c, n) \/ Keep(c, n) \/ Discard(c, n) \/ Write(c, n)
  PROVE  ProgressInv'
<1> USE DEF ProgressInv
<1>1. CASE Keep(c, n)
  <2>1. BytesAreCounted' /\ pendingBytes' \in Nat /\ early' \in [ToolCalls -> Tick \cup {NoProgress}]
    BY <1>1, KeepPays
  <2>2. /\ \A d \in ToolCalls : d # c => early'[d] = early[d]
        /\ c \notin routes /\ activeCalls[ServerOf[c]] > 0
        /\ UNCHANGED <<callAt, routes, activeCalls, taken, emitted, sending, seen>>
    BY <1>1 DEF Keep, ProgressTyped
  <2>3. ProgressTyped'
    BY <1>1, <2>1, <2>2 DEF ProgressTyped, Keep, Arrives
  <2>4. TakenIsProgress' /\ RoutesKeepNothing'
    BY <2>2 DEF ProgressTyped, TakenIsProgress, RoutesKeepNothing
  <2>5. CallsAreCounted'
    <3>1. \A s : UnderWay(s)' = UnderWay(s)
      BY <2>2 DEF UnderWay
    <3>2. ServerOf[c] \in ServersCalled
      BY DEF ServersCalled
    <3> QED
      BY <2>2, <3>1, <3>2 DEF CallsAreCounted, ProgressTyped
  <2> QED
    BY <2>1, <2>3, <2>4, <2>5
<1>2. ASSUME UNCHANGED <<callAt, routes, early, activeCalls, pendingBytes, taken>>, ProgressTyped' PROVE ProgressInv'
  BY <1>2 DEF TakenIsProgress, CallsAreCounted, RoutesKeepNothing, BytesAreCounted, UnderWay, Buffered, Kept
<1>3. CASE Emit(c)
  <2>1. emitted[c] + 1 \in Tick
    <3>0. emitted[c] = 0 \/ emitted[c] \in Tick
      BY DEF ProgressTyped
    <3>1. emitted[c] \in Nat
      <4>1. CASE emitted[c] = 0
        BY <4>1
      <4>2. CASE emitted[c] \in Tick
        BY <4>2, TickIsNat, Zenon
      <4> QED
        BY <3>0, <4>1, <4>2
    <3>2. MaxProgress[c] \in Nat
      BY ProgressBounds
    <3>3. emitted[c] + 1 \in 1 .. MaxProgress[c]
      BY <1>3, <3>1, <3>2 DEF Emit
    <3> QED
      BY <3>3 DEF Tick
  <2>2. ProgressTyped'
    BY <1>3, <2>1 DEF Emit, ProgressTyped
  <2> QED
    BY <1>2, <1>3, <2>2 DEF Emit
<1>4. CASE Route(c, n)
  <2>1. ProgressTyped'
    BY <1>4 DEF Route, Arrives, ProgressTyped
  <2> QED
    BY <1>2, <1>4, <2>1 DEF Route
<1>5. CASE Discard(c, n)
  <2>1. ProgressTyped'
    BY <1>5 DEF Discard, Arrives, ProgressTyped
  <2> QED
    BY <1>2, <1>5, <2>1 DEF Discard
<1>6. CASE Write(c, n)
  <2>1. ProgressTyped'
    BY <1>6 DEF Write, ProgressTyped
  <2> QED
    BY <1>2, <1>6, <2>1 DEF Write
<1> QED
  BY <1>1, <1>3, <1>4, <1>5, <1>6

LEMMA ProgressInvStep == ProgressInv /\ [ProgressNext]_progressVars => ProgressInv'
<1> SUFFICES ASSUME ProgressInv, [ProgressNext]_progressVars PROVE ProgressInv'
  OBVIOUS
<1>1. CASE UNCHANGED progressVars
  BY <1>1 DEF progressVars, ProgressInv, ProgressTyped, TakenIsProgress, CallsAreCounted,
              RoutesKeepNothing, BytesAreCounted, UnderWay, Buffered, Kept
<1>2. ASSUME NEW c \in ToolCalls, Emit(c) PROVE ProgressInv'
  <2>1. 1 \in 1 .. MaxProgress[c]
    <3>0. emitted[c] = 0 \/ emitted[c] \in Tick
      BY DEF ProgressInv, ProgressTyped
    <3>1. emitted[c] \in Nat
      <4>1. CASE emitted[c] = 0
        BY <4>1
      <4>2. CASE emitted[c] \in Tick
        BY <4>2, TickIsNat, Zenon
      <4> QED
        BY <3>0, <4>1, <4>2
    <3>2. MaxProgress[c] \in Nat
      BY ProgressBounds
    <3> QED
      BY <1>2, <3>1, <3>2 DEF Emit
  <2>2. 1 \in Tick
    BY <2>1 DEF Tick
  <2> QED
    BY <1>2, <2>2, ProgressNewsStep
<1>3. CASE ProgressNext
  BY <1>2, <1>3, ProgressCallStep, ProgressNewsStep DEF ProgressNext
<1> QED
  BY <1>1, <1>3

LEMMA ProgressIsTyped == ProgressInv => ProgressTypeOK
<1> SUFFICES ASSUME ProgressInv PROVE ProgressTypeOK
  OBVIOUS
<1>1. \A s \in ServersCalled : activeCalls[s] <= Cardinality(ToolCalls)
  BY UnderWayFinite DEF ProgressInv, CallsAreCounted
<1>2. Cardinality(ToolCalls) \in Nat
  BY ToolCallsAssumption, FS_CardinalityType
<1>3. activeCalls \in [ServersCalled -> 0 .. Cardinality(ToolCalls)]
  BY <1>1, <1>2 DEF ProgressInv, ProgressTyped
<1> QED
  BY <1>3 DEF ProgressInv, ProgressTyped, ProgressTypeOK

LEMMA ProgressIsExact == ProgressInv => AccountIsExact
  BY DEF ProgressInv, CallsAreCounted, RoutesKeepNothing, BytesAreCounted, UnderWay, AccountIsExact, Bytes

-----------------------------------------------------------------------------
(* The HTTP session.                                                        *)

PostState == [at : {"idle", "found", "registered", "waiting", "done"},
              got : {"nothing", "answer", "ended", "duplicate", "unknown"}]
InboundState == [open : BOOLEAN, queue : Seq(Posts)]
ServiceState == [up : BOOLEAN, working : SUBSET Posts]

HttpTyped ==
    /\ post \in [Posts -> PostState]
    /\ mapped \in BOOLEAN /\ closed \in BOOLEAN /\ cancelled \in BOOLEAN /\ overflowed \in BOOLEAN
    /\ waiter \in [Ids -> Posts \cup {NoWaiter, Dead}]
    /\ inbound \in InboundState
    /\ service \in ServiceState
    /\ finish \in [Finishers -> {"no", "close", "cancel", "inbound", "pending", "events"}]

Serving == ~closed /\ service.up
Queued(p) == p \in Range(inbound.queue) \cup service.working
Live(p) == post[p].at = "registered" \/ Queued(p)
Duplicated(p) == \E q \in Posts \ {p} : IdOf[q] = IdOf[p] /\ post[q].got = "duplicate"

(* Who is past closing the session has closed it, and so has the end of the *)
(* inbound queue.                                                           *)
FinishersClose ==
    /\ \A f \in Finishers : finish[f] \in {"cancel", "inbound", "pending", "events"} => closed
    /\ inbound.open \/ closed

(* The messages the loop has yet to answer are distinct, of distinct ids,   *)
(* and of POSTs that wait or have stopped waiting.                          *)
MessagesAreDistinct ==
    /\ \A i, j \in DOMAIN inbound.queue : inbound.queue[i] = inbound.queue[j] => i = j
    /\ Range(inbound.queue) \cap service.working = {}
    /\ \A p \in Posts : Queued(p) => post[p].at \in {"waiting", "done"}

(* While the session serves, a POST under way has its id, or lost it to a   *)
(* duplicate; one that waits has its message with the loop.                 *)
WaitersAreTheirs ==
    Serving =>
        /\ \A p \in Posts : Live(p) => waiter[IdOf[p]] \in {p, Dead}
        /\ \A p, q \in Posts : Live(p) /\ Live(q) /\ IdOf[p] = IdOf[q] => p = q
        /\ \A p \in Posts : Live(p) /\ waiter[IdOf[p]] = Dead => Duplicated(p)
        /\ \A p \in Posts : post[p].at = "waiting" => Duplicated(p) \/ (Queued(p) /\ waiter[IdOf[p]] = p)
        /\ \A p \in Posts : post[p].got = "ended" => Duplicated(p)

(* A POST is told once.                                                     *)
ToldAtTheEnd == \A p \in Posts : post[p].at # "done" => post[p].got = "nothing"

PostInv == HttpTyped /\ ToldAtTheEnd /\ FinishersClose /\ MessagesAreDistinct /\ WaitersAreTheirs

LEMMA PostInvInit == HttpInit => PostInv
<1> SUFFICES ASSUME HttpInit PROVE PostInv
  OBVIOUS
<1>1. Range(inbound.queue) = {}
  BY DEF HttpInit, Range
<1>2. HttpTyped
  <2>1. <<>> \in Seq(Posts)
    OBVIOUS
  <2>2. inbound \in InboundState
    BY <2>1 DEF HttpInit, InboundState
  <2>3. service \in ServiceState /\ post \in [Posts -> PostState]
    BY DEF HttpInit, ServiceState, PostState
  <2> QED
    BY <2>2, <2>3 DEF HttpInit, HttpTyped
<1> QED
  BY <1>1, <1>2 DEF HttpInit, PostInv, ToldAtTheEnd, FinishersClose, MessagesAreDistinct, WaitersAreTheirs, Live, Queued

LEMMA RangeOfAppend ==
  ASSUME NEW S, NEW q \in Seq(S), NEW x \in S
  PROVE  Range(Append(q, x)) = Range(q) \cup {x} /\ Append(q, x) \in Seq(S)
<1>1. /\ Append(q, x) \in Seq(S) /\ Len(Append(q, x)) = Len(q) + 1 /\ Len(q) \in Nat
      /\ \A i \in 1 .. Len(q) : Append(q, x)[i] = q[i]
      /\ Append(q, x)[Len(q) + 1] = x
  OBVIOUS
<1>2. DOMAIN q = 1 .. Len(q) /\ DOMAIN Append(q, x) = 1 .. Len(q) + 1
  BY <1>1
<1>3. 1 .. Len(q) + 1 = (1 .. Len(q)) \cup {Len(q) + 1}
  BY <1>1
<1>4. Range(q) \cup {x} \subseteq Range(Append(q, x))
  BY <1>1, <1>2, <1>3 DEF Range
<1>5. Range(Append(q, x)) \subseteq Range(q) \cup {x}
  <2> SUFFICES ASSUME NEW i \in DOMAIN Append(q, x) PROVE Append(q, x)[i] \in Range(q) \cup {x}
    BY DEF Range
  <2> QED
    BY <1>1, <1>2, <1>3 DEF Range
<1> QED
  BY <1>1, <1>4, <1>5

LEMMA RangeOfTail ==
  ASSUME NEW S, NEW q \in Seq(S), q # <<>>, \A i, j \in DOMAIN q : q[i] = q[j] => i = j
  PROVE  /\ Range(Tail(q)) = Range(q) \ {Head(q)} /\ Tail(q) \in Seq(S) /\ Head(q) \in S
         /\ Head(q) \in Range(q)
<1>1. /\ Tail(q) \in Seq(S) /\ Len(Tail(q)) = Len(q) - 1 /\ Len(q) \in Nat \ {0}
      /\ Head(q) = q[1] /\ Head(q) \in S
      /\ \A i \in 1 .. Len(q) - 1 : Tail(q)[i] = q[i + 1]
  OBVIOUS
<1>2. DOMAIN q = 1 .. Len(q) /\ DOMAIN Tail(q) = 1 .. Len(q) - 1
  BY <1>1
<1>3. Range(Tail(q)) \subseteq Range(q) \ {Head(q)}
  <2> SUFFICES ASSUME NEW i \in 1 .. Len(q) - 1 PROVE Tail(q)[i] \in Range(q) \ {Head(q)}
    BY <1>2 DEF Range
  <2>1. i + 1 \in DOMAIN q /\ 1 \in DOMAIN q /\ i + 1 # 1
    BY <1>1, <1>2
  <2> QED
    BY <1>1, <2>1 DEF Range
<1>4. Range(q) \ {Head(q)} \subseteq Range(Tail(q))
  <2> SUFFICES ASSUME NEW j \in DOMAIN q, q[j] # Head(q) PROVE q[j] \in Range(Tail(q))
    BY DEF Range
  <2>1. j \in 1 .. Len(q) /\ j # 1
    BY <1>1, <1>2
  <2>2. j - 1 \in 1 .. Len(q) - 1 /\ (j - 1) + 1 = j
    BY <1>1, <2>1
  <2>3. Tail(q)[j - 1] = q[j] /\ j - 1 \in DOMAIN Tail(q)
    BY <1>1, <1>2, <2>2
  <2> QED
    BY <2>3 DEF Range
<1>5. Head(q) \in Range(q)
  BY <1>1, <1>2 DEF Range
<1> QED
  BY <1>1, <1>3, <1>4, <1>5

(* What most steps leave of the waiters: nobody new is under way, waits or  *)
(* was told that the session has ended.                                     *)
LEMMA WaitersStay ==
  ASSUME WaitersAreTheirs, Serving' => Serving, UNCHANGED waiter,
         \A q \in Posts :
             /\ Live(q)' => Live(q)
             /\ Duplicated(q) => Duplicated(q)'
             /\ post'[q].at = "waiting" => post[q].at = "waiting" /\ (Queued(q) => Queued(q)')
             /\ post'[q].got = "ended" => post[q].got = "ended" \/ (Serving => Duplicated(q))
  PROVE  WaitersAreTheirs'
<1> SUFFICES ASSUME Serving' PROVE
        /\ \A p \in Posts : Live(p)' => waiter'[IdOf[p]] \in {p, Dead}
        /\ \A p, q \in Posts : Live(p)' /\ Live(q)' /\ IdOf[p] = IdOf[q] => p = q
        /\ \A p \in Posts : Live(p)' /\ waiter'[IdOf[p]] = Dead => Duplicated(p)'
        /\ \A p \in Posts : post'[p].at = "waiting" => Duplicated(p)' \/ (Queued(p)' /\ waiter'[IdOf[p]] = p)
        /\ \A p \in Posts : post'[p].got = "ended" => Duplicated(p)'
  BY DEF WaitersAreTheirs
<1> QED
  BY DEF WaitersAreTheirs

LEMMA DuplicatesStay ==
  ASSUME NEW p \in Posts, \A q \in Posts \ {p} : post'[q] = post[q], post[p].got # "duplicate", NEW q \in Posts
  PROVE  Duplicated(q) => Duplicated(q)'
  BY DEF Duplicated

LEMMA FindSessionStep == ASSUME PostInv, NEW p \in Posts, FindSession(p) PROVE PostInv'
<1> USE DEF PostInv
<1>1. p \in Finishers
  BY DEF Finishers
<1>2. post' \in [Posts -> PostState] /\ \A q \in Posts \ {p} : post'[q] = post[q]
  BY DEF FindSession, Reply, Advance, HttpTyped, PostState
<1>3. /\ post[p].at = "idle" /\ post[p].got = "nothing"
      /\ \/ post'[p].at = "found" /\ post'[p].got = "nothing"
         \/ post'[p].at = "done" /\ post'[p].got = "unknown"
  BY DEF FindSession, Reply, Advance, HttpTyped, PostState, ToldAtTheEnd
<1>4. UNCHANGED <<waiter, inbound, closed, cancelled, overflowed, service>>
  BY DEF FindSession
<1>5. /\ mapped' \in BOOLEAN /\ finish' \in [Finishers -> {"no", "close", "cancel", "inbound", "pending", "events"}]
      /\ \A f \in Finishers : finish'[f] \in {finish[f], "close"}
  BY <1>1 DEF FindSession, Lookup, HttpTyped
<1>6. HttpTyped' /\ FinishersClose' /\ ToldAtTheEnd'
  BY <1>2, <1>3, <1>4, <1>5 DEF HttpTyped, FinishersClose, ToldAtTheEnd
<1>7. MessagesAreDistinct'
  BY <1>2, <1>3, <1>4 DEF MessagesAreDistinct, Queued
<1>8. WaitersAreTheirs'
  <2>1. \A q \in Posts : (Live(q)' <=> Live(q)) /\ (Queued(q)' <=> Queued(q))
    BY <1>2, <1>3, <1>4 DEF Live, Queued
  <2>2. \A q \in Posts : Duplicated(q) => Duplicated(q)'
    BY <1>2, <1>3, DuplicatesStay
  <2>3. \A q \in Posts : /\ post'[q].at = "waiting" => post[q].at = "waiting"
                         /\ post'[q].got = "ended" => post[q].got = "ended"
    BY <1>2, <1>3
  <2>4. Serving' => Serving
    BY <1>4 DEF Serving
  <2> QED
    BY <1>4, <2>1, <2>2, <2>3, <2>4, WaitersStay
<1> QED
  BY <1>6, <1>7, <1>8

LEMMA RegisterWaiterStep == ASSUME PostInv, NEW p \in Posts, RegisterWaiter(p) PROVE PostInv'
<1> USE DEF PostInv
<1>1. IdOf[p] \in Ids
  BY DEF Ids
<1>2. /\ UNCHANGED <<mapped, inbound, closed, cancelled, overflowed, service, finish>>
      /\ post[p].at = "found" /\ post[p].got = "nothing"
  BY DEF RegisterWaiter, ToldAtTheEnd
<1>3. ~Live(p) /\ \A q \in Posts : Queued(q)' <=> Queued(q)
  BY <1>2 DEF Live, Queued, MessagesAreDistinct
<1>4. CASE waiter[IdOf[p]] = NoWaiter
  <2>1. waiter' = [waiter EXCEPT ![IdOf[p]] = p] /\ Advance(p, "registered")
    BY <1>4 DEF RegisterWaiter
  <2>2. /\ post' \in [Posts -> PostState] /\ \A q \in Posts \ {p} : post'[q] = post[q]
        /\ post'[p].at = "registered" /\ post'[p].got = "nothing"
    BY <1>2, <2>1 DEF Advance, HttpTyped, PostState
  <2>3. /\ waiter' \in [Ids -> Posts \cup {NoWaiter, Dead}] /\ waiter'[IdOf[p]] = p
        /\ \A i \in Ids \ {IdOf[p]} : waiter'[i] = waiter[i]
    BY <1>1, <2>1 DEF HttpTyped
  <2>4. HttpTyped' /\ FinishersClose' /\ ToldAtTheEnd' /\ MessagesAreDistinct'
    BY <1>2, <1>3, <2>2, <2>3 DEF HttpTyped, FinishersClose, ToldAtTheEnd, MessagesAreDistinct, Queued
  <2>5. \A q \in Posts : Duplicated(q) => Duplicated(q)'
    BY <1>2, <2>2, DuplicatesStay
  <2>6. \A q \in Posts : Live(q)' <=> Live(q) \/ q = p
    BY <1>3, <2>2 DEF Live
  <2>7. Serving => \A q \in Posts : Live(q) => IdOf[q] # IdOf[p]
    BY <1>4, NoWaiterAssumption DEF WaitersAreTheirs, Dead
  <2>8. WaitersAreTheirs'
    <3> SUFFICES ASSUME Serving' PROVE
            /\ \A q \in Posts : Live(q)' => waiter'[IdOf[q]] \in {q, Dead}
            /\ \A q, r \in Posts : Live(q)' /\ Live(r)' /\ IdOf[q] = IdOf[r] => q = r
            /\ \A q \in Posts : Live(q)' /\ waiter'[IdOf[q]] = Dead => Duplicated(q)'
            /\ \A q \in Posts : post'[q].at = "waiting" => Duplicated(q)' \/ (Queued(q)' /\ waiter'[IdOf[q]] = q)
            /\ \A q \in Posts : post'[q].got = "ended" => Duplicated(q)'
      BY DEF WaitersAreTheirs
    <3>1. Serving /\ \A q \in Posts : IdOf[q] \in Ids
      BY <1>2 DEF Serving, Ids
    <3>2. p # Dead
      BY NoWaiterAssumption DEF Dead
    <3>3. \A q \in Posts : Live(q) => waiter'[IdOf[q]] = waiter[IdOf[q]]
      BY <2>3, <2>7, <3>1
    <3>4. \A q \in Posts : Live(q)' => waiter'[IdOf[q]] \in {q, Dead}
      BY <2>3, <2>6, <3>1, <3>3 DEF WaitersAreTheirs
    <3>5. \A q, r \in Posts : Live(q)' /\ Live(r)' /\ IdOf[q] = IdOf[r] => q = r
      BY <2>6, <2>7, <3>1 DEF WaitersAreTheirs
    <3>6. \A q \in Posts : Live(q)' /\ waiter'[IdOf[q]] = Dead => Duplicated(q)'
      BY <2>3, <2>5, <2>6, <3>1, <3>2, <3>3 DEF WaitersAreTheirs
    <3>7. \A q \in Posts : post'[q].at = "waiting" => Duplicated(q)' \/ (Queued(q)' /\ waiter'[IdOf[q]] = q)
      BY <1>3, <2>2, <2>5, <3>1, <3>3 DEF WaitersAreTheirs, Live
    <3>8. \A q \in Posts : post'[q].got = "ended" => Duplicated(q)'
      BY <2>2, <2>5, <3>1 DEF WaitersAreTheirs
    <3> QED
      BY <3>4, <3>5, <3>6, <3>7, <3>8
  <2> QED
    BY <2>4, <2>8
<1>5. CASE waiter[IdOf[p]] # NoWaiter
  <2>1. waiter' = [waiter EXCEPT ![IdOf[p]] = Dead] /\ Reply(p, "duplicate")
    BY <1>5 DEF RegisterWaiter
  <2>2. /\ post' \in [Posts -> PostState] /\ \A q \in Posts \ {p} : post'[q] = post[q]
        /\ post'[p].at = "done" /\ post'[p].got = "duplicate"
    BY <1>2, <2>1 DEF Reply, HttpTyped, PostState
  <2>3. /\ waiter' \in [Ids -> Posts \cup {NoWaiter, Dead}] /\ waiter'[IdOf[p]] = Dead
        /\ \A i \in Ids \ {IdOf[p]} : waiter'[i] = waiter[i]
    BY <1>1, <2>1 DEF HttpTyped
  <2>4. HttpTyped' /\ FinishersClose' /\ ToldAtTheEnd' /\ MessagesAreDistinct'
    BY <1>2, <1>3, <2>2, <2>3 DEF HttpTyped, FinishersClose, ToldAtTheEnd, MessagesAreDistinct, Queued, Live
  <2>5. \A q \in Posts : Duplicated(q) => Duplicated(q)'
    BY <1>2, <2>2, DuplicatesStay
  <2>6. \A q \in Posts : Live(q)' <=> Live(q)
    BY <1>3, <2>2 DEF Live
  <2>7. \A q \in Posts \ {p} : IdOf[q] = IdOf[p] => Duplicated(q)'
    BY <2>2 DEF Duplicated
  <2>8. WaitersAreTheirs'
    <3> SUFFICES ASSUME Serving' PROVE
            /\ \A q \in Posts : Live(q)' => waiter'[IdOf[q]] \in {q, Dead}
            /\ \A q, r \in Posts : Live(q)' /\ Live(r)' /\ IdOf[q] = IdOf[r] => q = r
            /\ \A q \in Posts : Live(q)' /\ waiter'[IdOf[q]] = Dead => Duplicated(q)'
            /\ \A q \in Posts : post'[q].at = "waiting" => Duplicated(q)' \/ (Queued(q)' /\ waiter'[IdOf[q]] = q)
            /\ \A q \in Posts : post'[q].got = "ended" => Duplicated(q)'
      BY DEF WaitersAreTheirs
    <3>1. Serving /\ \A q \in Posts : IdOf[q] \in Ids
      BY <1>2 DEF Serving, Ids
    <3>2. \A q \in Posts : IdOf[q] # IdOf[p] => waiter'[IdOf[q]] = waiter[IdOf[q]]
      BY <2>3, <3>1
    <3>3. \A q \in Posts : Live(q)' => q # p
      BY <1>3, <2>6
    <3>4. \A q \in Posts : Live(q)' => waiter'[IdOf[q]] \in {q, Dead}
      BY <2>3, <2>6, <3>1, <3>2 DEF WaitersAreTheirs
    <3>5. \A q, r \in Posts : Live(q)' /\ Live(r)' /\ IdOf[q] = IdOf[r] => q = r
      BY <2>6, <3>1 DEF WaitersAreTheirs
    <3>6. \A q \in Posts : Live(q)' /\ waiter'[IdOf[q]] = Dead => Duplicated(q)'
      BY <2>5, <2>6, <2>7, <3>1, <3>2, <3>3 DEF WaitersAreTheirs
    <3>7. \A q \in Posts : post'[q].at = "waiting" => Duplicated(q)' \/ (Queued(q)' /\ waiter'[IdOf[q]] = q)
      BY <1>3, <2>2, <2>5, <2>7, <3>1, <3>2 DEF WaitersAreTheirs
    <3>8. \A q \in Posts : post'[q].got = "ended" => Duplicated(q)'
      BY <2>2, <2>5, <3>1 DEF WaitersAreTheirs
    <3> QED
      BY <3>4, <3>5, <3>6, <3>7, <3>8
  <2> QED
    BY <2>4, <2>8
<1> QED
  BY <1>4, <1>5

LEMMA QueueMessageStep == ASSUME PostInv, NEW p \in Posts, QueueMessage(p) PROVE PostInv'
<1> USE DEF PostInv
<1>1. IdOf[p] \in Ids
  BY DEF Ids
<1>2. /\ UNCHANGED <<mapped, closed, cancelled, overflowed, service, finish>>
      /\ post[p].at = "registered" /\ post[p].got = "nothing"
  BY DEF QueueMessage, ToldAtTheEnd
<1>3. ~Queued(p) /\ Live(p)
  BY <1>2 DEF Live, MessagesAreDistinct
<1>4. CASE inbound.open /\ service.up
  <2>1. /\ inbound' = [inbound EXCEPT !.queue = Append(@, p)] /\ Advance(p, "waiting") /\ UNCHANGED waiter
    BY <1>4 DEF QueueMessage
  <2>2. /\ post' \in [Posts -> PostState] /\ \A q \in Posts \ {p} : post'[q] = post[q]
        /\ post'[p].at = "waiting" /\ post'[p].got = "nothing"
    BY <1>2, <2>1 DEF Advance, HttpTyped, PostState
  <2>3. inbound.queue \in Seq(Posts)
    BY DEF HttpTyped, InboundState
  <2>4. Append(inbound.queue, p) \in Seq(Posts) /\ Range(Append(inbound.queue, p)) = Range(inbound.queue) \cup {p}
    BY <2>3, RangeOfAppend
  <2>5. inbound'.queue = Append(inbound.queue, p) /\ inbound'.open = inbound.open /\ inbound' \in InboundState
    BY <2>1, <2>4 DEF HttpTyped, InboundState
  <2>6. \A q \in Posts : Queued(q)' <=> Queued(q) \/ q = p
    BY <1>2, <2>4, <2>5 DEF Queued
  <2>7. HttpTyped' /\ FinishersClose' /\ ToldAtTheEnd'
    BY <1>2, <2>1, <2>2, <2>5 DEF HttpTyped, FinishersClose, ToldAtTheEnd
  <2>8. MessagesAreDistinct'
    <3>1. /\ Len(Append(inbound.queue, p)) = Len(inbound.queue) + 1 /\ Len(inbound.queue) \in Nat
          /\ DOMAIN Append(inbound.queue, p) = 1 .. Len(inbound.queue) + 1
          /\ DOMAIN inbound.queue = 1 .. Len(inbound.queue)
          /\ \A i \in 1 .. Len(inbound.queue) : Append(inbound.queue, p)[i] = inbound.queue[i]
          /\ Append(inbound.queue, p)[Len(inbound.queue) + 1] = p
      BY <2>3, <2>4
    <3>2. \A i \in DOMAIN inbound.queue : inbound.queue[i] # p
      BY <1>3 DEF Queued, Range
    <3>3. ASSUME NEW i \in DOMAIN inbound'.queue, NEW j \in DOMAIN inbound'.queue,
                 inbound'.queue[i] = inbound'.queue[j]
          PROVE  i = j
      <4>1. i \in DOMAIN inbound.queue \/ i = Len(inbound.queue) + 1
        BY <2>5, <3>1
      <4>2. j \in DOMAIN inbound.queue \/ j = Len(inbound.queue) + 1
        BY <2>5, <3>1
      <4> QED
        BY <2>5, <3>1, <3>2, <3>3, <4>1, <4>2 DEF MessagesAreDistinct
    <3>4. Range(inbound'.queue) \cap service'.working = {}
      BY <1>2, <1>3, <2>4, <2>5 DEF MessagesAreDistinct, Queued
    <3>5. \A q \in Posts : Queued(q)' => post'[q].at \in {"waiting", "done"}
      BY <2>2, <2>6 DEF MessagesAreDistinct
    <3> QED
      BY <3>3, <3>4, <3>5 DEF MessagesAreDistinct
  <2>9. WaitersAreTheirs'
    <3> SUFFICES ASSUME Serving' PROVE
            /\ \A q \in Posts : Live(q)' => waiter'[IdOf[q]] \in {q, Dead}
            /\ \A q, r \in Posts : Live(q)' /\ Live(r)' /\ IdOf[q] = IdOf[r] => q = r
            /\ \A q \in Posts : Live(q)' /\ waiter'[IdOf[q]] = Dead => Duplicated(q)'
            /\ \A q \in Posts : post'[q].at = "waiting" => Duplicated(q)' \/ (Queued(q)' /\ waiter'[IdOf[q]] = q)
            /\ \A q \in Posts : post'[q].got = "ended" => Duplicated(q)'
      BY DEF WaitersAreTheirs
    <3>1. Serving
      BY <1>2 DEF Serving
    <3>2. \A q \in Posts : Live(q)' <=> Live(q)
      BY <1>3, <2>2, <2>6 DEF Live
    <3>3. \A q \in Posts : Duplicated(q) => Duplicated(q)'
      BY <1>2, <2>2, DuplicatesStay
    <3>4. /\ \A q \in Posts : Live(q)' => waiter'[IdOf[q]] \in {q, Dead}
          /\ \A q, r \in Posts : Live(q)' /\ Live(r)' /\ IdOf[q] = IdOf[r] => q = r
          /\ \A q \in Posts : Live(q)' /\ waiter'[IdOf[q]] = Dead => Duplicated(q)'
      BY <2>1, <3>1, <3>2, <3>3 DEF WaitersAreTheirs
    <3>5. \A q \in Posts : post'[q].at = "waiting" => Duplicated(q)' \/ (Queued(q)' /\ waiter'[IdOf[q]] = q)
      BY <1>3, <2>1, <2>2, <2>6, <3>1, <3>3 DEF WaitersAreTheirs
    <3>6. \A q \in Posts : post'[q].got = "ended" => Duplicated(q)'
      BY <2>2, <3>1, <3>3 DEF WaitersAreTheirs
    <3> QED
      BY <3>4, <3>5, <3>6
  <2> QED
    BY <2>7, <2>8, <2>9
<1>5. CASE ~(inbound.open /\ service.up)
  <2>1. waiter' = [waiter EXCEPT ![IdOf[p]] = NoWaiter] /\ Reply(p, "ended") /\ UNCHANGED inbound
    BY <1>5 DEF QueueMessage
  <2>2. /\ post' \in [Posts -> PostState] /\ \A q \in Posts \ {p} : post'[q] = post[q]
        /\ post'[p].at = "done" /\ post'[p].got = "ended"
    BY <1>2, <2>1 DEF Reply, HttpTyped, PostState
  <2>3. waiter' \in [Ids -> Posts \cup {NoWaiter, Dead}]
    BY <1>1, <2>1 DEF HttpTyped
  <2>4. HttpTyped' /\ FinishersClose' /\ ToldAtTheEnd' /\ MessagesAreDistinct'
    BY <1>2, <2>1, <2>2, <2>3 DEF HttpTyped, FinishersClose, ToldAtTheEnd, MessagesAreDistinct, Queued
  <2>5. ~Serving'
    BY <1>2, <1>5 DEF Serving, FinishersClose
  <2> QED
    BY <2>4, <2>5 DEF WaitersAreTheirs
<1> QED
  BY <1>4, <1>5

LEMMA StopWaitingStep == ASSUME PostInv, NEW p \in Posts, StopWaiting(p) PROVE PostInv'
<1> USE DEF PostInv
<1>1. /\ UNCHANGED <<mapped, waiter, inbound, closed, cancelled, overflowed, service, finish>>
      /\ post[p].at = "waiting" /\ post[p].got = "nothing"
      /\ waiter[IdOf[p]] # p \/ closed
  BY DEF StopWaiting, ToldAtTheEnd, sessionVars
<1>2. /\ post' \in [Posts -> PostState] /\ \A q \in Posts \ {p} : post'[q] = post[q]
      /\ post'[p].at = "done" /\ post'[p].got = "ended"
  BY <1>1 DEF StopWaiting, Reply, HttpTyped, PostState
<1>3. HttpTyped' /\ FinishersClose' /\ ToldAtTheEnd' /\ MessagesAreDistinct'
  BY <1>1, <1>2 DEF HttpTyped, FinishersClose, ToldAtTheEnd, MessagesAreDistinct, Queued
<1>4. \A q \in Posts : (Live(q)' <=> Live(q)) /\ (Queued(q)' <=> Queued(q))
  BY <1>1, <1>2 DEF Live, Queued
<1>5. \A q \in Posts : Duplicated(q) => Duplicated(q)'
  BY <1>1, <1>2, DuplicatesStay
<1>6. Serving => Duplicated(p)
  BY <1>1 DEF Serving, WaitersAreTheirs
<1>7. Serving' => Serving
  BY <1>1 DEF Serving
<1>8. \A q \in Posts : /\ post'[q].at = "waiting" => post[q].at = "waiting"
                       /\ post'[q].got = "ended" => post[q].got = "ended" \/ (Serving => Duplicated(q))
  BY <1>2, <1>6
<1> QED
  BY <1>1, <1>3, <1>4, <1>5, <1>7, <1>8, WaitersStay

LEMMA ReceiveStep == ASSUME PostInv, Receive PROVE PostInv'
<1> USE DEF PostInv
<1>1. /\ UNCHANGED <<post, mapped, waiter, closed, cancelled, overflowed, finish>>
      /\ inbound.queue # <<>>
  BY DEF Receive
<1>2. inbound.queue \in Seq(Posts)
  BY DEF HttpTyped, InboundState
<1>3. /\ Range(Tail(inbound.queue)) = Range(inbound.queue) \ {Head(inbound.queue)}
      /\ Tail(inbound.queue) \in Seq(Posts) /\ Head(inbound.queue) \in Posts
      /\ Head(inbound.queue) \in Range(inbound.queue)
  BY <1>1, <1>2, RangeOfTail DEF MessagesAreDistinct
<1>4. /\ inbound'.queue = Tail(inbound.queue) /\ inbound'.open = inbound.open /\ inbound' \in InboundState
      /\ service'.working = service.working \cup {Head(inbound.queue)}
      /\ service'.up = service.up /\ service' \in ServiceState
  BY <1>3 DEF Receive, HttpTyped, InboundState, ServiceState
<1>5. \A q \in Posts : Queued(q)' <=> Queued(q)
  BY <1>3, <1>4 DEF Queued
<1>6. HttpTyped' /\ FinishersClose' /\ ToldAtTheEnd'
  BY <1>1, <1>4 DEF HttpTyped, FinishersClose, ToldAtTheEnd
<1>7. MessagesAreDistinct'
  <2>1. /\ Len(inbound.queue) \in Nat \ {0} /\ DOMAIN inbound.queue = 1 .. Len(inbound.queue)
        /\ DOMAIN Tail(inbound.queue) = 1 .. Len(inbound.queue) - 1
        /\ \A i \in 1 .. Len(inbound.queue) - 1 : Tail(inbound.queue)[i] = inbound.queue[i + 1]
    BY <1>1, <1>2
  <2>2. ASSUME NEW i \in DOMAIN inbound'.queue, NEW j \in DOMAIN inbound'.queue,
               inbound'.queue[i] = inbound'.queue[j]
        PROVE  i = j
    <3>1. i \in 1 .. Len(inbound.queue) - 1 /\ j \in 1 .. Len(inbound.queue) - 1
      BY <1>4, <2>1
    <3>2. i + 1 \in DOMAIN inbound.queue /\ j + 1 \in DOMAIN inbound.queue
      BY <2>1, <3>1
    <3>3. inbound.queue[i + 1] = inbound.queue[j + 1]
      BY <1>4, <2>1, <2>2, <3>1
    <3>4. i + 1 = j + 1
      BY <3>2, <3>3 DEF MessagesAreDistinct
    <3> QED
      BY <2>1, <3>1, <3>4
  <2>3. Range(inbound'.queue) \cap service'.working = {}
    BY <1>3, <1>4 DEF MessagesAreDistinct
  <2> QED
    BY <1>1, <1>5, <2>2, <2>3 DEF MessagesAreDistinct
<1>8. WaitersAreTheirs'
  <2>1. \A q \in Posts : Live(q)' <=> Live(q)
    BY <1>1, <1>5 DEF Live
  <2>2. \A q \in Posts : Duplicated(q) => Duplicated(q)'
    BY <1>1 DEF Duplicated
  <2>3. Serving' => Serving
    BY <1>1, <1>4 DEF Serving
  <2> QED
    BY <1>1, <1>5, <2>1, <2>2, <2>3, WaitersStay
<1> QED
  BY <1>6, <1>7, <1>8

LEMMA AnswerStep == ASSUME PostInv, NEW p \in Posts, Answer(p) PROVE PostInv'
<1> USE DEF PostInv
<1> DEFINE w == waiter[IdOf[p]]
<1>1. IdOf[p] \in Ids /\ \A q \in Posts : IdOf[q] \in Ids
  BY DEF Ids
<1>2. UNCHANGED <<mapped, inbound, closed, cancelled, overflowed, finish>> /\ service.up /\ p \in service.working
  BY DEF Answer
<1>3. /\ service'.working = service.working \ {p} /\ service'.up = service.up /\ service' \in ServiceState
      /\ waiter' \in [Ids -> Posts \cup {NoWaiter, Dead}]
      /\ \A i \in Ids \ {IdOf[p]} : waiter'[i] = waiter[i]
  BY <1>1 DEF Answer, HttpTyped, ServiceState
<1>4. Queued(p) /\ Live(p)
  BY <1>2 DEF Queued, Live
<1>5. \A q \in Posts : Queued(q)' <=> Queued(q) /\ q # p
  BY <1>2, <1>3 DEF Queued, MessagesAreDistinct
<1>6. /\ post' \in [Posts -> PostState]
      /\ \A q \in Posts : \/ post'[q] = post[q]
                          \/ /\ q = w /\ post[q].at = "waiting"
                             /\ post'[q].at = "done" /\ post'[q].got = "answer"
  BY DEF Answer, Reply, HttpTyped, PostState
<1>7. w \in Posts /\ post[w].at = "waiting" => post'[w].at = "done"
  BY DEF Answer, Reply, HttpTyped, PostState
<1>8. HttpTyped' /\ FinishersClose'
  BY <1>2, <1>3, <1>6 DEF HttpTyped, FinishersClose
<1>9. ToldAtTheEnd'
  BY <1>6 DEF ToldAtTheEnd
<1>10. MessagesAreDistinct'
  <2>1. Range(inbound'.queue) \cap service'.working = {}
    BY <1>2, <1>3 DEF MessagesAreDistinct
  <2>2. \A q \in Posts : Queued(q)' => post'[q].at \in {"waiting", "done"}
    BY <1>5, <1>6 DEF MessagesAreDistinct
  <2> QED
    BY <1>2, <2>1, <2>2 DEF MessagesAreDistinct
<1>11. WaitersAreTheirs'
  <2> SUFFICES ASSUME Serving' PROVE
          /\ \A q \in Posts : Live(q)' => waiter'[IdOf[q]] \in {q, Dead}
          /\ \A q, r \in Posts : Live(q)' /\ Live(r)' /\ IdOf[q] = IdOf[r] => q = r
          /\ \A q \in Posts : Live(q)' /\ waiter'[IdOf[q]] = Dead => Duplicated(q)'
          /\ \A q \in Posts : post'[q].at = "waiting" => Duplicated(q)' \/ (Queued(q)' /\ waiter'[IdOf[q]] = q)
          /\ \A q \in Posts : post'[q].got = "ended" => Duplicated(q)'
    BY DEF WaitersAreTheirs
  <2>1. Serving
    BY <1>2, <1>3 DEF Serving
  <2>2. \A q \in Posts : Live(q)' => Live(q) /\ q # p
    BY <1>2, <1>4, <1>5, <1>6 DEF Live, MessagesAreDistinct
  <2>3. \A q \in Posts : Live(q)' => IdOf[q] # IdOf[p] /\ waiter'[IdOf[q]] = waiter[IdOf[q]]
    BY <1>1, <1>3, <1>4, <2>1, <2>2 DEF WaitersAreTheirs
  <2>4. \A q \in Posts : Duplicated(q) => Duplicated(q)'
    <3> SUFFICES ASSUME NEW q \in Posts, NEW d \in Posts \ {q}, IdOf[d] = IdOf[q], post[d].got = "duplicate"
                 PROVE  post'[d].got = "duplicate"
      BY DEF Duplicated
    <3> QED
      BY <1>6 DEF ToldAtTheEnd
  <2>5. \A q \in Posts : Live(q)' => waiter'[IdOf[q]] \in {q, Dead}
    BY <2>1, <2>2, <2>3 DEF WaitersAreTheirs
  <2>6. \A q, r \in Posts : Live(q)' /\ Live(r)' /\ IdOf[q] = IdOf[r] => q = r
    BY <2>1, <2>2 DEF WaitersAreTheirs
  <2>7. \A q \in Posts : Live(q)' /\ waiter'[IdOf[q]] = Dead => Duplicated(q)'
    BY <2>1, <2>2, <2>3, <2>4 DEF WaitersAreTheirs
  <2>8. ASSUME NEW q \in Posts, post'[q].at = "waiting"
        PROVE  Duplicated(q)' \/ (Queued(q)' /\ waiter'[IdOf[q]] = q)
    <3>1. post[q].at = "waiting"
      BY <1>6, <2>8
    <3>2. CASE Duplicated(q)
      BY <2>4, <3>2
    <3>3. CASE Queued(q) /\ waiter[IdOf[q]] = q
      <4>1. q # p
        <5>1. ASSUME q = p PROVE FALSE
          BY <1>7, <2>8, <3>1, <3>3, <5>1
        <5> QED
          BY <5>1
      <4>2. IdOf[q] # IdOf[p]
        BY <1>4, <2>1, <3>3, <4>1 DEF WaitersAreTheirs, Live
      <4> QED
        BY <1>1, <1>3, <1>5, <3>3, <4>1, <4>2
    <3> QED
      BY <2>1, <3>1, <3>2, <3>3 DEF WaitersAreTheirs
  <2>9. \A q \in Posts : post'[q].got = "ended" => Duplicated(q)'
    BY <1>6, <2>1, <2>4 DEF WaitersAreTheirs
  <2> QED
    BY <2>5, <2>6, <2>7, <2>8, <2>9
<1> QED
  BY <1>8, <1>9, <1>10, <1>11

(* Steps that touch neither POSTs nor their messages.                       *)
LEMMA PostsStay ==
  ASSUME PostInv, UNCHANGED <<post, waiter, inbound, closed, service>>,
         mapped' \in BOOLEAN, cancelled' \in BOOLEAN, overflowed' \in BOOLEAN,
         finish' \in [Finishers -> {"no", "close", "cancel", "inbound", "pending", "events"}],
         \A f \in Finishers : finish'[f] \in {"no", "close", finish[f]} \/ closed
  PROVE  PostInv'
  BY DEF PostInv, HttpTyped, ToldAtTheEnd, FinishersClose, MessagesAreDistinct, WaitersAreTheirs, Serving,
         Live, Queued, Duplicated

LEMMA FinishStepClose == ASSUME PostInv, NEW f \in Finishers, Finish(f) PROVE PostInv'
<1> USE DEF PostInv
<1>1. ASSUME NEW step \in {"close", "cancel", "inbound", "pending", "events"},
             NEW next \in {"no", "cancel", "inbound", "pending", "events"}, FinishStep(f, step, next)
      PROVE  /\ finish' \in [Finishers -> {"no", "close", "cancel", "inbound", "pending", "events"}]
             /\ \A g \in Finishers \ {f} : finish'[g] = finish[g]
             /\ step # "close" => closed
  BY <1>1 DEF FinishStep, HttpTyped, FinishersClose
<1>2. CASE MarkClosed(f)
  <2>1. /\ closed' = TRUE /\ UNCHANGED <<post, mapped, waiter, inbound, cancelled, overflowed, service>>
        /\ finish' \in [Finishers -> {"no", "close", "cancel", "inbound", "pending", "events"}]
    BY <1>1, <1>2 DEF MarkClosed
  <2> QED
    BY <2>1 DEF HttpTyped, ToldAtTheEnd, FinishersClose, MessagesAreDistinct, WaitersAreTheirs, Serving, Queued
<1>3. CASE CancelService(f) \/ CloseEvents(f)
  <2>1. closed /\ finish' \in [Finishers -> {"no", "close", "cancel", "inbound", "pending", "events"}]
    BY <1>1, <1>3 DEF CancelService, CloseEvents
  <2> QED
    BY <1>3, <2>1, PostsStay DEF CancelService, CloseEvents, HttpTyped
<1>4. CASE CloseInbound(f)
  <2>1. /\ closed /\ finish' \in [Finishers -> {"no", "close", "cancel", "inbound", "pending", "events"}]
        /\ inbound' = [inbound EXCEPT !.open = FALSE]
        /\ UNCHANGED <<post, mapped, waiter, closed, cancelled, overflowed, service>>
    BY <1>1, <1>4 DEF CloseInbound
  <2>2. inbound' \in InboundState /\ inbound'.queue = inbound.queue
    BY <2>1 DEF HttpTyped, InboundState
  <2> QED
    BY <2>1, <2>2 DEF HttpTyped, ToldAtTheEnd, FinishersClose, MessagesAreDistinct, WaitersAreTheirs, Serving,
                      Queued
<1>5. CASE ClearPending(f)
  <2>1. /\ closed /\ finish' \in [Finishers -> {"no", "close", "cancel", "inbound", "pending", "events"}]
        /\ waiter' = [i \in Ids |-> NoWaiter]
        /\ UNCHANGED <<post, mapped, inbound, closed, cancelled, overflowed, service>>
    BY <1>1, <1>5 DEF ClearPending
  <2> QED
    BY <2>1 DEF HttpTyped, ToldAtTheEnd, FinishersClose, MessagesAreDistinct, WaitersAreTheirs, Serving, Queued
<1> QED
  BY <1>2, <1>3, <1>4, <1>5 DEF Finish

LEMMA ServiceEndsStep == ASSUME PostInv, ServiceEnds PROVE PostInv'
<1> USE DEF PostInv
<1>1. Monitor \in Finishers
  BY DEF Finishers
<1>2. /\ service' = [up |-> FALSE, working |-> {}] /\ cancelled' = TRUE
      /\ UNCHANGED <<post, mapped, waiter, closed, overflowed>>
      /\ finish' \in [Finishers -> {"no", "close", "cancel", "inbound", "pending", "events"}]
      /\ \A f \in Finishers : finish'[f] \in {finish[f], "close"}
  BY <1>1 DEF ServiceEnds, HttpTyped
<1>3. <<>> \in Seq(Posts) /\ Range(<<>>) = {} /\ DOMAIN <<>> = {}
  BY DEF Range
<1>4. inbound'.queue = <<>> /\ inbound'.open = inbound.open /\ inbound' \in InboundState
  BY <1>3 DEF ServiceEnds, HttpTyped, InboundState
<1>5. service'.up = FALSE /\ service'.working = {} /\ service' \in ServiceState
  BY <1>2 DEF ServiceState
<1>6. ~Serving' /\ \A q \in Posts : ~Queued(q)'
  BY <1>3, <1>4, <1>5 DEF Serving, Queued
<1>7. HttpTyped' /\ ToldAtTheEnd' /\ FinishersClose'
  BY <1>2, <1>4, <1>5 DEF HttpTyped, ToldAtTheEnd, FinishersClose
<1>8. MessagesAreDistinct'
  BY <1>3, <1>4, <1>5, <1>6 DEF MessagesAreDistinct
<1> QED
  BY <1>6, <1>7, <1>8 DEF WaitersAreTheirs

LEMMA PostInvStep == PostInv /\ [HttpNext]_httpVars => PostInv'
<1> SUFFICES ASSUME PostInv, [HttpNext]_httpVars PROVE PostInv'
  OBVIOUS
<1>1. CASE UNCHANGED httpVars
  BY <1>1, PostsStay DEF httpVars, PostInv, HttpTyped
<1>2. CASE Push
  BY <1>2, PostsStay DEF Push, PostInv, HttpTyped
<1>3. CASE Delete
  <2>1. Deleter \in Finishers
    BY DEF Finishers
  <2> QED
    BY <1>3, <2>1, PostsStay DEF Delete, PostInv, HttpTyped
<1>4. ASSUME NEW g \in Gets, FindStream(g) PROVE PostInv'
  <2>1. g \in Finishers
    BY DEF Finishers
  <2> QED
    BY <1>4, <2>1, PostsStay DEF FindStream, Lookup, PostInv, HttpTyped
<1>5. ASSUME NEW g \in Gets, Attach(g) \/ TakeFrame(g) \/ WriteFrame(g) \/ Detach(g) PROVE PostInv'
  BY <1>5, PostsStay DEF Attach, TakeFrame, WriteFrame, Detach, sessionVars, PostInv, HttpTyped
<1>6. CASE HttpNext
  BY <1>2, <1>3, <1>4, <1>5, <1>6, FindSessionStep, RegisterWaiterStep, QueueMessageStep, StopWaitingStep,
     AnswerStep, ReceiveStep, ServiceEndsStep, FinishStepClose DEF HttpNext
<1> QED
  BY <1>1, <1>6

LEMMA EndedFollows == PostInv => EndedIsHonest
<1> SUFFICES ASSUME PostInv, NEW p \in Posts, post[p].got = "ended", Serving
             PROVE  \E q \in Posts \ {p} : IdOf[q] = IdOf[p] /\ post[q].got = "duplicate"
  BY DEF EndedIsHonest, Serving
<1> QED
  BY DEF PostInv, WaitersAreTheirs, Duplicated

(* The frames of the loop: numbered as they are pushed.                     *)
FrameState == [open : BOOLEAN, queue : Seq(DOMAIN FrameBytes), used : Nat]
GetState == [at : {"idle", "found", "streaming", "writing"}, frame : 0 .. Len(FrameBytes)]
Cells(S) == UNION {{n} \X (1 .. FrameBytes[n]) : n \in S}

FramesTyped ==
    /\ frames \in FrameState
    /\ pushed \in 0 .. Len(FrameBytes)
    /\ get \in [Gets -> GetState]

(* What is queued came in order and has been pushed; what a stream writes   *)
(* came before it.                                                          *)
FramesInOrder ==
    /\ \A i, j \in DOMAIN frames.queue : i < j => frames.queue[i] < frames.queue[j]
    /\ \A i \in DOMAIN frames.queue : frames.queue[i] <= pushed
    /\ \A g \in Gets : /\ get[g].frame <= pushed
                       /\ \A i \in DOMAIN frames.queue : get[g].frame < frames.queue[i]

CreditInv ==
    /\ FramesTyped /\ FramesInOrder
    /\ IsFiniteSet(Cells(Range(frames.queue)))
    /\ frames.used = Cardinality(Cells(Range(frames.queue)))

LEMMA CellsOfOne ==
  ASSUME NEW n \in DOMAIN FrameBytes
  PROVE  /\ IsFiniteSet(Cells({n})) /\ Cardinality(Cells({n})) = FrameBytes[n] /\ FrameBytes[n] \in Nat
<1>1. FrameBytes[n] \in Nat
  BY FrameBytesAssumption
<1>2. Cells({n}) = {n} \X (1 .. FrameBytes[n])
  BY DEF Cells
<1>3. IsFiniteSet({n}) /\ Cardinality({n}) = 1
  BY FS_Singleton
<1>4. IsFiniteSet(1 .. FrameBytes[n]) /\ Cardinality(1 .. FrameBytes[n]) = FrameBytes[n]
  BY <1>1, FS_Interval
<1>5. IsFiniteSet(Cells({n})) /\ Cardinality(Cells({n})) = Cardinality({n}) * Cardinality(1 .. FrameBytes[n])
  BY <1>2, <1>3, <1>4, FS_Product
<1>6. Cardinality(Cells({n})) = 1 * FrameBytes[n]
  BY <1>3, <1>4, <1>5
<1> QED
  BY <1>1, <1>5, <1>6

LEMMA CreditInvInit == HttpInit => CreditInv
<1> SUFFICES ASSUME HttpInit PROVE CreditInv
  OBVIOUS
<1>1. /\ frames.queue = <<>> /\ frames.used = 0 /\ frames.open = TRUE
      /\ frames = [open |-> TRUE, queue |-> <<>>, used |-> 0]
  BY DEF HttpInit
<1>2. <<>> \in Seq(DOMAIN FrameBytes) /\ DOMAIN <<>> = {} /\ Range(<<>>) = {}
  BY DEF Range
<1>3. frames \in FrameState
  BY <1>1, <1>2 DEF FrameState
<1>4. Len(FrameBytes) \in Nat
  BY FrameBytesAssumption
<1>5. FramesTyped
  BY <1>3, <1>4 DEF HttpInit, FramesTyped, GetState
<1>6. FramesInOrder
  BY <1>1, <1>2 DEF HttpInit, FramesInOrder
<1>7. Cells(Range(frames.queue)) = {}
  BY <1>1, <1>2 DEF Cells
<1> QED
  BY <1>1, <1>5, <1>6, <1>7, FS_EmptySet DEF CreditInv

LEMMA FramesStay ==
  ASSUME CreditInv, UNCHANGED pushed, frames'.queue = frames.queue, frames'.used = frames.used,
         frames' \in FrameState, get' \in [Gets -> GetState], \A g \in Gets : get'[g].frame \in {0, get[g].frame}
  PROVE  CreditInv'
<1> USE DEF CreditInv
<1>1. \A i \in DOMAIN frames.queue : frames.queue[i] > 0
  <2> SUFFICES ASSUME NEW i \in DOMAIN frames.queue PROVE frames.queue[i] > 0
    OBVIOUS
  <2>1. frames.queue \in Seq(DOMAIN FrameBytes) /\ FrameBytes \in Seq(Nat)
    BY FrameBytesAssumption DEF FramesTyped, FrameState
  <2>2. frames.queue[i] \in DOMAIN FrameBytes
    BY <2>1
  <2>3. DOMAIN FrameBytes = 1 .. Len(FrameBytes) /\ Len(FrameBytes) \in Nat
    BY <2>1
  <2> QED
    BY <2>2, <2>3
<1>2. FramesTyped'
  BY DEF FramesTyped
<1>3. FramesInOrder'
  <2>1. \A g \in Gets : get'[g].frame <= pushed'
    BY DEF FramesInOrder, FramesTyped
  <2>2. \A g \in Gets : \A i \in DOMAIN frames.queue : get'[g].frame < frames.queue[i]
    BY <1>1 DEF FramesInOrder
  <2> QED
    BY <2>1, <2>2 DEF FramesInOrder
<1> QED
  BY <1>2, <1>3

LEMMA PushCredit == ASSUME CreditInv, Push PROVE CreditInv'
<1> DEFINE n == pushed + 1
           over == Capacity > 0 /\ frames.used + FrameBytes[n] > Capacity
<1> USE DEF CreditInv
<1>1. FrameBytes \in Seq(Nat) /\ Len(FrameBytes) \in Nat /\ DOMAIN FrameBytes = 1 .. Len(FrameBytes)
  BY FrameBytesAssumption
<1>2. pushed < Len(FrameBytes) /\ pushed' = n /\ UNCHANGED get /\ pushed \in Nat
  BY <1>1 DEF Push, FramesTyped
<1>3. n \in DOMAIN FrameBytes /\ n \in 0 .. Len(FrameBytes)
  BY <1>1, <1>2
<1>4. frames.queue \in Seq(DOMAIN FrameBytes) /\ frames.used \in Nat
  BY DEF FramesTyped, FrameState
<1>5. \A i \in DOMAIN frames.queue : frames.queue[i] \in Nat /\ frames.queue[i] < n
  <2> SUFFICES ASSUME NEW i \in DOMAIN frames.queue PROVE frames.queue[i] \in Nat /\ frames.queue[i] < n
    OBVIOUS
  <2>1. frames.queue[i] \in DOMAIN FrameBytes
    BY <1>4
  <2> QED
    BY <1>1, <1>2, <2>1 DEF FramesInOrder
<1>6. \A g \in Gets : get[g].frame \in Nat /\ get[g].frame < n
  BY <1>1, <1>2 DEF FramesInOrder, FramesTyped, GetState
<1>7. CASE over \/ ~frames.open
  <2>1. frames' = frames
    BY <1>7 DEF Push
  <2>2. FramesTyped'
    BY <1>2, <1>3, <2>1 DEF FramesTyped
  <2>3. FramesInOrder'
    <3> HIDE DEF n
    <3>1. \A i \in DOMAIN frames.queue : frames.queue[i] <= n
      BY <1>2, <1>3, <1>5
    <3>2. \A g \in Gets : get[g].frame <= n
      BY <1>2, <1>3, <1>6
    <3> QED
      BY <1>2, <2>1, <3>1, <3>2 DEF FramesInOrder
  <2> QED
    BY <2>1, <2>2, <2>3
<1>8. CASE ~(over \/ ~frames.open)
  <2>1. frames' = [frames EXCEPT !.queue = Append(@, n), !.used = @ + FrameBytes[n]]
    BY <1>8 DEF Push
  <2> HIDE DEF n
  <2>2. Append(frames.queue, n) \in Seq(DOMAIN FrameBytes)
        /\ Range(Append(frames.queue, n)) = Range(frames.queue) \cup {n}
    BY <1>3, <1>4, RangeOfAppend
  <2>3. FrameBytes[n] \in Nat /\ IsFiniteSet(Cells({n})) /\ Cardinality(Cells({n})) = FrameBytes[n]
    BY <1>3, CellsOfOne
  <2>4. /\ frames'.queue = Append(frames.queue, n) /\ frames'.used = frames.used + FrameBytes[n]
        /\ frames' \in FrameState
    <3>1. frames.used + FrameBytes[n] \in Nat
      BY <1>4, <2>3
    <3> QED
      BY <2>1, <2>2, <3>1 DEF FramesTyped, FrameState
  <2>5. FramesTyped'
    BY <1>2, <1>3, <2>4 DEF FramesTyped
  <2>6. /\ Len(frames.queue) \in Nat /\ DOMAIN frames.queue = 1 .. Len(frames.queue)
        /\ DOMAIN Append(frames.queue, n) = 1 .. Len(frames.queue) + 1
        /\ \A i \in 1 .. Len(frames.queue) : Append(frames.queue, n)[i] = frames.queue[i]
        /\ Append(frames.queue, n)[Len(frames.queue) + 1] = n
    BY <1>3, <1>4
  <2>7. FramesInOrder'
    <3>1. \A i \in DOMAIN frames'.queue : i \in DOMAIN frames.queue \/ i = Len(frames.queue) + 1
      BY <2>4, <2>6
    <3>2. \A i, j \in DOMAIN frames'.queue : i < j => frames'.queue[i] < frames'.queue[j]
      <4> SUFFICES ASSUME NEW i \in DOMAIN frames'.queue, NEW j \in DOMAIN frames'.queue, i < j
                   PROVE  frames'.queue[i] < frames'.queue[j]
        OBVIOUS
      <4>1. i \in DOMAIN frames.queue
        BY <2>4, <2>6
      <4>2. CASE j \in DOMAIN frames.queue
        BY <2>4, <2>6, <4>1, <4>2 DEF FramesInOrder
      <4>3. CASE j = Len(frames.queue) + 1
        BY <1>5, <2>4, <2>6, <4>1, <4>3
      <4> QED
        BY <3>1, <4>2, <4>3
    <3>3. \A i \in DOMAIN frames'.queue : frames'.queue[i] <= n
      BY <1>3, <1>5, <2>4, <2>6, <3>1
    <3>4. \A g \in Gets : /\ get[g].frame <= n
                          /\ \A i \in DOMAIN frames'.queue : get[g].frame < frames'.queue[i]
      <4> SUFFICES ASSUME NEW g \in Gets
                   PROVE  /\ get[g].frame <= n
                          /\ \A i \in DOMAIN frames'.queue : get[g].frame < frames'.queue[i]
        OBVIOUS
      <4>1. get[g].frame <= n
        BY <1>2, <1>3, <1>6
      <4>2. ASSUME NEW i \in DOMAIN frames'.queue PROVE get[g].frame < frames'.queue[i]
        BY <1>6, <2>4, <2>6, <3>1 DEF FramesInOrder
      <4> QED
        BY <4>1, <4>2
    <3> QED
      BY <1>2, <3>2, <3>3, <3>4 DEF FramesInOrder
  <2>8. /\ IsFiniteSet(Cells(Range(frames'.queue)))
        /\ frames'.used = Cardinality(Cells(Range(frames'.queue)))
    <3>1. Cells(Range(frames'.queue)) = Cells(Range(frames.queue)) \cup Cells({n})
      BY <2>2, <2>4 DEF Cells
    <3>2. Cells(Range(frames.queue)) \cap Cells({n}) = {}
      <4>1. n \notin Range(frames.queue)
        BY <1>5, <1>2, <1>3 DEF Range
      <4> QED
        BY <4>1 DEF Cells
    <3>3. Cardinality(Cells(Range(frames.queue)) \cap Cells({n})) = 0
      BY <3>2, FS_EmptySet
    <3>4. /\ IsFiniteSet(Cells(Range(frames.queue)) \cup Cells({n}))
          /\ Cardinality(Cells(Range(frames.queue)) \cup Cells({n}))
               = Cardinality(Cells(Range(frames.queue))) + Cardinality(Cells({n}))
                   - Cardinality(Cells(Range(frames.queue)) \cap Cells({n}))
      BY <2>3, FS_Union
    <3> QED
      BY <1>4, <2>3, <2>4, <3>1, <3>3, <3>4
  <2> QED
    BY <2>5, <2>7, <2>8
<1> QED
  BY <1>7, <1>8

LEMMA TakeCredit == ASSUME CreditInv, NEW g \in Gets, TakeFrame(g) PROVE CreditInv'
<1> DEFINE n == Head(frames.queue)
<1> USE DEF CreditInv
<1>1. FrameBytes \in Seq(Nat) /\ Len(FrameBytes) \in Nat /\ DOMAIN FrameBytes = 1 .. Len(FrameBytes)
  BY FrameBytesAssumption
<1>2. /\ frames.queue # <<>> /\ UNCHANGED pushed
      /\ Stage(g, "writing", n)
      /\ frames' = [frames EXCEPT !.queue = Tail(@), !.used = @ - FrameBytes[n]]
  BY DEF TakeFrame
<1>3. frames.queue \in Seq(DOMAIN FrameBytes) /\ frames.used \in Nat
  BY DEF FramesTyped, FrameState
<1>4. /\ Len(frames.queue) \in Nat \ {0} /\ DOMAIN frames.queue = 1 .. Len(frames.queue)
      /\ n = frames.queue[1]
      /\ DOMAIN Tail(frames.queue) = 1 .. Len(frames.queue) - 1
      /\ \A i \in 1 .. Len(frames.queue) - 1 : Tail(frames.queue)[i] = frames.queue[i + 1]
  BY <1>2, <1>3
<1>5. \A i \in DOMAIN frames.queue : frames.queue[i] \in DOMAIN FrameBytes /\ frames.queue[i] \in Nat
  BY <1>1, <1>3
<1>6. \A i, j \in DOMAIN frames.queue : frames.queue[i] = frames.queue[j] => i = j
  <2> SUFFICES ASSUME NEW i \in DOMAIN frames.queue, NEW j \in DOMAIN frames.queue, frames.queue[i] = frames.queue[j]
               PROVE  i = j
    OBVIOUS
  <2>1. i \in Nat /\ j \in Nat /\ frames.queue[i] \in Nat
    BY <1>4, <1>5
  <2>2. ~(i < j) /\ ~(j < i)
    BY <1>5, <2>1 DEF FramesInOrder
  <2> QED
    BY <2>1, <2>2
<1>7. /\ Range(Tail(frames.queue)) = Range(frames.queue) \ {n} /\ Tail(frames.queue) \in Seq(DOMAIN FrameBytes)
      /\ n \in DOMAIN FrameBytes /\ n \in Range(frames.queue)
  BY <1>2, <1>3, <1>6, RangeOfTail
<1> HIDE DEF n
<1>8. IsFiniteSet(Cells({n})) /\ Cardinality(Cells({n})) = FrameBytes[n] /\ FrameBytes[n] \in Nat
  BY <1>7, CellsOfOne
<1>9. /\ IsFiniteSet(Cells(Range(Tail(frames.queue))))
      /\ Cardinality(Cells(Range(Tail(frames.queue)))) = frames.used - FrameBytes[n]
      /\ frames.used - FrameBytes[n] \in Nat
  <2>1. Cells(Range(Tail(frames.queue))) = Cells(Range(frames.queue)) \ Cells({n})
    BY <1>7 DEF Cells
  <2>2. Cells(Range(frames.queue)) \cap Cells({n}) = Cells({n})
    BY <1>7 DEF Cells
  <2>3. /\ IsFiniteSet(Cells(Range(Tail(frames.queue))))
        /\ Cardinality(Cells(Range(Tail(frames.queue)))) = Cardinality(Cells(Range(frames.queue))) - Cardinality(Cells({n}))
    BY <2>1, <2>2, FS_Difference
  <2>4. Cardinality(Cells(Range(Tail(frames.queue)))) \in Nat
    BY <2>3, FS_CardinalityType
  <2> QED
    BY <1>8, <2>3, <2>4
<1>10. /\ frames'.queue = Tail(frames.queue) /\ frames'.used = frames.used - FrameBytes[n]
       /\ frames' \in FrameState
  BY <1>2, <1>7, <1>9 DEF FramesTyped, FrameState
<1>11. n \in 0 .. Len(FrameBytes) /\ n <= pushed
  <2>1. 1 \in DOMAIN frames.queue
    BY <1>4
  <2>2. n <= pushed
    BY <1>4, <2>1 DEF FramesInOrder
  <2>3. n \in 1 .. Len(FrameBytes)
    BY <1>1, <1>7
  <2> QED
    BY <1>1, <2>2, <2>3
<1>12. /\ get' \in [Gets -> GetState] /\ get'[g].frame = n
       /\ \A h \in Gets \ {g} : get'[h] = get[h]
  BY <1>2, <1>11 DEF Stage, FramesTyped, GetState
<1>13. FramesTyped'
  BY <1>2, <1>10, <1>12 DEF FramesTyped
<1>14. FramesInOrder'
  <2>1. ASSUME NEW i \in DOMAIN frames'.queue
        PROVE  i \in Nat /\ i + 1 \in DOMAIN frames.queue /\ frames'.queue[i] = frames.queue[i + 1] /\ 1 < i + 1
    BY <1>4, <1>10
  <2>2. \A i, j \in DOMAIN frames'.queue : i < j => frames'.queue[i] < frames'.queue[j]
    BY <2>1 DEF FramesInOrder
  <2>3. \A i \in DOMAIN frames'.queue : frames'.queue[i] <= pushed
    BY <2>1 DEF FramesInOrder
  <2>4. \A i \in DOMAIN frames'.queue : n < frames'.queue[i]
    <3>1. 1 \in DOMAIN frames.queue
      BY <1>4
    <3> QED
      BY <1>4, <2>1, <3>1 DEF FramesInOrder
  <2>5. \A h \in Gets : /\ get'[h].frame <= pushed
                        /\ \A i \in DOMAIN frames'.queue : get'[h].frame < frames'.queue[i]
    <3> SUFFICES ASSUME NEW h \in Gets
                 PROVE  /\ get'[h].frame <= pushed
                        /\ \A i \in DOMAIN frames'.queue : get'[h].frame < frames'.queue[i]
      OBVIOUS
    <3>1. CASE h = g
      BY <1>11, <1>12, <2>4, <3>1
    <3>2. CASE h # g
      BY <1>12, <2>1, <3>2 DEF FramesInOrder
    <3> QED
      BY <3>1, <3>2
  <2> QED
    BY <1>2, <2>2, <2>3, <2>5 DEF FramesInOrder
<1> QED
  BY <1>9, <1>10, <1>13, <1>14

LEMMA CreditInvStep == CreditInv /\ [HttpNext]_httpVars => CreditInv'
<1> SUFFICES ASSUME CreditInv, [HttpNext]_httpVars PROVE CreditInv'
  OBVIOUS
<1>1. ASSUME UNCHANGED streamVars PROVE CreditInv'
  BY <1>1 DEF streamVars, CreditInv, FramesTyped, FramesInOrder
<1>2. ASSUME NEW f \in Finishers, CloseEvents(f) PROVE CreditInv'
  <2>1. /\ frames'.queue = frames.queue /\ frames'.used = frames.used /\ frames' \in FrameState
        /\ UNCHANGED <<pushed, get>>
    BY <1>2 DEF CloseEvents, CreditInv, FramesTyped, FrameState
  <2> QED
    BY <2>1, FramesStay DEF CreditInv, FramesTyped
<1>3. ASSUME NEW g \in Gets, FindStream(g) \/ Attach(g) \/ WriteFrame(g) \/ Detach(g) PROVE CreditInv'
  <2>1. UNCHANGED <<frames, pushed>> /\ \E at \in {"idle", "found", "streaming", "writing"} : Stage(g, at, 0)
    BY <1>3 DEF FindStream, Attach, WriteFrame, Detach
  <2>2. Len(FrameBytes) \in Nat
    BY FrameBytesAssumption
  <2>3. get' \in [Gets -> GetState] /\ \A h \in Gets : get'[h].frame \in {0, get[h].frame}
    BY <2>1, <2>2 DEF Stage, CreditInv, FramesTyped, GetState
  <2> QED
    BY <2>1, <2>3, FramesStay DEF CreditInv, FramesTyped
<1>4. ASSUME NEW p \in Posts, FindSession(p) \/ RegisterWaiter(p) \/ QueueMessage(p) \/ StopWaiting(p) \/ Answer(p)
      PROVE  UNCHANGED streamVars
  BY <1>4 DEF FindSession, RegisterWaiter, QueueMessage, StopWaiting, Answer, streamVars
<1>5. ASSUME NEW f \in Finishers, Finish(f), ~CloseEvents(f) PROVE UNCHANGED streamVars
  BY <1>5 DEF Finish, MarkClosed, CancelService, CloseInbound, ClearPending, streamVars
<1>6. CASE Receive \/ ServiceEnds \/ Delete
  BY <1>1, <1>6 DEF Receive, ServiceEnds, Delete, streamVars
<1>7. CASE UNCHANGED httpVars
  BY <1>1, <1>7 DEF httpVars, streamVars
<1>8. CASE HttpNext
  BY <1>1, <1>2, <1>3, <1>4, <1>5, <1>6, <1>8, PushCredit, TakeCredit DEF HttpNext
<1> QED
  BY <1>7, <1>8

LEMMA CreditFollows == CreditInv => CreditIsExact
  BY DEF CreditInv, FramesInOrder, CreditIsExact, Cells, Attached

LEMMA HttpIsTyped == PostInv /\ CreditInv => HttpTypeOK
  BY DEF PostInv, HttpTyped, CreditInv, FramesTyped, HttpTypeOK, PostState, InboundState, ServiceState, FrameState,
         GetState

-----------------------------------------------------------------------------
(* The upstream connection.                                                 *)

ConnState == [number : 0 .. MaxConnections, open : BOOLEAN]
RequestState == [op : {"subscribe", "unsubscribe"},
                 at : {"idle", "started", "connected", "sending", "undoing"}, over : 0 .. MaxConnections]

ConnTyped ==
    /\ conn \in ConnState
    /\ connHolder \in Hosts \cup {NoConnection}
    /\ restoring \in SUBSET Uris /\ registered \in SUBSET Uris /\ upstreamSubs \in SUBSET Uris
    /\ promised \in SUBSET Uris /\ unsure \in SUBSET Uris
    /\ request \in [Hosts -> RequestState]
    /\ refusals \in 0 .. MaxRefusals

UpdatesTyped ==
    /\ pendingUpdate \in SUBSET Uris /\ updates \in SUBSET Uris
    /\ revision \in [Uris -> Nat] /\ shown \in [Uris -> Nat]
    /\ \A u \in Uris : shown[u] <= revision[u] /\ revision[u] <= MaxUpdates[u]

(* The thread that connects is one that asked for the connection.           *)
HolderAsks == \A h \in Hosts : connHolder = h => NeedsConnection(h)

OneThreadPerUri == \A g, h \in Hosts : UriOf[g] = UriOf[h] => g = h

(* Where a thread is with its request says whether its URI is registered    *)
(* and promised.                                                            *)
RequestsMatch ==
    \A h \in Hosts :
        /\ request[h].op = "unsubscribe" => UriOf[h] \notin promised
        /\ request[h].op = "unsubscribe" /\ request[h].at \in {"undoing", "sending"} => UriOf[h] \notin registered
        /\ request[h].op = "subscribe" /\ request[h].at = "sending" =>
               UriOf[h] \in registered /\ UriOf[h] \notin promised
        /\ request[h].at = "undoing" => request[h].op = "unsubscribe"
        /\ request[h].at = "connected" => request[h].op = "subscribe"

Subscribing(u) == \E h \in Hosts : UriOf[h] = u /\ request[h].op = "subscribe" /\ request[h].at = "sending"

(* Every registration has its counterpart, is about to have it, or is known *)
(* to be uncertain.                                                         *)
RegistrationsCarried ==
    /\ promised \subseteq registered
    /\ conn.open => \A u \in registered : u \in upstreamSubs \cup restoring \cup unsure \/ Subscribing(u)

ConnShape == ConnTyped /\ HolderAsks
ConnInv == ConnShape /\ RequestsMatch /\ RegistrationsCarried

LEMMA UpdatesInit == ConnectionInit => UpdatesTyped
  BY ConnectionBounds DEF ConnectionInit, UpdatesTyped

LEMMA ConnShapeInit == ConnectionInit => ConnShape
<1> SUFFICES ASSUME ConnectionInit PROVE ConnTyped /\ HolderAsks
  BY DEF ConnShape
<1>1. 0 \in 0 .. MaxConnections /\ 0 \in 0 .. MaxRefusals
  BY ConnectionBounds
<1> QED
  BY <1>1, NoConnectionAssumption DEF ConnectionInit, ConnTyped, ConnState, RequestState, HolderAsks

LEMMA ConnInvInit == ConnectionInit => ConnInv
  BY ConnShapeInit DEF ConnectionInit, ConnInv, RequestsMatch, RegistrationsCarried

LEMMA NotifyTypes ==
  ASSUME UpdatesTyped, NEW u \in Uris, NotifyHost(u), UNCHANGED revision, updates' \in SUBSET Uris
  PROVE  UpdatesTyped'
  BY DEF UpdatesTyped, NotifyHost

LEMMA PromiseTypes ==
  ASSUME UpdatesTyped, NEW h \in Hosts, UNCHANGED <<revision, pendingUpdate, updates>>,
         Promise(h) \/ UNCHANGED shown
  PROVE  UpdatesTyped'
  BY UriOfAssumption DEF UpdatesTyped, Promise, Uri

LEMMA UpdatesStep == UpdatesTyped /\ ConnTyped /\ [ConnectionNext]_connVars => UpdatesTyped'
<1> SUFFICES ASSUME UpdatesTyped, ConnTyped, [ConnectionNext]_connVars PROVE UpdatesTyped'
  OBVIOUS
<1>1. ASSUME UNCHANGED updateVars PROVE UpdatesTyped'
  BY <1>1 DEF updateVars, UpdatesTyped
<1>2. CASE Disconnect
  BY <1>2 DEF Disconnect, UpdatesTyped
<1>3. ASSUME NEW h \in Hosts, \/ Reuse(h) \/ Connect(h) \/ ConnectFails(h) \/ Restored(h)
                              \/ Begin(h, "subscribe") \/ Begin(h, "unsubscribe") \/ Unsubscribe(h)
                              \/ UpstreamRefuses(h)
      PROVE  UpdatesTyped'
  BY <1>1, <1>3 DEF Reuse, Connect, ConnectFails, Restored, Begin, Unsubscribe, UpstreamRefuses
<1>4. ASSUME NEW h \in Hosts, RestoreOne(h) PROVE UpdatesTyped'
  <2>1. PICK u \in restoring : NotifyHost(u) \/ UNCHANGED <<pendingUpdate, shown>>
    BY <1>4 DEF RestoreOne
  <2>2. UNCHANGED <<revision, updates>> /\ u \in Uris /\ updates' \in SUBSET Uris
    BY <1>4 DEF RestoreOne, ConnTyped, UpdatesTyped
  <2>3. CASE NotifyHost(u)
    BY <2>2, <2>3, NotifyTypes
  <2>4. CASE UNCHANGED <<pendingUpdate, shown>>
    BY <2>2, <2>4 DEF UpdatesTyped
  <2> QED
    BY <2>1, <2>3, <2>4
<1>5. ASSUME NEW h \in Hosts, Subscribe(h) \/ UpstreamAgrees(h) PROVE UpdatesTyped'
  BY <1>5, PromiseTypes DEF Subscribe, UpstreamAgrees
<1>6. ASSUME NEW u \in Uris, ChangeResource(u) PROVE UpdatesTyped'
  <2>1. MaxUpdates[u] \in Nat /\ revision[u] \in Nat /\ revision[u] < MaxUpdates[u]
    BY <1>6, ConnectionBounds DEF ChangeResource, UpdatesTyped
  <2>2. /\ revision' \in [Uris -> Nat] /\ revision'[u] = revision[u] + 1
        /\ \A v \in Uris \ {u} : revision'[v] = revision[v]
    BY <1>6 DEF ChangeResource, UpdatesTyped
  <2>3. \A v \in Uris : shown[v] <= revision'[v] /\ revision'[v] <= MaxUpdates[v]
    BY <2>1, <2>2 DEF UpdatesTyped
  <2>4. UNCHANGED <<shown, pendingUpdate>> /\ updates' \in SUBSET Uris
    BY <1>6 DEF ChangeResource, UpdatesTyped
  <2> QED
    BY <2>2, <2>3, <2>4 DEF UpdatesTyped
<1>7. ASSUME NEW u \in Uris, ResourceUpdated(u) PROVE UpdatesTyped'
  BY <1>7, NotifyTypes DEF ResourceUpdated, UpdatesTyped
<1>8. ASSUME NEW u \in Uris, NotificationWritten(u) PROVE UpdatesTyped'
  BY <1>8 DEF NotificationWritten, UpdatesTyped
<1>9. CASE UNCHANGED connVars
  BY <1>1, <1>9 DEF connVars, updateVars
<1>10. CASE ConnectionNext
  BY <1>2, <1>3, <1>4, <1>5, <1>6, <1>7, <1>8, <1>10 DEF ConnectionNext
<1> QED
  BY <1>9, <1>10

(* What a thread's step does to its own request, as far as types go.        *)
LEMMA RequestMoves ==
  ASSUME ConnTyped, NEW h \in Hosts, NEW r \in RequestState, request' = [request EXCEPT ![h] = r]
  PROVE  /\ request' \in [Hosts -> RequestState] /\ request'[h] = r
         /\ \A g \in Hosts \ {h} : request'[g] = request[g]
  BY DEF ConnTyped

LEMMA AtMoves ==
  ASSUME ConnTyped, NEW h \in Hosts, NEW at \in {"idle", "started", "connected", "sending", "undoing"}, At(h, at)
  PROVE  /\ request' \in [Hosts -> RequestState] /\ request'[h].at = at /\ request'[h].op = request[h].op
         /\ \A g \in Hosts \ {h} : request'[g] = request[g]
  BY DEF ConnTyped, At, RequestState

LEMMA ConnectedMoves ==
  ASSUME ConnTyped, NEW h \in Hosts, NeedsConnection(h),
         request' = [request EXCEPT ![h].at = IF @ = "started" THEN "connected" ELSE "sending",
                                    ![h].over = conn.number]
  PROVE  /\ request' \in [Hosts -> RequestState] /\ request'[h].op = request[h].op
         /\ request'[h].at = IF request[h].op = "subscribe" THEN "connected" ELSE "sending"
         /\ \A g \in Hosts \ {h} : request'[g] = request[g]
  BY DEF ConnTyped, ConnState, RequestState, NeedsConnection

LEMMA RefusalTypes == ASSUME ConnTyped, Refusal \/ UNCHANGED refusals PROVE refusals' \in 0 .. MaxRefusals
  BY ConnectionBounds DEF ConnTyped, Refusal

LEMMA ConnShapeStep == ConnShape /\ [ConnectionNext]_connVars => ConnShape'
<1> SUFFICES ASSUME ConnTyped, HolderAsks, [ConnectionNext]_connVars PROVE ConnTyped' /\ HolderAsks'
  BY DEF ConnShape
<1>0. \A h \in Hosts : UriOf[h] \in Uris /\ h # NoConnection
  BY UriOfAssumption, NoConnectionAssumption
<1>1. CASE Disconnect
  BY <1>1 DEF Disconnect, ConnTyped, ConnState, HolderAsks, NeedsConnection
<1>2. ASSUME NEW h \in Hosts, Reuse(h) PROVE ConnTyped' /\ HolderAsks'
  <2>1. /\ request' \in [Hosts -> RequestState] /\ \A g \in Hosts \ {h} : request'[g] = request[g]
        /\ connHolder = NoConnection
    BY <1>2, ConnectedMoves DEF Reuse
  <2> QED
    BY <1>0, <1>2, <2>1 DEF Reuse, ConnTyped, HolderAsks
<1>3. ASSUME NEW h \in Hosts, Connect(h) PROVE ConnTyped' /\ HolderAsks'
  <2>1. conn' \in ConnState
    BY <1>3, ConnectionBounds DEF Connect, ConnTyped, ConnState
  <2> QED
    BY <1>3, <2>1 DEF Connect, ConnTyped, HolderAsks, NeedsConnection
<1>4. ASSUME NEW h \in Hosts, ConnectFails(h) PROVE ConnTyped' /\ HolderAsks'
  <2>1. request' \in [Hosts -> RequestState] /\ \A g \in Hosts \ {h} : request'[g] = request[g]
    BY <1>4, AtMoves DEF ConnectFails
  <2>2. refusals' \in 0 .. MaxRefusals
    BY <1>4, RefusalTypes DEF ConnectFails
  <2> QED
    BY <1>4, <2>1, <2>2 DEF ConnectFails, ConnTyped, HolderAsks, NeedsConnection
<1>5. ASSUME NEW h \in Hosts, RestoreOne(h) PROVE ConnTyped' /\ HolderAsks'
  <2>1. refusals' \in 0 .. MaxRefusals
    BY <1>5, RefusalTypes DEF RestoreOne
  <2> QED
    BY <1>5, <2>1 DEF RestoreOne, ConnTyped, HolderAsks, NeedsConnection
<1>6. ASSUME NEW h \in Hosts, Restored(h) PROVE ConnTyped' /\ HolderAsks'
  <2>1. request' \in [Hosts -> RequestState]
    BY <1>6, ConnectedMoves DEF Restored, HolderAsks
  <2> QED
    BY <1>0, <1>6, <2>1 DEF Restored, ConnTyped, HolderAsks
<1>7. ASSUME NEW h \in Hosts, NEW op \in {"subscribe", "unsubscribe"}, Begin(h, op) PROVE ConnTyped' /\ HolderAsks'
  <2>1. [op |-> op, at |-> "started", over |-> 0] \in RequestState
    BY ConnectionBounds DEF RequestState
  <2>2. request' \in [Hosts -> RequestState] /\ \A g \in Hosts \ {h} : request'[g] = request[g]
    BY <1>7, <2>1, RequestMoves DEF Begin
  <2> QED
    BY <1>7, <2>2 DEF Begin, ConnTyped, HolderAsks, NeedsConnection
<1>8. ASSUME NEW h \in Hosts, Subscribe(h) PROVE ConnTyped' /\ HolderAsks'
  <2>1. request' \in [Hosts -> RequestState] /\ \A g \in Hosts \ {h} : request'[g] = request[g]
    BY <1>8, AtMoves DEF Subscribe
  <2> QED
    BY <1>0, <1>8, <2>1 DEF Subscribe, Promise, Uri, ConnTyped, HolderAsks, NeedsConnection
<1>9. ASSUME NEW h \in Hosts, Unsubscribe(h) PROVE ConnTyped' /\ HolderAsks'
  <2>1. request' \in [Hosts -> RequestState] /\ \A g \in Hosts \ {h} : request'[g] = request[g]
    BY <1>9, AtMoves DEF Unsubscribe
  <2> QED
    BY <1>9, <2>1 DEF Unsubscribe, ConnTyped, HolderAsks, NeedsConnection
<1>10. ASSUME NEW h \in Hosts, UpstreamAgrees(h) PROVE ConnTyped' /\ HolderAsks'
  <2>1. request' \in [Hosts -> RequestState] /\ \A g \in Hosts \ {h} : request'[g] = request[g]
    BY <1>10, AtMoves DEF UpstreamAgrees
  <2> QED
    BY <1>0, <1>10, <2>1 DEF UpstreamAgrees, Promise, Uri, ConnTyped, HolderAsks, NeedsConnection
<1>11. ASSUME NEW h \in Hosts, UpstreamRefuses(h) PROVE ConnTyped' /\ HolderAsks'
  <2>1. request' \in [Hosts -> RequestState] /\ \A g \in Hosts \ {h} : request'[g] = request[g]
    BY <1>11, AtMoves DEF UpstreamRefuses
  <2>2. refusals' \in 0 .. MaxRefusals
    BY <1>11, RefusalTypes DEF UpstreamRefuses
  <2> QED
    BY <1>0, <1>11, <2>1, <2>2 DEF UpstreamRefuses, Uri, ConnTyped, HolderAsks, NeedsConnection
<1>12. ASSUME NEW u \in Uris, ChangeResource(u) \/ ResourceUpdated(u) \/ NotificationWritten(u)
       PROVE  ConnTyped' /\ HolderAsks'
  BY <1>12 DEF ChangeResource, ResourceUpdated, NotificationWritten, ConnTyped, HolderAsks, NeedsConnection
<1>13. CASE UNCHANGED connVars
  BY <1>13 DEF connVars, ConnTyped, HolderAsks, NeedsConnection
<1>14. CASE ConnectionNext
  BY <1>1, <1>2, <1>3, <1>4, <1>5, <1>6, <1>7, <1>8, <1>9, <1>10, <1>11, <1>12, <1>14 DEF ConnectionNext
<1> QED
  BY <1>13, <1>14

(* A step that leaves the requests and what is registered and promised      *)
(* alone, and drops no counterpart.                                         *)
LEMMA RegistrationsStay ==
  ASSUME ConnInv, UNCHANGED <<request, registered, promised>>,
         conn'.open => conn.open /\ upstreamSubs \cup restoring \cup unsure
                                       \subseteq upstreamSubs' \cup restoring' \cup unsure'
  PROVE  RequestsMatch' /\ RegistrationsCarried'
  BY DEF ConnInv, RequestsMatch, RegistrationsCarried, Subscribing

LEMMA ConnectKeeps == ASSUME ConnInv, NEW h \in Hosts, Connect(h) PROVE RequestsMatch' /\ RegistrationsCarried'
  BY DEF ConnInv, RequestsMatch, RegistrationsCarried, Connect

(* A request gets its connection: a subscription is next, or the removal of *)
(* one that is out already.                                                 *)
LEMMA ConnectedKeeps ==
  ASSUME ConnInv, NEW h \in Hosts, NeedsConnection(h),
         request' = [request EXCEPT ![h].at = IF @ = "started" THEN "connected" ELSE "sending",
                                    ![h].over = conn.number],
         UNCHANGED <<conn, restoring, registered, upstreamSubs, promised, unsure>>
  PROVE  RequestsMatch' /\ RegistrationsCarried'
<1> USE DEF ConnInv
<1>1. /\ request'[h].op = request[h].op
      /\ request'[h].at = IF request[h].op = "subscribe" THEN "connected" ELSE "sending"
      /\ \A g \in Hosts \ {h} : request'[g] = request[g]
  BY ConnectedMoves DEF ConnShape
<1>2. \/ request[h].op = "subscribe" /\ request[h].at = "started"
      \/ request[h].op = "unsubscribe" /\ request[h].at = "undoing"
  BY DEF NeedsConnection
<1>3. RequestsMatch'
  <2>1. CASE request[h].op = "subscribe" /\ request[h].at = "started"
    <3>1. request'[h].op = "subscribe" /\ request'[h].at = "connected"
      BY <1>1, <2>1
    <3> QED
      BY <1>1, <3>1 DEF RequestsMatch
  <2>2. CASE request[h].op = "unsubscribe" /\ request[h].at = "undoing"
    <3>1. UriOf[h] \notin promised /\ UriOf[h] \notin registered
      BY <2>2 DEF RequestsMatch
    <3>2. request'[h].op = "unsubscribe" /\ request'[h].at = "sending"
      BY <1>1, <2>2
    <3> QED
      BY <1>1, <3>1, <3>2 DEF RequestsMatch
  <2> QED
    BY <1>2, <2>1, <2>2
<1>4. \A u \in Uris : Subscribing(u) => Subscribing(u)'
  BY <1>1, <1>2 DEF Subscribing
<1> QED
  BY <1>3, <1>4 DEF RegistrationsCarried, ConnShape, ConnTyped

(* A request that has nothing registered to undo ends.                      *)
LEMMA IdleKeeps ==
  ASSUME ConnInv, NEW h \in Hosts, At(h, "idle"), request[h].at # "sending",
         UNCHANGED <<conn, restoring, registered, upstreamSubs, promised, unsure>>
  PROVE  RequestsMatch' /\ RegistrationsCarried'
<1> USE DEF ConnInv
<1>1. /\ request'[h].op = request[h].op /\ request'[h].at = "idle"
      /\ \A g \in Hosts \ {h} : request'[g] = request[g]
  BY AtMoves DEF ConnShape
<1>2. RequestsMatch'
  BY <1>1 DEF RequestsMatch
<1>3. \A u \in Uris : Subscribing(u) => Subscribing(u)'
  BY <1>1 DEF Subscribing
<1> QED
  BY <1>2, <1>3 DEF RegistrationsCarried, ConnShape, ConnTyped

LEMMA BeginKeeps ==
  ASSUME OneThreadPerUri, ConnInv, NEW h \in Hosts, NEW op \in {"subscribe", "unsubscribe"}, Begin(h, op)
  PROVE  RequestsMatch' /\ RegistrationsCarried'
<1> USE DEF ConnInv
<1>1. [op |-> op, at |-> "started", over |-> 0] \in RequestState
  BY ConnectionBounds DEF RequestState
<1>2. /\ request'[h].op = op /\ request'[h].at = "started" /\ \A g \in Hosts \ {h} : request'[g] = request[g]
      /\ request[h].at = "idle"
  BY <1>1, RequestMoves DEF Begin, ConnShape
<1>3. /\ promised' \subseteq promised /\ (op = "unsubscribe" => UriOf[h] \notin promised')
      /\ UNCHANGED <<conn, restoring, registered, upstreamSubs, unsure>>
  BY DEF Begin, Uri
<1>4. RequestsMatch'
  BY <1>2, <1>3 DEF RequestsMatch
<1>5. \A u \in Uris : Subscribing(u) => Subscribing(u)'
  BY <1>2 DEF Subscribing
<1> QED
  BY <1>3, <1>4, <1>5 DEF RegistrationsCarried, ConnShape, ConnTyped

LEMMA SubscribeKeeps ==
  ASSUME OneThreadPerUri, ConnInv, NEW h \in Hosts, Subscribe(h)
  PROVE  RequestsMatch' /\ RegistrationsCarried'
<1> USE DEF ConnInv
<1>1. /\ request'[h].op = "subscribe" /\ request'[h].at = IF UriOf[h] \in registered THEN "idle" ELSE "sending"
      /\ request[h].at = "connected" /\ request[h].op = "subscribe"
      /\ \A g \in Hosts \ {h} : request'[g] = request[g]
  BY AtMoves DEF Subscribe, ConnShape, Uri
<1>2. /\ registered' = registered \cup {UriOf[h]} /\ UNCHANGED <<conn, restoring, upstreamSubs, unsure>>
      /\ promised' = IF UriOf[h] \in registered THEN promised \cup {UriOf[h]} ELSE promised
  BY DEF Subscribe, Promise, Uri
<1>3. \A g \in Hosts \ {h} : UriOf[g] # UriOf[h]
  BY DEF OneThreadPerUri
<1>4. RequestsMatch'
  BY <1>1, <1>2, <1>3 DEF RequestsMatch, RegistrationsCarried
<1>5. \A u \in Uris : Subscribing(u) => Subscribing(u)'
  BY <1>1 DEF Subscribing
<1>6. UriOf[h] \notin registered => Subscribing(UriOf[h])'
  BY <1>1 DEF Subscribing
<1> QED
  BY <1>2, <1>4, <1>5, <1>6 DEF RegistrationsCarried, ConnShape, ConnTyped

LEMMA UnsubscribeKeeps ==
  ASSUME OneThreadPerUri, ConnInv, NEW h \in Hosts, Unsubscribe(h)
  PROVE  RequestsMatch' /\ RegistrationsCarried'
<1> USE DEF ConnInv
<1>1. /\ request'[h].op = "unsubscribe" /\ request'[h].at = IF UriOf[h] \in registered THEN "undoing" ELSE "idle"
      /\ request[h].at = "started" /\ request[h].op = "unsubscribe"
      /\ \A g \in Hosts \ {h} : request'[g] = request[g]
  BY AtMoves DEF Unsubscribe, ConnShape, Uri
<1>2. registered' = registered \ {UriOf[h]} /\ UNCHANGED <<conn, restoring, upstreamSubs, unsure, promised>>
  BY DEF Unsubscribe, Uri
<1>3. \A g \in Hosts \ {h} : UriOf[g] # UriOf[h]
  BY DEF OneThreadPerUri
<1>4. UriOf[h] \notin promised
  BY <1>1 DEF RequestsMatch
<1>5. RequestsMatch'
  BY <1>1, <1>2, <1>3, <1>4 DEF RequestsMatch
<1>6. \A u \in Uris : Subscribing(u) => Subscribing(u)'
  BY <1>1 DEF Subscribing
<1> QED
  BY <1>2, <1>4, <1>5, <1>6 DEF RegistrationsCarried, ConnShape, ConnTyped

LEMMA AgreesKeeps ==
  ASSUME OneThreadPerUri, ConnInv, NEW h \in Hosts, UpstreamAgrees(h)
  PROVE  RequestsMatch' /\ RegistrationsCarried'
<1> USE DEF ConnInv
<1>1. /\ request'[h].op = request[h].op /\ request'[h].at = "idle" /\ request[h].at = "sending"
      /\ \A g \in Hosts \ {h} : request'[g] = request[g]
      /\ request[h].op \in {"subscribe", "unsubscribe"}
  BY AtMoves DEF UpstreamAgrees, ConnShape, ConnTyped, RequestState
<1>2. UNCHANGED <<conn, restoring, registered>>
  BY DEF UpstreamAgrees
<1>3. \A g \in Hosts \ {h} : UriOf[g] # UriOf[h]
  BY DEF OneThreadPerUri
<1>4. \A u \in Uris : Subscribing(u) => Subscribing(u)' \/ (u = UriOf[h] /\ request[h].op = "subscribe")
  BY <1>1 DEF Subscribing
<1>5. CASE request[h].op = "subscribe"
  <2>1. /\ upstreamSubs' = upstreamSubs \cup {UriOf[h]} /\ unsure' = unsure \ {UriOf[h]}
        /\ promised' = promised \cup {UriOf[h]} /\ UriOf[h] \in registered
    BY <1>1, <1>5 DEF UpstreamAgrees, Promise, Uri, RequestsMatch
  <2>2. RequestsMatch'
    BY <1>1, <1>2, <1>3, <1>5, <2>1 DEF RequestsMatch
  <2> QED
    BY <1>2, <1>4, <2>1, <2>2 DEF RegistrationsCarried, ConnShape, ConnTyped
<1>6. CASE request[h].op = "unsubscribe"
  <2>1. /\ upstreamSubs' = upstreamSubs \ {UriOf[h]} /\ UNCHANGED <<promised, unsure>>
        /\ UriOf[h] \notin registered
    BY <1>1, <1>6 DEF UpstreamAgrees, Uri, RequestsMatch
  <2>2. RequestsMatch'
    BY <1>1, <1>2, <1>3, <1>6, <2>1 DEF RequestsMatch
  <2> QED
    BY <1>2, <1>4, <1>6, <2>1, <2>2 DEF RegistrationsCarried, ConnShape, ConnTyped
<1> QED
  BY <1>1, <1>5, <1>6

LEMMA RefusesKeeps ==
  ASSUME OneThreadPerUri, ConnInv, NEW h \in Hosts, UpstreamRefuses(h)
  PROVE  RequestsMatch' /\ RegistrationsCarried'
<1> USE DEF ConnInv
<1>1. /\ request'[h].op = request[h].op /\ request'[h].at = "idle" /\ request[h].at = "sending"
      /\ \A g \in Hosts \ {h} : request'[g] = request[g]
      /\ request[h].op \in {"subscribe", "unsubscribe"}
  BY AtMoves DEF UpstreamRefuses, ConnShape, ConnTyped, RequestState
<1>2. UNCHANGED <<conn, restoring, promised>>
  BY DEF UpstreamRefuses
<1>3. \A g \in Hosts \ {h} : UriOf[g] # UriOf[h]
  BY DEF OneThreadPerUri
<1>4. \A u \in Uris : Subscribing(u) => Subscribing(u)' \/ (u = UriOf[h] /\ request[h].op = "subscribe")
  BY <1>1 DEF Subscribing
<1>5. CASE request[h].op = "subscribe"
  <2>1. /\ registered' = registered \ {UriOf[h]} /\ upstreamSubs \subseteq upstreamSubs' /\ UNCHANGED unsure
        /\ UriOf[h] \notin promised
    BY <1>1, <1>5 DEF UpstreamRefuses, Uri, RequestsMatch
  <2>2. RequestsMatch'
    BY <1>1, <1>2, <1>3, <1>5, <2>1 DEF RequestsMatch
  <2> QED
    BY <1>2, <1>4, <2>1, <2>2 DEF RegistrationsCarried, ConnShape, ConnTyped
<1>6. CASE request[h].op = "unsubscribe"
  <2>1. /\ registered' = registered \cup {UriOf[h]} /\ upstreamSubs \ {UriOf[h]} \subseteq upstreamSubs'
        /\ unsure' = unsure \cup {UriOf[h]}
        /\ UriOf[h] \notin promised
    BY <1>1, <1>6 DEF UpstreamRefuses, Uri, RequestsMatch
  <2>2. RequestsMatch'
    BY <1>1, <1>2, <1>3, <1>6, <2>1 DEF RequestsMatch
  <2> QED
    BY <1>2, <1>4, <1>6, <2>1, <2>2 DEF RegistrationsCarried, ConnShape, ConnTyped
<1> QED
  BY <1>1, <1>5, <1>6

LEMMA ConnInvStep == OneThreadPerUri /\ ConnInv /\ [ConnectionNext]_connVars => ConnInv'
<1> SUFFICES ASSUME OneThreadPerUri, ConnInv, [ConnectionNext]_connVars PROVE ConnInv'
  OBVIOUS
<1>0. ConnShape'
  BY ConnShapeStep DEF ConnInv
<1> SUFFICES RequestsMatch' /\ RegistrationsCarried'
  BY <1>0 DEF ConnInv
<1>1. CASE Disconnect
  BY <1>1, RegistrationsStay DEF Disconnect, ConnInv, ConnShape, ConnTyped, ConnState
<1>2. ASSUME NEW h \in Hosts, Reuse(h) PROVE RequestsMatch' /\ RegistrationsCarried'
  BY <1>2, ConnectedKeeps DEF Reuse
<1>3. ASSUME NEW h \in Hosts, ConnectFails(h) PROVE RequestsMatch' /\ RegistrationsCarried'
  BY <1>3, IdleKeeps DEF ConnectFails, NeedsConnection
<1>4. ASSUME NEW h \in Hosts, RestoreOne(h) PROVE RequestsMatch' /\ RegistrationsCarried'
  BY <1>4, RegistrationsStay DEF RestoreOne
<1>5. ASSUME NEW h \in Hosts, Restored(h) PROVE RequestsMatch' /\ RegistrationsCarried'
  <2>1. NeedsConnection(h)
    BY <1>5 DEF Restored, ConnInv, ConnShape, HolderAsks
  <2> QED
    BY <1>5, <2>1, ConnectedKeeps DEF Restored
<1>6. ASSUME NEW u \in Uris, ChangeResource(u) \/ ResourceUpdated(u) \/ NotificationWritten(u)
      PROVE  RequestsMatch' /\ RegistrationsCarried'
  BY <1>6, RegistrationsStay DEF ChangeResource, ResourceUpdated, NotificationWritten
<1>7. CASE UNCHANGED connVars
  BY <1>7, RegistrationsStay DEF connVars
<1>8. CASE ConnectionNext
  BY <1>1, <1>2, <1>3, <1>4, <1>5, <1>6, <1>8, ConnectKeeps, BeginKeeps, SubscribeKeeps, UnsubscribeKeeps,
     AgreesKeeps, RefusesKeeps DEF ConnectionNext
<1> QED
  BY <1>7, <1>8

LEMMA PromiseFollows == ConnInv => PromiseKept
<1> SUFFICES ASSUME ConnInv, NEW u \in promised
             PROVE  u \in registered /\ (conn.open => u \in upstreamSubs \cup restoring \cup unsure)
  BY DEF PromiseKept
<1>1. ~Subscribing(u)
  BY DEF ConnInv, RequestsMatch, Subscribing
<1> QED
  BY <1>1 DEF ConnInv, RegistrationsCarried

LEMMA ConnectionIsTyped == ConnShape /\ UpdatesTyped => ConnectionTypeOK
  BY DEF ConnShape, ConnTyped, UpdatesTyped, ConnectionTypeOK, ConnState, RequestState

-----------------------------------------------------------------------------
(* The lists.                                                               *)

Answers == {Asking, Missing, Clash} \cup {Listed(v) : v \in Versions}
JobState == [by : Askers, refresh : BOOLEAN, cancelled : BOOLEAN, got : [Servers -> Answers]]
AskerState == [at : {"idle", "waiting", "holding", "telling"}, want : {"first", "next", "use"}]
HostState == [cursor : Aggregates \cup {NoList}, walk : SUBSET Aggregates]

UpstreamTyped ==
    /\ listKind \in ListKinds
    /\ upstream \in [Servers -> Versions] /\ notices \in SUBSET Servers /\ missed \in SUBSET Servers
    /\ dirty \in BOOLEAN /\ wake \in BOOLEAN /\ owed \in BOOLEAN /\ forgotten \in BOOLEAN
    /\ unheard \in BOOLEAN
    /\ cache \in [Servers -> Versions \cup {NoList}]
    /\ faults \in 0 .. MaxFaults

SessionTyped ==
    /\ aggregate \in Aggregates \cup {NoList}
    /\ job \in JobState \cup {NoJob}
    /\ asker \in [Askers -> AskerState]
    /\ host \in HostState

ListsTyped == UpstreamTyped /\ SessionTyped

(* The pages of a walk are of the snapshot its cursor belongs to.           *)
WalkFollowsCursor ==
    /\ host.cursor # NoList => host.walk \subseteq {host.cursor}
    /\ PagesAgree

Marked(s) == s \in notices \cup missed \/ dirty \/ forgotten

(* Without a change to take up a refresh is the first one.                  *)
FirstRefresh == job # NoJob /\ ~job.refresh => aggregate = NoList

(* A cached list that is not the present one is known to be so, or the      *)
(* refresh that took the flag has yet to ask, or forgets when it ends.      *)
CacheIsMarked ==
    \A s \in Servers :
        cache[s] # NoList /\ cache[s] # upstream[s] =>
            \/ Marked(s)
            \/ job # NoJob /\ job.refresh /\ (job.cancelled \/ job.got[s] = Asking)

(* What a refresh has gathered is present or known not to be.               *)
GotIsMarked ==
    job # NoJob /\ ~job.cancelled =>
        \A s \in Servers : /\ job.got[s] = Missing => dirty
                           /\ \A v \in Versions : job.got[s] = Listed(v) /\ v # upstream[s] => Marked(s)

ListsInv ==
    ListsTyped /\ WalkFollowsCursor /\ FirstRefresh /\ CacheIsMarked /\ GotIsMarked /\ StaleIsMarked

LEMMA JobsDiffer == \A j \in JobState : j # NoJob
<1> SUFFICES ASSUME NEW j \in JobState, j = NoJob PROVE FALSE
  OBVIOUS
<1>1. DOMAIN j = {"by", "refresh", "cancelled", "got"}
  BY DEF JobState
<1>2. DOMAIN NoJob = {"by"}
  BY DEF NoJob
<1> QED
  BY <1>1, <1>2

LEMMA AnswersDiffer ==
  /\ Asking # Missing /\ Asking # Clash /\ Missing # Clash
  /\ \A v : Listed(v) # Asking /\ Listed(v) # Missing /\ Listed(v) # Clash /\ Listed(v).is = "list" /\ Listed(v).of = v
  /\ Asking.is # "list" /\ Missing.is # "list" /\ Clash.is # "list"
  BY DEF Asking, Missing, Clash, Listed

LEMMA VersionsAreNat == (\A v \in Versions : v \in Nat) /\ NoList \notin Versions /\ NoList \notin Aggregates
<1>1. \A v \in Versions : v \in Nat
  BY ListBoundsAssumption DEF Versions
<1> QED
  BY <1>1, NoListAssumption

LEMMA ListsInvInit == ListsInit => ListsInv
<1> SUFFICES ASSUME ListsInit PROVE ListsInv
  OBVIOUS
<1>1. \A s \in Servers : 0 \in Versions
  BY ListBoundsAssumption DEF Versions
<1>2. UpstreamTyped
  <2>1. 0 \in 0 .. MaxFaults
    BY ListBoundsAssumption
  <2>2. upstream \in [Servers -> Versions]
    BY <1>1 DEF ListsInit
  <2> QED
    BY <2>1, <2>2 DEF ListsInit, UpstreamTyped
<1>3. SessionTyped
  BY DEF ListsInit, SessionTyped, AskerState, HostState
<1>4. WalkFollowsCursor
  BY DEF ListsInit, WalkFollowsCursor, PagesAgree
<1> QED
  BY <1>2, <1>3, <1>4 DEF ListsInit, ListsInv, ListsTyped, FirstRefresh, CacheIsMarked, GotIsMarked,
                          StaleIsMarked, Behind

(* What a host gets keeps its walk.                                         *)
LEMMA ServedWell ==
  ASSUME ListsTyped, WalkFollowsCursor, NEW p \in Askers, NEW a \in Aggregates, Serve(p, a)
  PROVE  asker' \in [Askers -> AskerState] /\ host' \in HostState /\ WalkFollowsCursor'
<1> USE DEF ListsTyped, SessionTyped
<1>1. asker' \in [Askers -> AskerState]
  BY DEF Serve, Return, AskerState
<1>2. CASE host' = host
  BY <1>1, <1>2 DEF WalkFollowsCursor, PagesAgree
<1>3. CASE host' = [cursor |-> a, walk |-> {a}]
  BY <1>1, <1>3 DEF WalkFollowsCursor, PagesAgree, HostState
<1>4. CASE host' = [cursor |-> NoList, walk |-> IF host.cursor = a THEN host.walk \cup {a} ELSE host.walk]
  <2>1. host' \in HostState
    BY <1>4 DEF HostState
  <2>2. host'.cursor = NoList /\ host'.walk = IF host.cursor = a THEN host.walk \cup {a} ELSE host.walk
    BY <1>4
  <2>3. host.cursor = a => host.walk \subseteq {a}
    BY VersionsAreNat DEF WalkFollowsCursor
  <2>4. WalkFollowsCursor'
    BY <2>2, <2>3 DEF WalkFollowsCursor, PagesAgree
  <2> QED
    BY <1>1, <2>1, <2>4
<1>5. asker[p].want \in {"first", "next", "use"}
  BY DEF AskerState
<1>6. /\ asker[p].want = "first" => Page(asker[p].want, a) = [cursor |-> a, walk |-> {a}]
      /\ asker[p].want = "next" => Page(asker[p].want, a) =
           [cursor |-> NoList, walk |-> IF host.cursor = a THEN host.walk \cup {a} ELSE host.walk]
      /\ asker[p].want = "use" => Page(asker[p].want, a) = host
  BY DEF Page
<1>7. host' = host \/ host' = Page(asker[p].want, a)
  BY DEF Serve
<1> QED
  BY <1>2, <1>3, <1>4, <1>5, <1>6, <1>7

LEMMA RefusedWell ==
  ASSUME ListsTyped, WalkFollowsCursor, NEW p \in Askers, Refuse(p)
  PROVE  asker' \in [Askers -> AskerState] /\ host' \in HostState /\ WalkFollowsCursor'
  BY DEF ListsTyped, SessionTyped, Refuse, Return, AskerState, WalkFollowsCursor, PagesAgree

(* What a server's answer does to the refresh.                              *)
LEMMA GotMoves ==
  ASSUME ListsTyped, NEW s \in Servers, Awaited(s), NEW a \in Answers, Got(s, a)
  PROVE  /\ job' \in JobState /\ job' # NoJob /\ job # NoJob
         /\ job'.refresh = job.refresh /\ job'.cancelled = job.cancelled /\ job'.got[s] = a
         /\ \A t \in Servers \ {s} : job'.got[t] = job.got[t]
         /\ job.got[s] = Asking
<1>1. job \in JobState /\ job.got[s] = Asking
  BY DEF ListsTyped, SessionTyped, Awaited
<1>2. job' = [job EXCEPT !.got[s] = a]
  BY DEF Got
<1>3. /\ job' \in JobState
      /\ job'.refresh = job.refresh /\ job'.cancelled = job.cancelled /\ job'.got[s] = a
      /\ \A t \in Servers \ {s} : job'.got[t] = job.got[t]
  BY <1>1, <1>2 DEF JobState
<1> QED
  BY <1>1, <1>3, JobsDiffer

LEMMA LastListIs ==
  ASSUME ListsTyped, NEW s \in Servers
  PROVE  /\ cache[s] = NoList => LastList(s) = Missing
         /\ cache[s] # NoList => LastList(s) = Listed(cache[s]) /\ cache[s] \in Versions
         /\ LastList(s) \in Answers
  BY DEF ListsTyped, UpstreamTyped, LastList, Answers

(* Types.                                                                   *)
LEMMA MergedIsAggregate ==
  ASSUME ListsTyped, job # NoJob
  PROVE  /\ Merged \in Aggregates
         /\ \A s \in Servers : job.got[s] \in Answers
         /\ \A s \in Servers : s \in UsableServers <=> \E v \in Versions : job.got[s] = Listed(v)
         /\ \A s \in UsableServers : job.got[s] = Listed(Merged[s]) /\ Merged[s] \in Versions
         /\ DOMAIN Merged = UsableServers
<1>1. \A s \in Servers : job.got[s] \in Answers
  BY DEF ListsTyped, SessionTyped, JobState
<1>2. \A s \in Servers : s \in UsableServers <=> \E v \in Versions : job.got[s] = Listed(v)
  BY <1>1, AnswersDiffer DEF UsableServers, Answers
<1>3. \A s \in UsableServers : job.got[s] = Listed(job.got[s].of) /\ job.got[s].of \in Versions
  <2> SUFFICES ASSUME NEW s \in UsableServers
               PROVE  job.got[s] = Listed(job.got[s].of) /\ job.got[s].of \in Versions
    OBVIOUS
  <2>1. PICK v \in Versions : job.got[s] = Listed(v)
    BY <1>2 DEF UsableServers
  <2>2. Listed(v).of = v
    BY AnswersDiffer
  <2> QED
    BY <2>1, <2>2
<1>4. Merged \in [UsableServers -> Versions] /\ UsableServers \in SUBSET Servers
  BY <1>3 DEF Merged, UsableServers
<1>5. Merged \in Aggregates
  BY <1>4 DEF Aggregates
<1> QED
  BY <1>1, <1>2, <1>3, <1>5 DEF Merged

LEMMA FaultTypes == ASSUME UpstreamTyped, Fault \/ UNCHANGED faults PROVE faults' \in 0 .. MaxFaults
  BY ListBoundsAssumption DEF UpstreamTyped, Fault

LEMMA UpstreamTypedStep ==
  ASSUME ListsTyped, [ListsNext]_listVars
  PROVE  UpstreamTyped'
<1> USE DEF ListsTyped, unannounced
<1>1. ASSUME NEW s \in Servers, ChangeList(s) PROVE UpstreamTyped'
  <2>1. upstream[s] \in Nat /\ upstream[s] < MaxVersion[s] /\ MaxVersion[s] \in Nat
    BY <1>1, VersionsAreNat, ListBoundsAssumption DEF ChangeList, UpstreamTyped
  <2>2. upstream[s] + 1 \in 0 .. MaxVersion[s]
    BY <2>1
  <2>3. upstream[s] + 1 \in Versions
    BY <2>2 DEF Versions
  <2> QED
    BY <1>1, <2>3 DEF ChangeList, UpstreamTyped
<1>2. ASSUME NEW s \in Servers, Reconnect(s) \/ ListChanged(s) PROVE UpstreamTyped'
  BY <1>2 DEF Reconnect, ListChanged, UpstreamTyped
<1>3. ASSUME NEW s \in Servers, ServerLists(s) PROVE UpstreamTyped'
  BY <1>3 DEF ServerLists, KeepLastList, UpstreamTyped
<1>4. ASSUME NEW s \in Servers, ServerFails(s) PROVE UpstreamTyped'
  BY <1>4, FaultTypes DEF ServerFails, KeepLastList, UpstreamTyped
<1>5. ASSUME NEW s \in Servers, FromCache(s) \/ SkipServer(s) PROVE UpstreamTyped'
  BY <1>5 DEF FromCache, SkipServer, UpstreamTyped
<1>6. ASSUME NEW p \in Callers, NEW want, Ask(p, want) PROVE UpstreamTyped'
  BY <1>6 DEF Ask, UpstreamTyped
<1>7. ASSUME NEW p \in Askers, GiveUp(p) PROVE UpstreamTyped'
  BY <1>7, FaultTypes DEF GiveUp, UpstreamTyped
<1>8. ASSUME NEW p \in Askers, UseAggregate(p) \/ BeginRefresh(p) PROVE UpstreamTyped'
  BY <1>8 DEF UseAggregate, BeginRefresh, UpstreamTyped
<1>9. CASE CancelRefresh
  BY <1>9, FaultTypes DEF CancelRefresh, UpstreamTyped
<1>10. CASE WatcherWakes \/ TellHost \/ RefreshConflicts \/ RefreshEmpty
  BY <1>10 DEF WatcherWakes, TellHost, RefreshConflicts, RefreshEmpty, UpstreamTyped
<1>11. CASE RefreshCancelled
  BY <1>11 DEF RefreshCancelled, UpstreamTyped
<1>12. CASE RefreshDone
  BY <1>12 DEF RefreshDone, UpstreamTyped
<1>13. CASE UNCHANGED listVars
  BY <1>13 DEF listVars, UpstreamTyped
<1>14. CASE ListsNext
  BY <1>1, <1>2, <1>3, <1>4, <1>5, <1>6, <1>7, <1>8, <1>9, <1>10, <1>11, <1>12, <1>14 DEF ListsNext
<1> QED
  BY <1>13, <1>14

(* The session's part of the types, with the walk of the host.              *)
SessionWell == SessionTyped /\ WalkFollowsCursor

LEMMA SessionWellStep ==
  ASSUME ListsTyped, WalkFollowsCursor, [ListsNext]_listVars
  PROVE  SessionWell'
<1> USE DEF ListsTyped
<1>1. ASSUME UNCHANGED <<aggregate, job, asker, host>> PROVE SessionWell'
  BY <1>1 DEF SessionWell, SessionTyped, WalkFollowsCursor, PagesAgree
<1>2. ASSUME UNCHANGED <<aggregate, asker, host>>, job' \in JobState PROVE SessionWell'
  BY <1>2 DEF SessionWell, SessionTyped, WalkFollowsCursor, PagesAgree
<1>3. ASSUME UNCHANGED host, aggregate' = aggregate, job' \in JobState \cup {NoJob},
             asker' \in [Askers -> AskerState]
      PROVE  SessionWell'
  BY <1>3 DEF SessionWell, SessionTyped, WalkFollowsCursor, PagesAgree
<1>4. ASSUME aggregate' \in Aggregates \cup {NoList}, job' \in JobState \cup {NoJob}, NEW p \in Askers,
             Refuse(p) \/ \E a \in Aggregates : Serve(p, a)
      PROVE  SessionWell'
  <2>1. asker' \in [Askers -> AskerState] /\ host' \in HostState /\ WalkFollowsCursor'
    BY <1>4, ServedWell, RefusedWell
  <2> QED
    BY <1>4, <2>1 DEF SessionWell, SessionTyped
<1>5. \A s \in Servers : Awaited(s) /\ (\E a \in Answers : Got(s, a)) => job' \in JobState
  BY GotMoves
<1>6. ASSUME job # NoJob PROVE job.by \in Askers
  BY <1>6 DEF SessionTyped, JobState
<1>7. ASSUME NEW s \in Servers, ChangeList(s) \/ Reconnect(s) \/ ListChanged(s) PROVE SessionWell'
  BY <1>1, <1>7 DEF ChangeList, Reconnect, ListChanged
<1>8. ASSUME NEW s \in Servers, FromCache(s) PROVE SessionWell'
  <2>1. Listed(cache[s]) \in Answers
    BY <1>8 DEF FromCache, UpstreamTyped, Answers
  <2> QED
    BY <1>2, <1>5, <1>8, <2>1 DEF FromCache
<1>9. ASSUME NEW s \in Servers, ServerLists(s) PROVE SessionWell'
  <2>1. Listed(upstream[s]) \in Answers /\ Clash \in Answers /\ LastList(s) \in Answers
    BY LastListIs DEF UpstreamTyped, Answers
  <2> QED
    BY <1>2, <1>5, <1>9, <2>1 DEF ServerLists, KeepLastList
<1>10. ASSUME NEW s \in Servers, ServerFails(s) \/ SkipServer(s) PROVE SessionWell'
  <2>1. Missing \in Answers /\ LastList(s) \in Answers
    BY LastListIs DEF Answers
  <2> QED
    BY <1>2, <1>5, <1>10, <2>1 DEF ServerFails, SkipServer, KeepLastList
<1>11. ASSUME NEW p \in Callers, NEW want \in {"first", "next", "use"}, Ask(p, want) PROVE SessionWell'
  <2>1. asker' \in [Askers -> AskerState]
    BY <1>11 DEF Ask, SessionTyped, AskerState, Askers
  <2> QED
    BY <1>3, <1>11, <2>1 DEF Ask, SessionTyped
<1>12. ASSUME NEW p \in Askers, GiveUp(p) PROVE SessionWell'
  BY <1>4, <1>12 DEF GiveUp, SessionTyped
<1>13. ASSUME NEW p \in Askers, UseAggregate(p) PROVE SessionWell'
  <2>1. aggregate \in Aggregates /\ Serve(p, aggregate)
    BY <1>13 DEF UseAggregate, SessionTyped
  <2> QED
    BY <1>4, <1>13, <2>1 DEF UseAggregate, SessionTyped
<1>14. ASSUME NEW p \in Askers, BeginRefresh(p) PROVE SessionWell'
  <2>1. [s \in Servers |-> Asking] \in [Servers -> Answers]
    BY DEF Answers
  <2>2. job' \in JobState
    BY <1>14, <2>1 DEF BeginRefresh, JobState, UpstreamTyped
  <2>3. asker' \in [Askers -> AskerState]
    BY <1>14 DEF BeginRefresh, SessionTyped, AskerState
  <2> QED
    BY <1>3, <1>14, <2>2, <2>3 DEF BeginRefresh
<1>15. CASE CancelRefresh
  <2>1. job \in JobState
    BY <1>15 DEF CancelRefresh, SessionTyped
  <2>2. job' \in JobState
    BY <1>15, <2>1 DEF CancelRefresh, JobState
  <2> QED
    BY <1>2, <1>15, <2>2 DEF CancelRefresh
<1>16. CASE WatcherWakes \/ TellHost
  <2>1. asker' \in [Askers -> AskerState]
    BY <1>16 DEF WatcherWakes, TellHost, SessionTyped, AskerState, Askers
  <2> QED
    BY <1>3, <1>16, <2>1 DEF WatcherWakes, TellHost, SessionTyped
<1>17. CASE RefreshCancelled \/ RefreshConflicts
  <2>1. job.by \in Askers /\ Refuse(job.by)
    BY <1>6, <1>17 DEF RefreshCancelled, RefreshConflicts, Answered
  <2> QED
    BY <1>4, <1>17, <2>1 DEF RefreshCancelled, RefreshConflicts, SessionTyped
<1>18. CASE RefreshEmpty
  <2>1. job.by \in Askers /\ (Refuse(job.by) \/ (aggregate \in Aggregates /\ Serve(job.by, aggregate)))
    BY <1>6, <1>18 DEF RefreshEmpty, Answered, SessionTyped
  <2> QED
    BY <1>4, <1>18, <2>1 DEF RefreshEmpty, SessionTyped
<1>19. CASE RefreshDone
  <2>1. job.by \in Askers /\ Merged \in Aggregates /\ Serve(job.by, Merged)
    BY <1>6, <1>19, MergedIsAggregate DEF RefreshDone, Answered
  <2> QED
    BY <1>4, <1>19, <2>1 DEF RefreshDone
<1>20. CASE UNCHANGED listVars
  BY <1>1, <1>20 DEF listVars
<1>21. CASE ListsNext
  BY <1>7, <1>8, <1>9, <1>10, <1>11, <1>12, <1>13, <1>14, <1>15, <1>16, <1>17, <1>18, <1>19, <1>21 DEF ListsNext
<1> QED
  BY <1>20, <1>21

(* The marks.  A step that changes no list, no aggregate and no refresh and *)
(* takes no mark away keeps them all.                                       *)
Marks == FirstRefresh /\ CacheIsMarked /\ GotIsMarked /\ StaleIsMarked

LEMMA MarksStay ==
  ASSUME Marks, UNCHANGED <<cache, aggregate, job, upstream>>, \A s \in Servers : Marked(s) => Marked(s)',
         dirty => dirty'
  PROVE  Marks'
<1> USE DEF Marks
<1>1. \A s \in Servers : Behind(s)' <=> Behind(s)
  BY DEF Behind
<1>2. FirstRefresh' /\ CacheIsMarked'
  BY DEF FirstRefresh, CacheIsMarked
<1>3. GotIsMarked'
  BY DEF GotIsMarked
<1>4. StaleIsMarked'
  BY <1>1 DEF StaleIsMarked, Marked
<1> QED
  BY <1>2, <1>3, <1>4

LEMMA ChangeMarks == ASSUME Marks, ListsTyped, NEW s \in Servers, ChangeList(s) PROVE Marks'
<1> USE DEF Marks
<1>1. /\ UNCHANGED <<dirty, cache, aggregate, job, forgotten>>
      /\ notices \subseteq notices' /\ missed \subseteq missed' /\ s \in notices' \cup missed'
      /\ \A t \in Servers \ {s} : upstream'[t] = upstream[t]
  BY DEF ChangeList, unannounced, ListsTyped, UpstreamTyped
<1>2. Marked(s)' /\ \A t \in Servers : Marked(t) => Marked(t)'
  BY <1>1 DEF Marked
<1>3. FirstRefresh'
  BY <1>1 DEF FirstRefresh
<1>4. CacheIsMarked'
  BY <1>1, <1>2 DEF CacheIsMarked
<1>5. GotIsMarked'
  BY <1>1, <1>2 DEF GotIsMarked
<1>6. StaleIsMarked'
  <2>1. \A t \in Servers \ {s} : Behind(t)' <=> Behind(t)
    BY <1>1 DEF Behind
  <2> QED
    BY <1>1, <1>2, <2>1 DEF StaleIsMarked, Marked
<1> QED
  BY <1>3, <1>4, <1>5, <1>6

LEMMA BeginMarks == ASSUME Marks, ListsTyped, NEW p \in Askers, BeginRefresh(p) PROVE Marks'
<1> USE DEF Marks
<1>1. /\ job = NoJob /\ (dirty \/ aggregate = NoList)
      /\ UNCHANGED <<upstream, notices, cache, aggregate>>
      /\ missed' = IF dirty THEN {} ELSE missed
      /\ forgotten' = IF dirty THEN FALSE ELSE forgotten
      /\ job' = [by |-> p, refresh |-> dirty, cancelled |-> FALSE, got |-> [s \in Servers |-> Asking]]
  BY DEF BeginRefresh, Locked
<1>2. /\ job'.refresh = dirty /\ job'.cancelled = FALSE /\ \A s \in Servers : job'.got[s] = Asking
      /\ job' \in JobState
  BY <1>1 DEF JobState, Answers, ListsTyped, UpstreamTyped
<1>3. job' # NoJob
  BY <1>2, JobsDiffer
<1>4. FirstRefresh'
  BY <1>1, <1>2 DEF FirstRefresh
<1>5. CacheIsMarked'
  BY <1>1, <1>2, <1>3 DEF CacheIsMarked, Marked
<1>6. GotIsMarked'
  BY <1>2, AnswersDiffer DEF GotIsMarked
<1>7. StaleIsMarked'
  BY <1>1, <1>2, <1>3 DEF StaleIsMarked, Behind
<1> QED
  BY <1>4, <1>5, <1>6, <1>7

LEMMA CancelMarks == ASSUME Marks, ListsTyped, CancelRefresh PROVE Marks'
<1> USE DEF Marks
<1>1. /\ job \in JobState /\ job # NoJob /\ job' = [job EXCEPT !.cancelled = TRUE]
      /\ UNCHANGED <<upstream, notices, missed, dirty, cache, aggregate, forgotten>>
  BY DEF CancelRefresh, unannounced, ListsTyped, SessionTyped
<1>2. job' \in JobState /\ job'.refresh = job.refresh /\ job'.cancelled = TRUE /\ job'.got = job.got
  BY <1>1 DEF JobState
<1>3. job' # NoJob
  BY <1>2, JobsDiffer
<1>4. FirstRefresh' /\ CacheIsMarked' /\ GotIsMarked'
  BY <1>1, <1>2, <1>3 DEF FirstRefresh, CacheIsMarked, GotIsMarked, Marked
<1>5. StaleIsMarked'
  BY <1>2, <1>3 DEF StaleIsMarked
<1> QED
  BY <1>4, <1>5

(* An answer of a server: the present list, a mark, or what the marks of    *)
(* its cached list say already.                                             *)
LEMMA GotMarks ==
  ASSUME Marks, ListsTyped, NEW s \in Servers, Awaited(s), NEW a \in Answers, Got(s, a),
         UNCHANGED <<upstream, notices, missed, aggregate, forgotten>>,
         dirty => dirty',
         \A t \in Servers \ {s} : cache'[t] = cache[t],
         cache'[s] \in {cache[s], upstream[s]},
         \/ dirty'
         \/ job.cancelled /\ UNCHANGED cache
         \/ a = Listed(upstream[s]) /\ cache'[s] = upstream[s]
         \/ a = Listed(cache[s]) /\ cache[s] \in Versions /\ ~job.refresh /\ UNCHANGED cache
  PROVE  Marks'
<1> USE DEF Marks
<1>1. /\ job' \in JobState /\ job' # NoJob /\ job # NoJob
      /\ job'.refresh = job.refresh /\ job'.cancelled = job.cancelled /\ job'.got[s] = a
      /\ \A t \in Servers \ {s} : job'.got[t] = job.got[t]
      /\ job.got[s] = Asking
  BY GotMoves
<1>2. \A t \in Servers : Marked(t) => Marked(t)'
  BY DEF Marked
<1>3. \A t \in Servers : Behind(t)' <=> Behind(t)
  BY DEF Behind
<1>4. FirstRefresh'
  BY <1>1 DEF FirstRefresh
<1>5. CASE dirty'
  <2>1. \A t \in Servers : Marked(t)'
    BY <1>5 DEF Marked
  <2>2. CacheIsMarked'
    BY <2>1 DEF CacheIsMarked
  <2>3. GotIsMarked'
    BY <1>5, <2>1 DEF GotIsMarked
  <2>4. StaleIsMarked'
    BY <1>5 DEF StaleIsMarked
  <2> QED
    BY <1>4, <2>2, <2>3, <2>4
<1>6. CASE job.cancelled /\ UNCHANGED cache
  <2>1. CacheIsMarked'
    BY <1>1, <1>2, <1>6 DEF CacheIsMarked
  <2>2. GotIsMarked'
    BY <1>1, <1>6 DEF GotIsMarked
  <2>3. StaleIsMarked'
    BY <1>1, <1>3, <1>6 DEF StaleIsMarked
  <2> QED
    BY <1>4, <2>1, <2>2, <2>3
<1>7. CASE a = Listed(upstream[s]) /\ cache'[s] = upstream[s]
  <2>1. CacheIsMarked'
    BY <1>1, <1>2, <1>7 DEF CacheIsMarked
  <2>2. GotIsMarked'
    <3> SUFFICES ASSUME ~job.cancelled, NEW t \in Servers
                 PROVE  /\ job'.got[t] = Missing => dirty'
                        /\ \A v \in Versions : job'.got[t] = Listed(v) /\ v # upstream[t] => Marked(t)'
      BY <1>1 DEF GotIsMarked
    <3>1. CASE t = s
      BY <1>1, <1>7, <3>1, AnswersDiffer
    <3>2. CASE t # s
      BY <1>1, <1>2, <3>2 DEF GotIsMarked
    <3> QED
      BY <3>1, <3>2
  <2>3. StaleIsMarked'
    BY <1>1, <1>3, <1>7 DEF StaleIsMarked
  <2> QED
    BY <1>4, <2>1, <2>2, <2>3
<1>8. CASE a = Listed(cache[s]) /\ cache[s] \in Versions /\ ~job.refresh /\ UNCHANGED cache
  <2>1. CacheIsMarked'
    BY <1>1, <1>2, <1>8 DEF CacheIsMarked
  <2>2. cache[s] # upstream[s] => Marked(s)
    BY <1>8, VersionsAreNat DEF CacheIsMarked
  <2>3. GotIsMarked'
    <3> SUFFICES ASSUME ~job.cancelled, NEW t \in Servers
                 PROVE  /\ job'.got[t] = Missing => dirty'
                        /\ \A v \in Versions : job'.got[t] = Listed(v) /\ v # upstream[t] => Marked(t)'
      BY <1>1 DEF GotIsMarked
    <3>1. CASE t = s
      <4>1. \A v \in Versions : job'.got[t] = Listed(v) => v = cache[s]
        BY <1>1, <1>8, <3>1, AnswersDiffer
      <4>2. job'.got[t] # Missing
        BY <1>1, <1>8, <3>1, AnswersDiffer
      <4> QED
        BY <1>2, <2>2, <3>1, <4>1, <4>2
    <3>2. CASE t # s
      BY <1>1, <1>2, <3>2 DEF GotIsMarked
    <3> QED
      BY <3>1, <3>2
  <2>4. StaleIsMarked'
    BY <1>1, <1>3, <1>8 DEF StaleIsMarked, FirstRefresh, Behind
  <2> QED
    BY <1>4, <2>1, <2>3, <2>4
<1> QED
  BY <1>5, <1>6, <1>7, <1>8

LEMMA AnswerMarks ==
  ASSUME Marks, ListsTyped, NEW s \in Servers, FromCache(s) \/ ServerLists(s) \/ ServerFails(s) \/ SkipServer(s)
  PROVE  Marks'
<1> USE DEF unannounced
<1>1. /\ Listed(upstream[s]) \in Answers /\ Missing \in Answers /\ Clash \in Answers /\ LastList(s) \in Answers
      /\ cache[s] # NoList => Listed(cache[s]) \in Answers /\ cache[s] \in Versions
  BY LastListIs DEF ListsTyped, UpstreamTyped, Answers
<1>2. CASE FromCache(s)
  <2>1. /\ Awaited(s) /\ Listed(cache[s]) \in Answers /\ Got(s, Listed(cache[s])) /\ cache[s] \in Versions
        /\ ~job.refresh /\ UNCHANGED <<upstream, notices, missed, aggregate, forgotten, dirty, cache>>
    BY <1>1, <1>2 DEF FromCache
  <2> QED
    BY <2>1, GotMarks
<1>3. CASE ServerLists(s)
  <2>1. Awaited(s) /\ UNCHANGED <<upstream, notices, missed, aggregate, forgotten>>
    BY <1>3 DEF ServerLists
  <2>2. CASE Got(s, Listed(upstream[s])) /\ cache' = [cache EXCEPT ![s] = upstream[s]] /\ UNCHANGED dirty
    <3>1. cache'[s] = upstream[s] /\ \A t \in Servers \ {s} : cache'[t] = cache[t]
      BY <2>2 DEF ListsTyped, UpstreamTyped
    <3> QED
      BY <1>1, <2>1, <2>2, <3>1, GotMarks
  <2>3. CASE Got(s, Clash) /\ dirty' = TRUE /\ UNCHANGED cache
    BY <1>1, <2>1, <2>3, GotMarks
  <2>4. CASE KeepLastList(s)
    BY <1>1, <2>1, <2>4, GotMarks DEF KeepLastList
  <2> QED
    BY <1>3, <2>2, <2>3, <2>4 DEF ServerLists
<1>4. CASE ServerFails(s)
  BY <1>1, <1>4, GotMarks DEF ServerFails, KeepLastList
<1>5. CASE SkipServer(s)
  BY <1>1, <1>5, GotMarks DEF SkipServer
<1> QED
  BY <1>2, <1>3, <1>4, <1>5

(* The end of a refresh that was not cancelled.                             *)
LEMMA EndMarks ==
  ASSUME Marks, ListsTyped, job # NoJob, job' = NoJob, UNCHANGED <<upstream, notices, missed, cache>>,
         dirty => dirty', forgotten => forgotten',
         \/ dirty'
         \/ /\ Answered /\ ~job.cancelled /\ ~Conflict
            /\ \/ UsableServers = {} /\ UNCHANGED aggregate
               \/ aggregate' = Merged
         \/ forgotten' = (forgotten \/ (job.refresh /\ ~dirty)) /\ UNCHANGED <<aggregate, dirty>>
  PROVE  Marks'
<1> USE DEF Marks
<1>1. FirstRefresh' /\ GotIsMarked'
  BY DEF FirstRefresh, GotIsMarked
<1>2. \A s \in Servers : Marked(s) => Marked(s)'
  BY DEF Marked
<1>3. CASE dirty'
  BY <1>1, <1>3 DEF CacheIsMarked, StaleIsMarked, Marked
<1>4. CASE /\ Answered /\ ~job.cancelled /\ ~Conflict
           /\ \/ UsableServers = {} /\ UNCHANGED aggregate
              \/ aggregate' = Merged
  <2>1. CacheIsMarked'
    BY <1>2, <1>4 DEF CacheIsMarked, Answered
  <2>2. \A s \in Servers : job.got[s] \in Answers /\ job.got[s] # Asking /\ job.got[s] # Clash
    BY <1>4, MergedIsAggregate DEF Answered, Conflict
  <2>3. \A s \in Servers \ UsableServers : dirty
    <3> SUFFICES ASSUME NEW s \in Servers \ UsableServers PROVE dirty
      OBVIOUS
    <3>1. job.got[s] = Missing
      BY <2>2, MergedIsAggregate DEF Answers
    <3> QED
      BY <1>4, <3>1 DEF GotIsMarked
  <2>4. StaleIsMarked'
    <3> SUFFICES ASSUME NEW s \in Servers, Behind(s)' PROVE Marked(s)
      BY <1>2 DEF StaleIsMarked, Marked
    <3>1. CASE s \notin UsableServers
      BY <2>3, <3>1 DEF Marked
    <3>2. CASE s \in UsableServers
      <4>1. aggregate' = Merged /\ s \in DOMAIN Merged
        BY <1>4, <3>2, MergedIsAggregate
      <4>2. Merged[s] # upstream[s] /\ job.got[s] = Listed(Merged[s]) /\ Merged[s] \in Versions
        BY <3>2, <4>1, MergedIsAggregate DEF Behind
      <4> QED
        BY <1>4, <4>2 DEF GotIsMarked
    <3> QED
      BY <3>1, <3>2
  <2> QED
    BY <1>1, <2>1, <2>4
<1>5. CASE forgotten' = (forgotten \/ (job.refresh /\ ~dirty)) /\ UNCHANGED <<aggregate, dirty>>
  <2>1. CacheIsMarked'
    BY <1>2, <1>5 DEF CacheIsMarked, Marked
  <2>2. \A s \in Servers : Behind(s)' <=> Behind(s)
    BY <1>5 DEF Behind
  <2>3. StaleIsMarked'
    BY <1>5, <2>2 DEF StaleIsMarked, FirstRefresh, Behind
  <2> QED
    BY <1>1, <2>1, <2>3
<1> QED
  BY <1>3, <1>4, <1>5

LEMMA ListsInvStep == ListsInv /\ [ListsNext]_listVars => ListsInv'
<1> SUFFICES ASSUME ListsTyped, WalkFollowsCursor, Marks, [ListsNext]_listVars
             PROVE  ListsTyped' /\ WalkFollowsCursor' /\ Marks'
  BY DEF ListsInv, Marks
<1>0. ListsTyped' /\ WalkFollowsCursor'
  BY UpstreamTypedStep, SessionWellStep DEF ListsTyped, SessionWell
<1> SUFFICES Marks'
  BY <1>0
<1> USE DEF unannounced
<1>1. ASSUME NEW s \in Servers, Reconnect(s) \/ ListChanged(s) PROVE Marks'
  BY <1>1, MarksStay DEF Reconnect, ListChanged, Marked
<1>2. ASSUME NEW p \in Callers, NEW want, Ask(p, want) PROVE Marks'
  BY <1>2, MarksStay DEF Ask, Marked
<1>3. ASSUME NEW p \in Askers, GiveUp(p) \/ UseAggregate(p) PROVE Marks'
  BY <1>3, MarksStay DEF GiveUp, UseAggregate, Marked
<1>4. CASE WatcherWakes \/ TellHost
  BY <1>4, MarksStay DEF WatcherWakes, TellHost, Marked
<1>5. CASE RefreshCancelled \/ RefreshConflicts \/ RefreshEmpty \/ RefreshDone
  <2>1. CASE RefreshCancelled
    BY <2>1, EndMarks DEF RefreshCancelled, Answered
  <2>2. CASE RefreshConflicts
    BY <2>2, EndMarks DEF RefreshConflicts, Answered
  <2>3. CASE RefreshEmpty
    <3>1. Answered /\ ~job.cancelled /\ ~Conflict /\ UsableServers = {} /\ job # NoJob
      BY <2>3 DEF RefreshEmpty, Answered
    <3> QED
      BY <2>3, <3>1, EndMarks DEF RefreshEmpty
  <2>4. CASE RefreshDone
    <3>1. Answered /\ ~job.cancelled /\ ~Conflict /\ job # NoJob
      BY <2>4 DEF RefreshDone, Answered
    <3> QED
      BY <2>4, <3>1, EndMarks DEF RefreshDone
  <2> QED
    BY <1>5, <2>1, <2>2, <2>3, <2>4
<1>6. CASE UNCHANGED listVars
  BY <1>6, MarksStay DEF listVars, Marked
<1>7. CASE ListsNext
  BY <1>1, <1>2, <1>3, <1>4, <1>5, <1>7, ChangeMarks, BeginMarks, CancelMarks, AnswerMarks DEF ListsNext
<1> QED
  BY <1>6, <1>7

LEMMA ListsAreTyped == ListsInv => ListsTypeOK
  BY DEF ListsInv, ListsTyped, UpstreamTyped, SessionTyped, ListsTypeOK, JobState, Answers, AskerState, HostState

-----------------------------------------------------------------------------
(* The gateway.                                                             *)

GatewayInv == part \in Parts /\ ListsInv /\ ConnShape /\ UpdatesTyped /\ ProgressInv /\ PostInv /\ CreditInv

LEMMA GatewayInits == GatewayInit => GatewayInv /\ ConnInv
  BY ListsInvInit, ConnShapeInit, ConnInvInit, UpdatesInit, ProgressInvInit, PostInvInit, CreditInvInit
     DEF GatewayInit, GatewayInv

LEMMA OnePartMoves ==
  ASSUME [GatewayNext]_gatewayVars
  PROVE  /\ UNCHANGED part
         /\ [ListsNext]_listVars /\ [ConnectionNext]_connVars /\ [ProgressNext]_progressVars /\ [HttpNext]_httpVars
  BY DEF GatewayNext, gatewayVars

LEMMA GatewaySteps == GatewayInv /\ [GatewayNext]_gatewayVars => GatewayInv'
  BY OnePartMoves, ListsInvStep, ConnShapeStep, UpdatesStep, ProgressInvStep, PostInvStep, CreditInvStep
     DEF GatewayInv, ConnShape

LEMMA GatewayIsTyped == GatewayInv => GatewayTypeOK
  BY ListsAreTyped, ConnectionIsTyped, ProgressIsTyped, HttpIsTyped DEF GatewayInv, GatewayTypeOK

(* A change of a list that an upstream announces over a connection that     *)
(* lasts is in the aggregate or the aggregate is marked as stale, whatever  *)
(* fails or is cancelled while a refresh runs; a change nobody was told of  *)
(* is the one exception, until the next refresh.  No host collects pages of *)
(* two snapshots, for any servers, callers and bounds.  Types of the whole  *)
(* gateway come with it.                                                    *)
THEOREM ListsStayHonest == GatewaySpec => []ListsAreHonest
<1>1. GatewayInit => GatewayInv
  BY GatewayInits
<1>2. GatewayInv => ListsAreHonest
  BY GatewayIsTyped DEF GatewayInv, ListsInv, WalkFollowsCursor, ListsAreHonest
<1> QED
  BY <1>1, <1>2, GatewaySteps, PTL DEF GatewaySpec

(* The account of the progress buffer is exact after any interleaving of    *)
(* calls and notifications: bytes, bound, active calls, and nothing left    *)
(* behind for a token with a route or a server without calls.               *)
THEOREM AccountStaysExact == GatewaySpec => []AccountIsExact
<1>1. GatewayInit => GatewayInv
  BY GatewayInits
<1>2. GatewayInv => AccountIsExact
  BY ProgressIsExact DEF GatewayInv
<1> QED
  BY <1>1, <1>2, GatewaySteps, PTL DEF GatewaySpec

(* A POST is told that its session ended only when it did, or when another  *)
(* one took its id, and the credit of the event queue is that of its        *)
(* frames, for any number of requests and any sizes.                        *)
THEOREM HttpStaysHonest == GatewaySpec => []HttpIsHonest
<1>1. GatewayInit => GatewayInv
  BY GatewayInits
<1>2. GatewayInv => HttpIsHonest
  BY EndedFollows, CreditFollows DEF GatewayInv, HttpIsHonest
<1> QED
  BY <1>1, <1>2, GatewaySteps, PTL DEF GatewaySpec

(* What a host was promised stays registered and carried across             *)
(* reconnections, refusals and lost answers, when no two requests about one *)
(* URI are under way at once.                                               *)
THEOREM PromisesAreKept ==
  ASSUME OneThreadPerUri
  PROVE  GatewaySpec => []PromiseKept
<1>1. GatewayInit => ConnInv
  BY GatewayInits
<1>2. ConnInv /\ [GatewayNext]_gatewayVars => ConnInv'
  BY OnePartMoves, ConnInvStep
<1>3. ConnInv => PromiseKept
  BY PromiseFollows
<1> QED
  BY <1>1, <1>2, <1>3, PTL DEF GatewaySpec
=============================================================================
