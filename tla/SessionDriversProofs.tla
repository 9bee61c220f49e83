------------------------ MODULE SessionDriversProofs ------------------------
(***************************************************************************)
(* The first answer wins, in a session of any adapter, for any threads of  *)
(* the host and any requests of the agent.                                 *)
(*                                                                         *)
(* A request for approval is in one place at a time: with the agent, on    *)
(* its way to the driver, parked, held by the one host whose answer took   *)
(* it, or resolved.  Most steps are quiet: they move no request, and at    *)
(* most drop one.  The others move it on, and each of them is shown to     *)
(* keep the ledger by the lemma about the move it makes.  The three        *)
(* drivers over LocalSession share their queues and one ledger; a Claude   *)
(* session has queues, and a ledger, of its own.                           *)
(***************************************************************************)
EXTENDS SessionDrivers, FiniteSetTheorems, TLAPS

-----------------------------------------------------------------------------
(* The keys of a sequence.                                                  *)

Keys(s, F) == {F[s[i]] : i \in DOMAIN s} \ {None}
Distinct(s, F) == \A i, j \in DOMAIN s : F[s[i]] = F[s[j]] /\ F[s[i]] # None => i = j
Key(F, x) == {F[x]} \ {None}

LEMMA NoKeys ==
  ASSUME NEW F
  PROVE  Keys(<< >>, F) = {} /\ Distinct(<< >>, F)
BY DEF Keys, Distinct

LEMMA KeysAppended ==
  ASSUME NEW L, NEW F, NEW s \in Seq(L), NEW x \in L
  PROVE  /\ Keys(Append(s, x), F) = Keys(s, F) \cup Key(F, x)
         /\ Distinct(s, F) /\ F[x] \notin Keys(s, F) => Distinct(Append(s, x), F)
<1>1. /\ Len(Append(s, x)) = Len(s) + 1 /\ DOMAIN Append(s, x) = 1 .. Len(s) + 1
      /\ DOMAIN s = 1 .. Len(s) /\ Len(s) \in Nat
      /\ Append(s, x)[Len(s) + 1] = x /\ \A i \in 1 .. Len(s) : Append(s, x)[i] = s[i]
  OBVIOUS
<1>2. Keys(Append(s, x), F) = Keys(s, F) \cup Key(F, x)
  BY <1>1 DEF Keys, Key
<1>3. ASSUME Distinct(s, F), F[x] \notin Keys(s, F) PROVE Distinct(Append(s, x), F)
  BY <1>1, <1>3 DEF Keys, Distinct
<1> QED BY <1>2, <1>3

LEMMA KeysConcat ==
  ASSUME NEW L, NEW F, NEW s \in Seq(L), NEW x \in L
  PROVE  /\ Keys(s \o <<x>>, F) = Keys(s, F) \cup Key(F, x)
         /\ Distinct(s, F) /\ F[x] \notin Keys(s, F) => Distinct(s \o <<x>>, F)
<1>1. /\ DOMAIN (s \o <<x>>) = 1 .. Len(s) + 1 /\ DOMAIN s = 1 .. Len(s) /\ Len(s) \in Nat
      /\ (s \o <<x>>)[Len(s) + 1] = x /\ \A i \in 1 .. Len(s) : (s \o <<x>>)[i] = s[i]
  OBVIOUS
<1>2. Keys(s \o <<x>>, F) = Keys(s, F) \cup Key(F, x)
  BY <1>1 DEF Keys, Key
<1>3. ASSUME Distinct(s, F), F[x] \notin Keys(s, F) PROVE Distinct(s \o <<x>>, F)
  BY <1>1, <1>3 DEF Keys, Distinct
<1> QED BY <1>2, <1>3

LEMMA KeysUnkeyed ==
  ASSUME NEW L, NEW F, NEW s \in Seq(L), NEW t \in Seq(L), \A i \in DOMAIN t : F[t[i]] = None
  PROVE  /\ Keys(s \o t, F) = Keys(s, F)
         /\ Distinct(s, F) => Distinct(s \o t, F)
<1>1. /\ DOMAIN (s \o t) = 1 .. Len(s) + Len(t) /\ DOMAIN s = 1 .. Len(s) /\ Len(s) \in Nat
      /\ DOMAIN t = 1 .. Len(t) /\ Len(t) \in Nat
      /\ \A i \in 1 .. Len(s) + Len(t) : (s \o t)[i] = IF i <= Len(s) THEN s[i] ELSE t[i - Len(s)]
  OBVIOUS
<1>2. \A i \in 1 .. Len(s) + Len(t) : i > Len(s) => F[(s \o t)[i]] = None
  BY <1>1
<1>3. \A i \in 1 .. Len(s) : (s \o t)[i] = s[i] /\ i \in 1 .. Len(s) + Len(t)
  BY <1>1
<1>4. \A i \in 1 .. Len(s) + Len(t) : F[(s \o t)[i]] # None => i \in 1 .. Len(s)
  BY <1>1, <1>2
<1>5. Keys(s \o t, F) = Keys(s, F)
  BY <1>1, <1>3, <1>4 DEF Keys
<1>6. Distinct(s, F) => Distinct(s \o t, F)
  BY <1>1, <1>3, <1>4 DEF Distinct
<1> QED BY <1>5, <1>6

LEMMA KeysTail ==
  ASSUME NEW L, NEW F, NEW s \in Seq(L), s # << >>
  PROVE  /\ Keys(s, F) = Keys(Tail(s), F) \cup Key(F, Head(s))
         /\ Distinct(s, F) => /\ Distinct(Tail(s), F)
                              /\ F[Head(s)] \notin Keys(Tail(s), F)
<1>1. /\ Len(s) \in Nat \ {0} /\ DOMAIN s = 1 .. Len(s) /\ Head(s) = s[1]
      /\ DOMAIN Tail(s) = 1 .. Len(s) - 1 /\ \A i \in 1 .. Len(s) - 1 : Tail(s)[i] = s[i + 1]
  OBVIOUS
<1>2. \A i \in 1 .. Len(s) : i = 1 \/ (i - 1 \in 1 .. Len(s) - 1 /\ s[i] = Tail(s)[i - 1])
  BY <1>1
<1>3. \A i \in 1 .. Len(s) - 1 : i + 1 \in 1 .. Len(s) /\ i + 1 # 1
  BY <1>1
<1>4. Keys(s, F) = Keys(Tail(s), F) \cup Key(F, Head(s))
  <2>1. ASSUME NEW k \in Keys(s, F) PROVE k \in Keys(Tail(s), F) \cup Key(F, Head(s))
    <3>1. PICK i \in 1 .. Len(s) : k = F[s[i]] /\ k # None
      BY <1>1, <2>1 DEF Keys
    <3>2. CASE i = 1
      BY <1>1, <3>1, <3>2 DEF Key
    <3>3. CASE i - 1 \in DOMAIN Tail(s) /\ s[i] = Tail(s)[i - 1]
      BY <3>1, <3>3 DEF Keys
    <3> QED BY <1>1, <1>2, <3>2, <3>3
  <2>2. ASSUME NEW k \in Keys(Tail(s), F) PROVE k \in Keys(s, F)
    BY <1>1, <1>3, <2>2 DEF Keys, Key
  <2>3. Key(F, Head(s)) \subseteq Keys(s, F)
    BY <1>1 DEF Keys, Key
  <2> QED BY <2>1, <2>2, <2>3
<1>5. ASSUME Distinct(s, F)
      PROVE  Distinct(Tail(s), F) /\ F[Head(s)] \notin Keys(Tail(s), F)
  <2>1. ASSUME NEW i \in 1 .. Len(s) - 1, NEW j \in 1 .. Len(s) - 1,
               F[Tail(s)[i]] = F[Tail(s)[j]], F[Tail(s)[i]] # None
        PROVE  i = j
    <3>1. i + 1 = j + 1
      BY <1>1, <1>3, <1>5, <2>1 DEF Distinct
    <3> QED BY <3>1
  <2>2. ASSUME NEW i \in 1 .. Len(s) - 1, F[Tail(s)[i]] = F[s[1]], F[s[1]] # None
        PROVE  FALSE
    <3>1. i + 1 \in 1 .. Len(s) /\ 1 \in 1 .. Len(s) /\ s[i + 1] = Tail(s)[i]
      BY <1>1
    <3> QED BY <1>1, <1>5, <2>2, <3>1 DEF Distinct
  <2> QED BY <1>1, <2>1, <2>2 DEF Distinct, Keys
<1> QED BY <1>4, <1>5
-----------------------------------------------------------------------------
(* The types of a session's state.                                          *)

LetterKinds == {"delta", "request", "replied", "idle", "busy", "closed", "done", "accepted",
                "refused", "configured", "misconfigured"}
Letters == {l \in [what : LetterKinds, run : Sends \cup {None},
                   of : Requests \cup Results \cup Selects \cup {None}] :
              /\ l.what \in {"delta", "request", "done", "accepted", "refused"} => l.run \in Sends
              /\ l.what \in {"request", "replied"} => l.of \in Requests
              /\ l.what = "done" => l.of \in Results
              /\ l.what \in {"configured", "misconfigured"} => l.of \in Selects}
StreamLetters == {l \in Letters : /\ l.what \in {"delta", "request", "replied", "idle", "busy", "closed"}
                              /\ l.of \in Requests \cup {None}}
CommandSet == {c \in [what : {"call", "shutdown"}, by : Calls \cup {None}] :
                 c.what = "call" <=> c.by # None}
Facts == {"created", "idle", "working", "waiting", "interrupted", "closed", "started", "delta",
          "messageDone", "requested", "resolved"} \cup Results
EventSet == {e \in [what : Facts, run : Sends \cup {None},
              of : Sends \cup Requests \cup Models \cup {None}] :
               e.what = "resolved" => e.of \in Requests}
Parked == {p \in SUBSET Requests : IsFiniteSet(p)}
StateSet == [closed : BOOLEAN, announced : BOOLEAN, interrupted : BOOLEAN,
             pendingClose : BOOLEAN, closeEmitted : BOOLEAN, selection : Models,
             starting : BOOLEAN, active : Sends \cup {None}, pending : Parked]
FlowSet == [run : Sends \cup {None}, cancel : BOOLEAN, open : BOOLEAN,
            status : {"idle", "working", "waiting"},
            rpcs : SUBSET (Sends \cup Selects), orphans : SUBSET Sends]
CallSet == [at : {"idle", "checked", "posted", "clearing", "overdue", "late", "ok", "failed", "refused"},
            of : Sends \cup Requests \cup Models \cup {None}]
AgentSet == [alive : BOOLEAN, reading : BOOLEAN, offered : Seq(Sends), turns : Seq(Sends),
             config : SUBSET Selects, asked : SUBSET Requests, open : SUBSET Requests,
             interrupted : BOOLEAN, lines : Nat, stream : Seq(StreamLetters)]

LocalTyped ==
    /\ kind \in {"codex", "acp", "opencode"} \cap Kinds
    /\ start \in {"waiting", "reported", "live", "failed"}
    /\ driver \in {"handshake", "serving", "lost", "stopped", "interrupting", "closing", "exited"}
    /\ stopper \in {"idle", "closing", "joining", "dropping", "done"}
    /\ state \in StateSet
    /\ commands \in Seq(CommandSet)
    /\ mail \in Seq(Letters)
    /\ flow \in FlowSet
    /\ call \in [Calls -> CallSet]
    /\ agent \in AgentSet
    /\ out \in Seq(EventSet)

LEMMA SeqsTyped ==
  ASSUME NEW S
  PROVE  /\ << >> \in Seq(S)
         /\ \A x \in S : <<x>> \in Seq(S)
         /\ \A x, y \in S : <<x, y>> \in Seq(S)
         /\ \A s \in Seq(S), x \in S : Append(s, x) \in Seq(S)
         /\ \A s, t \in Seq(S) : s \o t \in Seq(S)
         /\ \A s \in Seq(S) : \A i \in DOMAIN s : s[i] \in S
         /\ \A s \in Seq(S) : s # << >> => Head(s) \in S /\ Tail(s) \in Seq(S)
OBVIOUS

LEMMA ParkedSets ==
  /\ {} \in Parked
  /\ \A p \in Parked, q \in Requests : p \cup {q} \in Parked
  /\ \A p \in Parked : \A S : p \ S \in Parked
BY FS_EmptySet, FS_AddElement, FS_Subset DEF Parked

LEMMA StateSetters ==
  ASSUME NEW s \in StateSet
  PROVE  /\ \A a \in Parked : [s EXCEPT !.pending = a] \in StateSet
         /\ \A a \in BOOLEAN : [s EXCEPT !.starting = a] \in StateSet
         /\ \A a \in BOOLEAN, b \in Sends \cup {None} :
              [s EXCEPT !.starting = a, !.active = b] \in StateSet
         /\ \A a \in BOOLEAN : [s EXCEPT !.closed = a] \in StateSet
         /\ \A a \in Sends \cup {None}, b \in Parked :
              [s EXCEPT !.active = a, !.pending = b] \in StateSet
         /\ \A a \in Models : [s EXCEPT !.selection = a] \in StateSet
         /\ \A a \in BOOLEAN, b \in Parked, c \in BOOLEAN, d \in Sends \cup {None} :
              [s EXCEPT !.closed = a, !.pending = b, !.starting = c, !.active = d] \in StateSet
         /\ \A a \in BOOLEAN, b \in BOOLEAN, c \in BOOLEAN :
              [s EXCEPT !.announced = a, !.pendingClose = b, !.closeEmitted = c] \in StateSet
         /\ \A a \in BOOLEAN : [s EXCEPT !.interrupted = a] \in StateSet
         /\ \A a \in BOOLEAN, b \in BOOLEAN : [s EXCEPT !.closed = a, !.closeEmitted = b] \in StateSet
         /\ \A a \in BOOLEAN, b \in BOOLEAN : [s EXCEPT !.closed = a, !.pendingClose = b] \in StateSet
BY DEF StateSet

LEMMA FlowSetters ==
  ASSUME NEW s \in FlowSet
  PROVE  /\ \A a \in SUBSET (Sends \cup Selects) : [s EXCEPT !.rpcs = a] \in FlowSet
         /\ \A a \in {"idle", "working", "waiting"} : [s EXCEPT !.status = a] \in FlowSet
         /\ \A a \in BOOLEAN : [s EXCEPT !.open = a] \in FlowSet
         /\ \A a \in BOOLEAN : [s EXCEPT !.cancel = a] \in FlowSet
         /\ \A a \in SUBSET (Sends \cup Selects), b \in Sends \cup {None}, c \in BOOLEAN :
              [s EXCEPT !.rpcs = a, !.run = b, !.open = c] \in FlowSet
         /\ \A a \in Sends \cup {None}, b \in BOOLEAN : [s EXCEPT !.run = a, !.open = b] \in FlowSet
         /\ \A a \in SUBSET Sends : [s EXCEPT !.orphans = a] \in FlowSet
         /\ \A a \in Sends \cup {None}, b \in {"idle", "working", "waiting"} :
              [NoFlow EXCEPT !.run = a, !.status = b] \in FlowSet
         /\ NoFlow \in FlowSet
BY DEF FlowSet, NoFlow

LEMMA AgentSetters ==
  ASSUME NEW s \in AgentSet
  PROVE  /\ \A a \in SUBSET Requests : [s EXCEPT !.open = a] \in AgentSet
         /\ \A a \in BOOLEAN : [s EXCEPT !.interrupted = a] \in AgentSet
         /\ \A a \in Seq(Sends) : [s EXCEPT !.offered = a] \in AgentSet
         /\ \A a \in Nat, b \in Seq(StreamLetters) : [s EXCEPT !.lines = a, !.stream = b] \in AgentSet
         /\ \A a \in SUBSET Selects : [s EXCEPT !.config = a] \in AgentSet
         /\ \A a \in Seq(Sends), b \in SUBSET Requests, c \in BOOLEAN :
              [s EXCEPT !.turns = a, !.open = b, !.interrupted = c] \in AgentSet
         /\ \A a \in Seq(Sends), b \in BOOLEAN : [s EXCEPT !.turns = a, !.interrupted = b] \in AgentSet
         /\ \A a \in Seq(Sends) : [s EXCEPT !.turns = a] \in AgentSet
         /\ \A a \in Seq(StreamLetters) : [s EXCEPT !.stream = a] \in AgentSet
         /\ \A a \in BOOLEAN, b \in Seq(StreamLetters) :
              [s EXCEPT !.reading = a, !.stream = b] \in AgentSet
         /\ \A a \in SUBSET Requests, b \in Seq(StreamLetters) :
              [s EXCEPT !.open = a, !.stream = b] \in AgentSet
         /\ \A a \in Seq(Sends), b \in Seq(Sends) : [s EXCEPT !.offered = a, !.turns = b] \in AgentSet
         /\ \A a \in Nat, b \in SUBSET Requests, c \in SUBSET Requests, d \in Seq(StreamLetters) :
              [s EXCEPT !.lines = a, !.asked = b, !.open = c, !.stream = d] \in AgentSet
         /\ \A a \in BOOLEAN, b \in SUBSET Requests :
              [s EXCEPT !.interrupted = a, !.open = b] \in AgentSet
BY DEF AgentSet

(* What LocalTyped says of each field, and of what steps build from them.   *)
LEMMA FieldsTyped ==
  ASSUME LocalTyped
  PROVE  /\ agent.turns \in Seq(Sends) /\ agent.offered \in Seq(Sends)
         /\ agent.stream \in Seq(StreamLetters)
         /\ agent.open \subseteq Requests /\ agent.asked \subseteq Requests
         /\ agent.config \subseteq Selects
         /\ agent.interrupted \in BOOLEAN /\ agent.alive \in BOOLEAN /\ agent.reading \in BOOLEAN
         /\ agent.lines \in Nat
         /\ state.pending \in Parked /\ state.pending \subseteq Requests
         /\ state.active \in Sends \cup {None} /\ state.selection \in Models
         /\ state.closed \in BOOLEAN /\ state.announced \in BOOLEAN /\ state.starting \in BOOLEAN
         /\ state.closeEmitted \in BOOLEAN /\ state.pendingClose \in BOOLEAN
         /\ state.interrupted \in BOOLEAN
         /\ flow.run \in Sends \cup {None} /\ flow.rpcs \subseteq Sends \cup Selects
         /\ flow.orphans \subseteq Sends
         /\ flow.open \in BOOLEAN /\ flow.cancel \in BOOLEAN
         /\ flow.status \in {"idle", "working", "waiting"}
         /\ state \in StateSet /\ flow \in FlowSet /\ agent \in AgentSet /\ call \in [Calls -> CallSet]
         /\ mail \in Seq(Letters) /\ commands \in Seq(CommandSet) /\ out \in Seq(EventSet)
         /\ \A t \in Calls : call[t].of \in Sends \cup Requests \cup Models \cup {None}
BY DEF LocalTyped, AgentSet, StateSet, FlowSet, CallSet, Parked

LEMMA LettersTyped ==
  /\ \A r \in Sends : /\ Mail("delta", r, None) \in Letters \cap StreamLetters
                      /\ Mail("accepted", r, None) \in Letters /\ Mail("refused", r, None) \in Letters
                      /\ \A x \in Results : Mail("done", r, x) \in Letters
                      /\ \A q \in Requests : Mail("request", r, q) \in Letters \cap StreamLetters
  /\ \A r \in Sends \cup {None}, q \in Requests : Mail("replied", r, q) \in Letters \cap StreamLetters
  /\ \A x \in {"idle", "busy", "closed"} : Mail(x, None, None) \in Letters \cap StreamLetters
  /\ \A x \in {"configured", "misconfigured"}, t \in Selects : Mail(x, None, t) \in Letters
  /\ StreamLetters \subseteq Letters
BY DEF Mail, Letters, LetterKinds, StreamLetters, Results

LEMMA EventsTyped ==
  /\ \A x \in {"created", "idle", "working", "waiting", "interrupted", "closed"} : Status(x) \in EventSet
  /\ \A r \in Sends \cup {None} : /\ \A x \in Results : Event(x, r, None) \in EventSet
                                  /\ \A x \in {"messageDone"} : Event(x, r, None) \in EventSet
                                  /\ \A o \in Sends \cup Requests \cup Models \cup {None} :
                                       \A x \in {"started", "delta", "requested"} :
                                         Event(x, r, o) \in EventSet
                                  /\ \A q \in Requests : Event("resolved", r, q) \in EventSet
BY DEF Status, Event, EventSet, Facts, Results

LEMMA ClosesTyped ==
  ASSUME NEW st \in StateSet
  PROVE  AfterClose(st) \in StateSet /\ CloseFacts(st) \in Seq(EventSet)
BY StateSetters, EventsTyped, SeqsTyped DEF AfterClose, CloseFacts

(* What the steps build is of its type.                                     *)
Stages == {"idle", "checked", "posted", "clearing", "overdue", "late", "ok", "failed", "refused"}

LEMMA CallsTyped ==
  ASSUME call \in [Calls -> CallSet], NEW t \in Calls
  PROVE  /\ \A x \in Stages : [call EXCEPT ![t].at = x] \in [Calls -> CallSet]
         /\ \A x \in Stages, o \in Sends \cup Requests \cup Models \cup {None} :
              [call EXCEPT ![t] = [at |-> x, of |-> o]] \in [Calls -> CallSet]
<1>1. \A x \in Stages : [call EXCEPT ![t].at = x] \in [Calls -> CallSet]
  BY DEF CallSet, Stages
<1>2. \A x \in Stages, o \in Sends \cup Requests \cup Models \cup {None} :
              [at |-> x, of |-> o] \in CallSet
  BY DEF CallSet, Stages
<1> QED BY <1>1, <1>2

LEMMA CommandsTyped ==
  /\ \A t \in Calls : [what |-> "call", by |-> t] \in CommandSet
  /\ [what |-> "shutdown", by |-> None] \in CommandSet
BY NoneAssumption DEF CommandSet

LEMMA AgentTyped ==
  ASSUME LocalTyped
  PROVE  /\ DeadAgent \in AgentSet /\ LostPrompts \in Seq(Letters) /\ Closed \in StreamLetters
         /\ Closed \in Letters
         /\ AgentDies => mail' \in Seq(Letters) /\ agent' \in AgentSet
<1> USE DEF LocalTyped
<1>1. DeadAgent \in AgentSet
  <2>1. << >> \in Seq(Sends) /\ agent \in AgentSet
    OBVIOUS
  <2>2. \A a \in AgentSet, s \in Seq(Sends) :
          [a EXCEPT !.alive = FALSE, !.reading = FALSE, !.offered = s] \in AgentSet
    BY DEF AgentSet
  <2>3. \A a \in AgentSet, s \in Seq(Sends) :
          [a EXCEPT !.turns = s, !.config = {}, !.open = {}] \in AgentSet
    BY DEF AgentSet
  <2>4. DeadAgent = [[agent EXCEPT !.alive = FALSE, !.reading = FALSE, !.offered = << >>]
                        EXCEPT !.turns = << >>, !.config = {}, !.open = {}]
    BY DEF DeadAgent
  <2> QED BY <2>1, <2>2, <2>3, <2>4
<1>2. Closed \in StreamLetters /\ Closed \in Letters
  BY DEF Closed, Mail, Letters, StreamLetters, LetterKinds
<1>3. agent.turns \in Seq(Sends) /\ agent.stream \in Seq(StreamLetters)
  BY DEF AgentSet
<1>4. LostPrompts \in Seq(Letters)
  <2>1. \A i \in DOMAIN agent.turns : Mail("done", agent.turns[i], "failed") \in Letters
    BY <1>3 DEF Mail, Letters, LetterKinds, Results
  <2>2. DOMAIN agent.turns = 1 .. Len(agent.turns) /\ Len(agent.turns) \in Nat
    BY <1>3
  <2>3. [i \in DOMAIN agent.turns |-> Mail("done", agent.turns[i], "failed")] \in Seq(Letters)
    <3> DEFINE m(i) == Mail("done", agent.turns[i], "failed")
               f == [i \in 1 .. Len(agent.turns) |-> m(i)]
    <3>1. \A i \in 1 .. Len(agent.turns) : m(i) \in Letters
      BY <2>1, <2>2
    <3> HIDE DEF m
    <3>2. f \in Seq(Letters)
      BY <2>2, <3>1
    <3> USE DEF m
    <3> QED BY <2>2, <3>2
  <2> QED BY <2>3 DEF LostPrompts
<1>5. [DeadAgent EXCEPT !.stream = Append(@, Closed)] \in AgentSet
  <2>1. DeadAgent.stream = agent.stream
    BY DEF DeadAgent, AgentSet
  <2>2. Append(DeadAgent.stream, Closed) \in Seq(StreamLetters)
    BY <1>2, <1>3, <2>1
  <2> QED BY <1>1, <2>2 DEF AgentSet
<1> HIDE DEF LocalTyped
<1>6. ASSUME AgentDies PROVE mail' \in Seq(Letters) /\ agent' \in AgentSet
  <2>1. mail \in Seq(Letters) /\ << >> \in Seq(Letters)
    BY DEF LocalTyped
  <2>2. mail' = mail \o LostPrompts \/ mail' = Append(mail, Closed)
    BY <1>6 DEF AgentDies
  <2>3. agent' = DeadAgent \/ agent' = [DeadAgent EXCEPT !.stream = Append(@, Closed)]
    BY <1>6 DEF AgentDies
  <2>4. mail' \in Seq(Letters)
    <3>1. \A s, t \in Seq(Letters) : s \o t \in Seq(Letters)
      OBVIOUS
    <3>2. \A s \in Seq(Letters), l \in Letters : Append(s, l) \in Seq(Letters)
      OBVIOUS
    <3> QED BY <1>2, <1>4, <2>1, <2>2, <3>1, <3>2
  <2> QED BY <1>1, <1>5, <2>3, <2>4
<1> QED BY <1>1, <1>2, <1>4, <1>6

LEMMA FactsTyped ==
  ASSUME LocalTyped
  PROVE  /\ \A r \in Sends \cup {None}, x \in Results : RunEnds(r, x) \in Seq(EventSet)
         /\ \A q \in Requests : Offered(q) \in Seq(EventSet)
         /\ \A x \in {"idle", "working", "waiting"} : Restated(x) \in Seq(EventSet)
         /\ IdleUnlessClosed \in Seq(EventSet)
<1>1. \A r \in Sends \cup {None}, x \in Results : RunEnds(r, x) \in Seq(EventSet)
  BY EventsTyped, SeqsTyped DEF RunEnds
<1>2. \A q \in Requests : Offered(q) \in Seq(EventSet)
  BY EventsTyped, SeqsTyped, FieldsTyped DEF Offered
<1>3. \A x \in {"idle", "working", "waiting"} : Restated(x) \in Seq(EventSet)
  BY EventsTyped, SeqsTyped DEF Restated
<1>4. IdleUnlessClosed \in Seq(EventSet)
  BY EventsTyped, SeqsTyped DEF IdleUnlessClosed
<1> QED BY <1>1, <1>2, <1>3, <1>4

(* Every parked request is retracted, each once.                            *)
LEMMA RetractedOnce ==
  ASSUME LocalTyped
  PROVE  /\ Retracted \in Seq(EventSet)
         /\ \A i \in DOMAIN Retracted : Retracted[i].what = "resolved"
              /\ Retracted[i].of \in state.pending
                                        /\ Retracted[i].run = None
         /\ \A i, j \in DOMAIN Retracted : Retracted[i].of = Retracted[j].of => i = j
<1> DEFINE n == Cardinality(state.pending)
           f == SetToSeq(state.pending)
<1>1. n \in Nat /\ ExistsBijection(1 .. n, state.pending)
  BY FS_CardinalityType, FieldsTyped DEF Parked
<1>2. \E g \in [1 .. n -> state.pending] : IsInjective(g)
  BY <1>1 DEF ExistsBijection, Bijection, Injection, IsInjective
<1>3. f \in [1 .. n -> state.pending] /\ IsInjective(f)
  BY <1>2 DEF SetToSeq
<1>4. \A i \in 1 .. n : Event("resolved", None, f[i]) \in EventSet
  <2>1. \A i \in 1 .. n : f[i] \in Requests
    BY <1>3, FieldsTyped
  <2> QED BY <2>1, EventsTyped
<1>5. Retracted = [i \in 1 .. n |-> Event("resolved", None, f[i])]
  BY DEF Retracted
<1> HIDE DEF n, f
<1>6. Retracted \in Seq(EventSet) /\ DOMAIN Retracted = 1 .. n
  <2> DEFINE m(i) == Event("resolved", None, f[i])
             g == [i \in 1 .. n |-> m(i)]
  <2>1. \A i \in 1 .. n : m(i) \in EventSet
    BY <1>4
  <2> HIDE DEF m
  <2>2. g \in Seq(EventSet)
    BY <1>1, <2>1
  <2> USE DEF m
  <2> QED BY <1>5, <2>2
<1>7. \A i \in 1 .. n : Retracted[i].what = "resolved" /\ Retracted[i].run = None
        /\ Retracted[i].of = f[i]
  BY <1>5 DEF Event
<1> QED BY <1>3, <1>6, <1>7 DEF IsInjective

(* What a step takes from the head of a queue.                              *)
LEMMA CommandTaken ==
  ASSUME LocalTyped, NEW threads, threads \subseteq Calls, TakesCommand(threads)
  PROVE  /\ By \in threads /\ By \in Calls /\ commands # << >> /\ commands' = Tail(commands)
         /\ Tail(commands) \in Seq(CommandSet)
         /\ call[By].of \in Sends \cup Requests \cup Models \cup {None}
BY FieldsTyped, SeqsTyped DEF TakesCommand, By

LEMMA LetterTaken ==
  ASSUME LocalTyped, NEW whats, TakesMail(whats)
  PROVE  /\ Letter \in Letters /\ Letter.what \in whats /\ mail # << >> /\ mail' = Tail(mail)
         /\ Tail(mail) \in Seq(Letters)
         /\ Letter.what \in {"delta", "request", "done", "accepted", "refused"} => Letter.run \in Sends
         /\ Letter.what \in {"request", "replied"} => Letter.of \in Requests
         /\ Letter.what = "done" => Letter.of \in Results
         /\ Letter.what \in {"configured", "misconfigured"} => Letter.of \in Selects
<1>1. Letter \in Letters /\ Letter.what \in whats /\ Tail(mail) \in Seq(Letters)
  BY FieldsTyped, SeqsTyped DEF TakesMail, Letter
<1>2. \A l \in Letters :
         /\ l.what \in {"delta", "request", "done", "accepted", "refused"} => l.run \in Sends
         /\ l.what \in {"request", "replied"} => l.of \in Requests
         /\ l.what = "done" => l.of \in Results
         /\ l.what \in {"configured", "misconfigured"} => l.of \in Selects
  BY DEF Letters
<1> QED BY <1>1, <1>2 DEF TakesMail

-----------------------------------------------------------------------------
(* What a sequence keeps of its keys.                                       *)

Thins(s, t, F) == Keys(t, F) \subseteq Keys(s, F) /\ (Distinct(s, F) => Distinct(t, F))

(* The keys of two sequences put together, and what thins a sequence.       *)
LEMMA KeysJoined ==
  ASSUME NEW L, NEW F, NEW s \in Seq(L), NEW t \in Seq(L)
  PROVE  /\ Keys(s \o t, F) = Keys(s, F) \cup Keys(t, F)
         /\ Distinct(s, F) /\ Distinct(t, F) /\ Keys(s, F) \cap Keys(t, F) = {} => Distinct(s \o t, F)
<1>1. /\ DOMAIN (s \o t) = 1 .. Len(s) + Len(t) /\ DOMAIN s = 1 .. Len(s) /\ Len(s) \in Nat
      /\ DOMAIN t = 1 .. Len(t) /\ Len(t) \in Nat
      /\ \A i \in 1 .. Len(s) + Len(t) : (s \o t)[i] = IF i <= Len(s) THEN s[i] ELSE t[i - Len(s)]
  OBVIOUS
<1>2. \A i \in 1 .. Len(s) + Len(t) :
         \/ i \in 1 .. Len(s) /\ (s \o t)[i] = s[i]
         \/ i - Len(s) \in 1 .. Len(t) /\ (s \o t)[i] = t[i - Len(s)] /\ i = (i - Len(s)) + Len(s)
  BY <1>1
<1>3. \A i \in 1 .. Len(s) : (s \o t)[i] = s[i] /\ i \in 1 .. Len(s) + Len(t)
  BY <1>1
<1>4. \A i \in 1 .. Len(t) : (s \o t)[i + Len(s)] = t[i] /\ i + Len(s) \in 1 .. Len(s) + Len(t)
  BY <1>1
<1>5. Keys(s \o t, F) = Keys(s, F) \cup Keys(t, F)
  <2>1. ASSUME NEW k \in Keys(s \o t, F) PROVE k \in Keys(s, F) \cup Keys(t, F)
    BY <1>1, <1>2, <2>1 DEF Keys
  <2>2. ASSUME NEW k \in Keys(s, F) PROVE k \in Keys(s \o t, F)
    BY <1>1, <1>3, <2>2 DEF Keys
  <2>3. ASSUME NEW k \in Keys(t, F) PROVE k \in Keys(s \o t, F)
    <3>1. PICK i \in 1 .. Len(t) : k = F[t[i]] /\ k # None
      BY <1>1, <2>3 DEF Keys
    <3> QED BY <1>1, <1>4, <3>1 DEF Keys
  <2> QED BY <2>1, <2>2, <2>3
<1>6. ASSUME Distinct(s, F), Distinct(t, F), Keys(s, F) \cap Keys(t, F) = {}
      PROVE  Distinct(s \o t, F)
  <2>1. SUFFICES ASSUME NEW i \in 1 .. Len(s) + Len(t), NEW j \in 1 .. Len(s) + Len(t),
                        F[(s \o t)[i]] = F[(s \o t)[j]], F[(s \o t)[i]] # None
                 PROVE  i = j
    BY <1>1 DEF Distinct
  <2>2. CASE i \in 1 .. Len(s) /\ (s \o t)[i] = s[i]
    <3>1. F[s[i]] \in Keys(s, F)
      BY <1>1, <2>1, <2>2 DEF Keys
    <3>2. j \in 1 .. Len(s) /\ (s \o t)[j] = s[j]
      <4>1. ASSUME j - Len(s) \in 1 .. Len(t), (s \o t)[j] = t[j - Len(s)] PROVE FALSE
        <5>1. F[t[j - Len(s)]] \in Keys(t, F)
          BY <1>1, <2>1, <4>1 DEF Keys
        <5> QED BY <1>6, <2>1, <2>2, <3>1, <4>1, <5>1
      <4> QED BY <1>2, <4>1
    <3> QED BY <1>1, <1>6, <2>1, <2>2, <3>2 DEF Distinct
  <2>3. CASE i - Len(s) \in 1 .. Len(t) /\ (s \o t)[i] = t[i - Len(s)]
    <3>1. F[t[i - Len(s)]] \in Keys(t, F)
      BY <1>1, <2>1, <2>3 DEF Keys
    <3>2. j - Len(s) \in 1 .. Len(t) /\ (s \o t)[j] = t[j - Len(s)]
      <4>1. ASSUME j \in 1 .. Len(s), (s \o t)[j] = s[j] PROVE FALSE
        <5>1. F[s[j]] \in Keys(s, F)
          BY <1>1, <2>1, <4>1 DEF Keys
        <5> QED BY <1>6, <2>1, <2>3, <3>1, <4>1, <5>1
      <4> QED BY <1>2, <4>1
    <3>3. i - Len(s) = j - Len(s)
      BY <1>1, <1>6, <2>1, <2>3, <3>2 DEF Distinct
    <3> QED BY <1>1, <2>1, <3>3
  <2> QED BY <1>2, <2>2, <2>3
<1> QED BY <1>5, <1>6

LEMMA Thinning ==
  ASSUME NEW L, NEW F, NEW s \in Seq(L)
  PROVE  /\ Thins(s, s, F) /\ Thins(s, << >>, F)
         /\ s # << >> => Thins(s, Tail(s), F)
         /\ \A x \in L : F[x] = None => Thins(s, Append(s, x), F) /\ Thins(s, s \o <<x>>, F)
         /\ \A t \in Seq(L) : (\A i \in DOMAIN t : F[t[i]] = None) => Thins(s, s \o t, F)
<1>1. Thins(s, s, F) /\ Thins(s, << >>, F)
  BY NoKeys DEF Thins
<1>2. ASSUME s # << >> PROVE Thins(s, Tail(s), F)
  <2>1. s \in Seq(L) /\ s # << >>
    BY <1>2
  <2>2. /\ Keys(s, F) = Keys(Tail(s), F) \cup Key(F, Head(s))
        /\ Distinct(s, F) => Distinct(Tail(s), F)
    BY <2>1, KeysTail
  <2> QED BY <2>2 DEF Thins
<1>3. ASSUME NEW x \in L, F[x] = None PROVE Thins(s, Append(s, x), F) /\ Thins(s, s \o <<x>>, F)
  <2>1. Key(F, x) = {} /\ F[x] \notin Keys(s, F)
    BY <1>3 DEF Key, Keys
  <2> QED BY <2>1, KeysAppended, KeysConcat DEF Thins
<1>4. ASSUME NEW t \in Seq(L), \A i \in DOMAIN t : F[t[i]] = None PROVE Thins(s, s \o t, F)
  BY <1>4, KeysUnkeyed DEF Thins
<1> QED BY <1>1, <1>2, <1>3, <1>4

-----------------------------------------------------------------------------
(* Where a request for approval is: on its way to the driver, parked, held  *)
(* by the one host that answered it, or resolved.                           *)

AskedOf == [l \in Letters |-> IF l.what = "request" THEN l.of ELSE None]
AnswererOf == [c \in CommandSet |-> IF c.by \in Answers THEN c.by ELSE None]
ResolvedOf == [e \in EventSet |-> IF e.what = "resolved" THEN e.of ELSE None]

Asking == Keys(mail, AskedOf) \cup Keys(agent.stream, AskedOf)
Holders == {t \in Answers : call[t].at = "checked"} \cup Keys(commands, AnswererOf)
Held == {call[t].of : t \in Holders}
Resolved == Keys(out, ResolvedOf)

AskedOnce ==
    /\ Distinct(mail, AskedOf) /\ Distinct(agent.stream, AskedOf)
    /\ Keys(mail, AskedOf) \cap Keys(agent.stream, AskedOf) = {}
QueuedOnce ==
    /\ Distinct(commands, AnswererOf)
    /\ \A t \in Keys(commands, AnswererOf) : t \in Answers /\ call[t].at \in {"posted", "failed"}
OnePlace ==
    /\ Asking \cup state.pending \cup Held \cup Resolved \subseteq agent.asked
    /\ Asking \cap (state.pending \cup Held \cup Resolved) = {}
    /\ state.pending \cap (Held \cup Resolved) = {} /\ Held \cap Resolved = {}
    /\ \A t, u \in Holders : call[t].of = call[u].of => t = u
ResolvedOnce ==
    /\ Distinct(out, ResolvedOf)
    /\ \A t \in Answers : call[t].at = "ok" =>
         /\ call[t].of \in Resolved
         /\ \A u \in Answers \ {t} : call[u].at = "ok" => call[u].of # call[t].of

Ledger == AskedOnce /\ QueuedOnce /\ OnePlace /\ ResolvedOnce

(* A log that has grown by facts that resolve nothing.                      *)
ResolvesNothing(log) ==
    /\ Keys(log, ResolvedOf) = Keys(out, ResolvedOf)
    /\ Distinct(out, ResolvedOf) => Distinct(log, ResolvedOf)

(* A step is quiet when it moves no request and answers none: what it takes *)
(* from a queue or a host it drops.                                         *)
Quiet ==
    /\ Thins(mail, mail', AskedOf) /\ Thins(agent.stream, agent'.stream, AskedOf)
    /\ agent'.asked = agent.asked /\ Thins(commands, commands', AnswererOf)
    /\ state'.pending \subseteq state.pending
    /\ \A t \in Answers : \/ call'[t] = call[t]
                          \/ call'[t].at = "failed" /\ call'[t].of = call[t].of
    /\ ResolvesNothing(out')

(* A quiet step keeps the ledger.                                           *)
LEMMA QuietKeepsLedger ==
  ASSUME LocalTyped, Ledger, Quiet
  PROVE  Ledger'
<1>1. AskedOnce' /\ Asking' \subseteq Asking
  BY DEF Ledger, AskedOnce, Quiet, Thins, Asking
<1>2. QueuedOnce' /\ Keys(commands', AnswererOf) \subseteq Keys(commands, AnswererOf)
  BY DEF Ledger, QueuedOnce, Quiet, Thins
<1>3. /\ Holders' \subseteq Holders /\ Holders \subseteq Answers
      /\ \A t \in Holders : call'[t].of = call[t].of
  BY <1>2 DEF Ledger, QueuedOnce, Quiet, Holders
<1>4. Held' \subseteq Held
  BY <1>3 DEF Held
<1>5. OnePlace'
  <2>1. Resolved' = Resolved
    BY DEF Quiet, Resolved, ResolvesNothing
  <2>2. \A t, u \in Holders' : (call[t].of = call[u].of => t = u)'
    BY <1>3 DEF Ledger, OnePlace
  <2> QED BY <1>1, <1>3, <1>4, <2>1, <2>2 DEF Ledger, OnePlace, Quiet
<1>6. ResolvedOnce'
  BY DEF Ledger, ResolvedOnce, Quiet, Resolved, ResolvesNothing
<1> QED BY <1>1, <1>2, <1>5, <1>6 DEF Ledger

(* What is taken from a queue, or put on it without a request, thins it.    *)
LEMMA Unasked ==
  /\ \A l \in Letters : l.what # "request" => AskedOf[l] = None
  /\ \A l \in Letters : l.what = "request" => AskedOf[l] = l.of /\ l.of \in Requests /\ l.of # None
  /\ \A x, r, o : Mail(x, r, o).what = x
BY NoneAssumption DEF AskedOf, Mail, Letters

LEMMA MailThins ==
  ASSUME LocalTyped
  PROVE  /\ Thins(mail, mail, AskedOf) /\ Thins(mail, << >>, AskedOf)
         /\ mail # << >> => Thins(mail, Tail(mail), AskedOf)
         /\ \A l \in Letters : l.what # "request" => Thins(mail, Append(mail, l), AskedOf)
         /\ Thins(mail, mail \o LostPrompts, AskedOf)
<1>1. mail \in Seq(Letters) /\ LostPrompts \in Seq(Letters)
  BY AgentTyped, FieldsTyped
<1>2. ASSUME NEW i \in DOMAIN LostPrompts PROVE AskedOf[LostPrompts[i]] = None
  <2>1. LostPrompts[i] \in Letters
    BY <1>1, <1>2
  <2>2. LostPrompts[i].what = "done"
    BY <1>1, <1>2 DEF LostPrompts, Mail
  <2> QED BY <2>1, <2>2, Unasked
<1> QED BY <1>1, <1>2, Thinning, Unasked

LEMMA StreamThins ==
  ASSUME LocalTyped
  PROVE  /\ Thins(agent.stream, agent.stream, AskedOf) /\ Thins(agent.stream, << >>, AskedOf)
         /\ agent.stream # << >> => Thins(agent.stream, Tail(agent.stream), AskedOf)
         /\ \A l \in StreamLetters : l.what # "request" =>
              /\ Thins(agent.stream, Append(agent.stream, l), AskedOf)
              /\ Thins(agent.stream, agent.stream \o <<l>>, AskedOf)
<1>1. agent.stream \in Seq(StreamLetters) /\ StreamLetters \subseteq Letters
  BY LettersTyped, FieldsTyped
<1> QED BY <1>1, Thinning, Unasked

LEMMA CommandsThin ==
  ASSUME LocalTyped
  PROVE  /\ Thins(commands, commands, AnswererOf) /\ Thins(commands, << >>, AnswererOf)
         /\ commands # << >> => Thins(commands, Tail(commands), AnswererOf)
         /\ \A c \in CommandSet : c.by \notin Answers => Thins(commands, Append(commands, c), AnswererOf)
<1>1. commands \in Seq(CommandSet)
  BY FieldsTyped
<1>2. \A c \in CommandSet : c.by \notin Answers => AnswererOf[c] = None
  BY DEF AnswererOf
<1> QED BY <1>1, <1>2, Thinning

LEMMA DeadThins ==
  ASSUME LocalTyped, AgentDies
  PROVE  /\ Thins(mail, mail', AskedOf) /\ Thins(agent.stream, agent'.stream, AskedOf)
         /\ agent'.asked = agent.asked
<1>1. /\ mail' = mail \o LostPrompts \/ mail' = Append(mail, Closed)
      /\ agent' = DeadAgent \/ agent' = [DeadAgent EXCEPT !.stream = Append(@, Closed)]
  BY DEF AgentDies
<1>2. DeadAgent.stream = agent.stream /\ DeadAgent.asked = agent.asked /\ DeadAgent \in AgentSet
  BY AgentTyped, FieldsTyped DEF DeadAgent, AgentSet
<1>3. Closed \in Letters /\ Closed \in StreamLetters /\ Closed.what # "request"
  BY AgentTyped DEF Closed, Mail
<1>4. agent'.stream = agent.stream \/ agent'.stream = Append(agent.stream, Closed)
  BY <1>1, <1>2 DEF AgentSet
<1>5. agent'.asked = agent.asked
  BY <1>1, <1>2 DEF AgentSet
<1> QED BY <1>1, <1>3, <1>4, <1>5, MailThins, StreamThins

(* What is emitted and resolves nothing.                                    *)
Plain(e) == e \in Seq(EventSet) /\ \A i \in DOMAIN e : e[i].what # "resolved"

LEMMA PlainShapes ==
  /\ Plain(<< >>)
  /\ \A a \in EventSet : a.what # "resolved" => Plain(<<a>>)
  /\ \A a, b \in EventSet : a.what # "resolved" /\ b.what # "resolved" => Plain(<<a, b>>)
  /\ \A x, r, o : Event(x, r, o).what = x
  /\ \A x : Status(x).what = x
BY SeqsTyped DEF Plain, Event, Status

LEMMA PlainJoined ==
  ASSUME NEW e, NEW f, Plain(e), Plain(f)
  PROVE  Plain(e \o f)
<1>1. e \o f \in Seq(EventSet) /\ e \in Seq(EventSet) /\ f \in Seq(EventSet)
  BY SeqsTyped DEF Plain
<1>2. ASSUME NEW i \in DOMAIN (e \o f) PROVE (e \o f)[i].what # "resolved"
  <2>1. \/ i \in DOMAIN e /\ (e \o f)[i] = e[i]
        \/ i - Len(e) \in DOMAIN f /\ (e \o f)[i] = f[i - Len(e)]
    BY <1>1
  <2> QED BY <2>1 DEF Plain
<1> QED BY <1>1, <1>2 DEF Plain

LEMMA PlainEmitted ==
  ASSUME LocalTyped, NEW e, Plain(e)
  PROVE  ResolvesNothing(out \o e)
<1>1. ASSUME NEW i \in DOMAIN e PROVE ResolvedOf[e[i]] = None
  BY SeqsTyped DEF Plain, ResolvedOf
<1> QED BY <1>1, KeysUnkeyed, FieldsTyped DEF Plain, ResolvesNothing

LEMMA PlainFacts ==
  ASSUME LocalTyped
  PROVE  /\ \A r \in Sends \cup {None}, x \in Results : Plain(RunEnds(r, x))
         /\ \A q \in Requests : Plain(Offered(q))
         /\ \A x \in {"idle", "working", "waiting"} : Plain(Restated(x))
         /\ Plain(IdleUnlessClosed)
         /\ \A st : Plain(CloseFacts(st))
<1>1. ASSUME NEW r \in Sends \cup {None}, NEW x \in Results PROVE Plain(RunEnds(r, x))
  <2>1. Plain(<<Event(x, r, None)>>)
    BY EventsTyped, PlainShapes DEF Results
  <2>2. Plain(IF flow.open THEN <<Event("messageDone", r, None)>> ELSE << >>)
    BY EventsTyped, PlainShapes
  <2> QED BY <2>1, <2>2, PlainJoined DEF RunEnds
<1>2. \A q \in Requests : Plain(Offered(q))
  BY EventsTyped, PlainShapes, FieldsTyped DEF Offered
<1>3. \A x \in {"idle", "working", "waiting"} : Plain(Restated(x))
  BY EventsTyped, PlainShapes DEF Restated
<1>4. Plain(IdleUnlessClosed)
  BY EventsTyped, PlainShapes DEF IdleUnlessClosed
<1>5. \A st : Plain(CloseFacts(st))
  BY EventsTyped, PlainShapes DEF CloseFacts
<1> QED BY <1>1, <1>2, <1>3, <1>4, <1>5

-----------------------------------------------------------------------------
(* The steps that move a request.                                           *)

LEMMA Emitted ==
  ASSUME LocalTyped, NEW e \in Seq(EventSet), out' = out \o e
  PROVE  /\ Resolved' = Resolved \cup Keys(e, ResolvedOf)
         /\ Distinct(out, ResolvedOf) /\ Distinct(e, ResolvedOf) /\ Resolved \cap Keys(e, ResolvedOf) = {}
              => Distinct(out', ResolvedOf)
<1>1. out \in Seq(EventSet)
  BY FieldsTyped
<1>2. /\ Keys(out \o e, ResolvedOf) = Keys(out, ResolvedOf) \cup Keys(e, ResolvedOf)
      /\ /\ Distinct(out, ResolvedOf) /\ Distinct(e, ResolvedOf)
         /\ Keys(out, ResolvedOf) \cap Keys(e, ResolvedOf) = {}
         => Distinct(out \o e, ResolvedOf)
  BY <1>1, KeysJoined
<1> QED BY <1>2 DEF Resolved

LEMMA EmittedKeys ==
  /\ \A e, p : e \in Seq(EventSet) /\ Plain(p) =>
       /\ e \o p \in Seq(EventSet) /\ Keys(e \o p, ResolvedOf) = Keys(e, ResolvedOf)
       /\ Distinct(e, ResolvedOf) => Distinct(e \o p, ResolvedOf)
  /\ \A p : Plain(p) => p \in Seq(EventSet) /\ Keys(p, ResolvedOf) = {} /\ Distinct(p, ResolvedOf)
  /\ \A q \in Requests : \A e \in {<<Event("resolved", None, q)>>,
                                   <<Event("resolved", None, q), Status("working")>>} :
       e \in Seq(EventSet) /\ Keys(e, ResolvedOf) = {q} /\ Distinct(e, ResolvedOf)
<1>1. ASSUME NEW p, Plain(p)
      PROVE  p \in Seq(EventSet) /\ \A i \in DOMAIN p : ResolvedOf[p[i]] = None
  BY <1>1, SeqsTyped DEF Plain, ResolvedOf
<1>2. ASSUME NEW e \in Seq(EventSet), NEW p, Plain(p)
      PROVE  /\ e \o p \in Seq(EventSet) /\ Keys(e \o p, ResolvedOf) = Keys(e, ResolvedOf)
             /\ Distinct(e, ResolvedOf) => Distinct(e \o p, ResolvedOf)
  BY <1>1, <1>2, KeysUnkeyed, SeqsTyped
<1>3. ASSUME NEW p, Plain(p)
      PROVE  Keys(p, ResolvedOf) = {} /\ Distinct(p, ResolvedOf)
  BY <1>1, <1>3 DEF Keys, Distinct
<1>4. ASSUME NEW q \in Requests, NEW e \in {<<Event("resolved", None, q)>>,
                                   <<Event("resolved", None, q), Status("working")>>}
      PROVE  e \in Seq(EventSet) /\ Keys(e, ResolvedOf) = {q} /\ Distinct(e, ResolvedOf)
  <2>1. Event("resolved", None, q) \in EventSet /\ Status("working") \in EventSet /\ q # None
    BY EventsTyped, NoneAssumption
  <2>2. ResolvedOf[Event("resolved", None, q)] = q /\ ResolvedOf[Status("working")] = None
    BY <2>1 DEF ResolvedOf, Event, Status
  <2>3. e \in Seq(EventSet)
    <3>1. <<Event("resolved", None, q)>> \in Seq(EventSet)
          /\ <<Event("resolved", None, q), Status("working")>> \in Seq(EventSet)
      BY <2>1, SeqsTyped
    <3> QED BY <3>1
  <2>4. 1 \in DOMAIN e /\ e[1] = Event("resolved", None, q)
        /\ \A i \in DOMAIN e : i = 1 \/ e[i] = Status("working")
    BY <2>1
  <2> QED BY <2>1, <2>2, <2>3, <2>4 DEF Keys, Distinct
<1> QED BY <1>1, <1>2, <1>3, <1>4

(* Who holds an answer that no one has heard of yet.                        *)
LEMMA HoldersAre ==
  ASSUME LocalTyped, Ledger
  PROVE  /\ Holders \subseteq Answers
         /\ \A t \in Keys(commands, AnswererOf) : call[t].at \in {"posted", "failed"}
         /\ Held \subseteq Requests /\ Resolved \subseteq Requests /\ Asking \subseteq Requests
         /\ None \notin Held \cup Resolved \cup Asking \cup agent.asked
<1>1. agent.asked \subseteq Requests
  BY FieldsTyped
<1> QED BY <1>1, NoneAssumption DEF Ledger, QueuedOnce, OnePlace, Holders

LEMMA RequestLetter ==
  ASSUME LocalTyped, Ledger, mail # << >>, Letter.what = "request"
  PROVE  /\ Letter.of \in Keys(mail, AskedOf) /\ Letter.of \notin Keys(Tail(mail), AskedOf)
         /\ Keys(Tail(mail), AskedOf) \subseteq Keys(mail, AskedOf) /\ Distinct(Tail(mail), AskedOf)
<1>1. mail \in Seq(Letters) /\ Letter \in Letters
  BY FieldsTyped, SeqsTyped DEF Letter
<1>2. AskedOf[Letter] = Letter.of /\ Letter.of # None
  BY <1>1, Unasked
<1>3. /\ Keys(mail, AskedOf) = Keys(Tail(mail), AskedOf) \cup Key(AskedOf, Head(mail))
      /\ Distinct(mail, AskedOf) => /\ Distinct(Tail(mail), AskedOf)
                                    /\ AskedOf[Head(mail)] \notin Keys(Tail(mail), AskedOf)
  BY <1>1, KeysTail
<1> QED BY <1>2, <1>3 DEF Ledger, AskedOnce, Letter, Key

(* The request at the head of the mail is parked or dropped.                *)
LEMMA ParkingKeepsLedger ==
  ASSUME LocalTyped, Ledger, mail # << >>, Letter.what = "request", mail' = Tail(mail),
         agent'.stream = agent.stream, agent'.asked = agent.asked, commands' = commands,
         call' = call, state'.pending \subseteq state.pending \cup {Letter.of},
         NEW e, Plain(e), out' = out \o e \/ out' = out
  PROVE  Ledger'
<1>1. AskedOnce' /\ Asking' \subseteq Asking /\ Letter.of \in Asking /\ Letter.of \notin Asking'
  BY RequestLetter DEF Ledger, AskedOnce, Asking
<1>2. QueuedOnce' /\ Holders' = Holders /\ Held' = Held
  BY DEF Ledger, QueuedOnce, Holders, Held
<1>3. Resolved' = Resolved /\ (Distinct(out, ResolvedOf) => Distinct(out', ResolvedOf))
  <2>1. ResolvesNothing(out \o e)
    BY PlainEmitted
  <2> QED BY <2>1 DEF Resolved, ResolvesNothing
<1>4. OnePlace'
  BY <1>1, <1>2, <1>3 DEF Ledger, OnePlace
<1>5. ResolvedOnce'
  BY <1>3 DEF Ledger, ResolvedOnce
<1> QED BY <1>1, <1>2, <1>4, <1>5 DEF Ledger

(* Parked requests are resolved without an answer of a host.                *)
LEMMA RetractingKeepsLedger ==
  ASSUME LocalTyped, Ledger, Thins(mail, mail', AskedOf), agent'.stream = agent.stream,
         agent'.asked = agent.asked, Thins(commands, commands', AnswererOf),
         \A t \in Answers : call'[t] = call[t],
         NEW e \in Seq(EventSet), out' = out \o e, Distinct(e, ResolvedOf),
         Keys(e, ResolvedOf) \subseteq state.pending,
         state'.pending \subseteq state.pending \ Keys(e, ResolvedOf)
  PROVE  Ledger'
<1>1. AskedOnce' /\ Asking' \subseteq Asking
  BY DEF Ledger, AskedOnce, Asking, Thins
<1>2. QueuedOnce' /\ Keys(commands', AnswererOf) \subseteq Keys(commands, AnswererOf)
  BY DEF Ledger, QueuedOnce, Thins
<1>3. Holders' \subseteq Holders /\ \A t \in Holders : t \in Answers /\ call'[t].of = call[t].of
  BY <1>2, HoldersAre DEF Holders
<1>4. Held' \subseteq Held
  BY <1>3 DEF Held
<1>5. /\ Resolved' = Resolved \cup Keys(e, ResolvedOf) /\ Resolved \cap Keys(e, ResolvedOf) = {}
      /\ Distinct(out', ResolvedOf)
  BY Emitted DEF Ledger, OnePlace, ResolvedOnce
<1>6. OnePlace'
  <2>1. \A t, u \in Holders' : (call[t].of = call[u].of => t = u)'
    BY <1>3 DEF Ledger, OnePlace
  <2> QED BY <1>1, <1>4, <1>5, <2>1 DEF Ledger, OnePlace
<1>7. ResolvedOnce'
  BY <1>5 DEF Ledger, ResolvedOnce
<1> QED BY <1>1, <1>2, <1>6, <1>7 DEF Ledger

(* The answer at the head of the commands is delivered, or fails.           *)
LEMMA AnswerCommand ==
  ASSUME LocalTyped, Ledger, TakesCommand(Answers)
  PROVE  /\ By \in Answers /\ By \in Keys(commands, AnswererOf) /\ By \notin Keys(commands', AnswererOf)
         /\ Keys(commands, AnswererOf) = Keys(commands', AnswererOf) \cup {By}
         /\ Distinct(commands', AnswererOf)
         /\ By \in Holders /\ call[By].of \in Held /\ call[By].of \in Requests
<1>1. By \in Answers /\ commands # << >> /\ commands' = Tail(commands) /\ commands \in Seq(CommandSet)
  BY CommandTaken, FieldsTyped DEF Calls
<1>2. Head(commands) \in CommandSet /\ AnswererOf[Head(commands)] = By /\ By # None
  BY <1>1, SeqsTyped, NoneAssumption DEF AnswererOf, By, Calls
<1>3. /\ Keys(commands, AnswererOf) = Keys(Tail(commands), AnswererOf) \cup Key(AnswererOf,
           Head(commands))
      /\ Distinct(commands, AnswererOf) => /\ Distinct(Tail(commands), AnswererOf)
                                    /\ AnswererOf[Head(commands)] \notin Keys(Tail(commands), AnswererOf)
  BY <1>1, KeysTail
<1>4. Key(AnswererOf, Head(commands)) = {By}
  BY <1>2 DEF Key
<1>5. By \in Holders /\ call[By].of \in Held
  BY <1>3, <1>4 DEF Holders, Held
<1> QED BY <1>1, <1>2, <1>3, <1>4, <1>5, HoldersAre DEF Ledger, QueuedOnce

LEMMA AnsweringKeepsLedger ==
  ASSUME LocalTyped, Ledger, TakesCommand(Answers), mail' = mail,
         Thins(agent.stream, agent'.stream, AskedOf), agent'.asked = agent.asked,
         state' = state,
         \/ /\ Replied(By, "failed") /\ out' = out
         \/ /\ Replied(By, "ok")
            /\ \E e \in Seq(EventSet) : /\ out' = out \o e /\ Distinct(e, ResolvedOf)
                                        /\ Keys(e, ResolvedOf) = {call[By].of}
  PROVE  Ledger'
<1> DEFINE q == call[By].of
<1>1. AskedOnce' /\ Asking' \subseteq Asking
  BY DEF Ledger, AskedOnce, Asking, Thins
<1>2. /\ By \in Answers /\ By \in Holders /\ By \notin Keys(commands', AnswererOf)
      /\ Keys(commands, AnswererOf) = Keys(commands', AnswererOf) \cup {By}
      /\ Distinct(commands', AnswererOf) /\ q \in Held
  BY AnswerCommand
<1>3. /\ call[By].at \in {"posted", "failed"}
      /\ \A t \in Calls : t # By => call'[t] = call[t]
      /\ call'[By].of = q /\ call'[By].at \in {"ok", "failed"}
      /\ call'[By].at = "ok" => Replied(By, "ok")
  <2>1. call \in [Calls -> CallSet] /\ By \in Calls /\ call[By].at \in {"posted", "failed"}
    BY <1>2, FieldsTyped, HoldersAre DEF Calls
  <2>2. call' = call \/ call' = [call EXCEPT ![By].at = "failed"] \/ call' = [call EXCEPT ![By].at = "ok"]
    BY DEF Replied
  <2>3. call[By].at = "posted" /\ Replied(By, "failed") => call' = [call EXCEPT ![By].at = "failed"]
    BY DEF Replied, Heard
  <2>4. call[By].at = "posted" /\ Replied(By, "ok") => call' = [call EXCEPT ![By].at = "ok"]
    BY DEF Replied, Heard
  <2>5. call[By].at = "failed" => call' = call
    BY DEF Replied, Heard
  <2>6. \A x \in {"ok", "failed"} : call' = [call EXCEPT ![By].at = x] =>
          /\ \A t \in Calls : t # By => call'[t] = call[t]
          /\ call'[By].of = q /\ call'[By].at = x
    BY <2>1 DEF CallSet
  <2> QED BY <2>1, <2>3, <2>4, <2>5, <2>6
<1>4. QueuedOnce'
  BY <1>2, <1>3 DEF Ledger, QueuedOnce, Calls
<1>5. Holders' = Holders \ {By} /\ \A t \in Holders' : t \in Answers /\ call'[t].of = call[t].of
  BY <1>2, <1>3, HoldersAre DEF Holders, Calls
<1>6. Held' = Held \ {q}
  BY <1>2, <1>5 DEF Ledger, OnePlace, Held
<1>7. \A t, u \in Holders' : (call[t].of = call[u].of => t = u)'
  BY <1>5 DEF Ledger, OnePlace
<1> HIDE DEF q
<1>8. CASE Replied(By, "failed") /\ out' = out
  <2>1. Resolved' = Resolved
    BY <1>8 DEF Resolved
  <2>2. OnePlace'
    BY <1>1, <1>6, <1>7, <2>1 DEF Ledger, OnePlace
  <2>3. \A t \in Answers : call'[t].at = "ok" => call'[t] = call[t]
    <3>1. call'[By].at = "ok" => call'[By] = call[By]
      <4>1. call' = call \/ call' = [call EXCEPT ![By].at = "failed"]
        BY <1>8 DEF Replied
      <4>2. call' = [call EXCEPT ![By].at = "failed"] => call'[By].at # "ok"
        BY <1>2, FieldsTyped DEF CallSet, Calls
      <4> QED BY <4>1, <4>2
    <3> QED BY <1>3, <3>1 DEF Calls
  <2>4. ResolvedOnce'
    BY <1>8, <2>1, <2>3 DEF Ledger, ResolvedOnce
  <2> QED BY <1>1, <1>4, <2>2, <2>4 DEF Ledger
<1>9. ASSUME NEW e \in Seq(EventSet), out' = out \o e, Distinct(e, ResolvedOf),
             Keys(e, ResolvedOf) = {q}
      PROVE  Ledger'
  <2>1. q \notin Resolved /\ q \notin Asking /\ q \notin state.pending /\ q \in agent.asked
    BY <1>2 DEF Ledger, OnePlace
  <2>2. Resolved' = Resolved \cup {q} /\ Distinct(out', ResolvedOf)
    BY <1>9, <2>1, Emitted DEF Ledger, ResolvedOnce
  <2>3. OnePlace'
    BY <1>1, <1>6, <1>7, <2>1, <2>2 DEF Ledger, OnePlace
  <2>4. ASSUME NEW t \in Answers, call'[t].at = "ok"
        PROVE  /\ call'[t].of \in Resolved'
               /\ \A u \in Answers \ {t} : call'[u].at = "ok" => call'[u].of # call'[t].of
    <3>1. ASSUME NEW u \in Answers, u # By, call'[u].at = "ok"
          PROVE  /\ call'[u].of = call[u].of /\ call[u].at = "ok" /\ call[u].of \in Resolved
                 /\ call[u].of # q
      BY <1>3, <2>1, <3>1 DEF Ledger, ResolvedOnce, Calls
    <3>2. CASE t = By
      BY <1>3, <2>2, <3>1, <3>2 DEF q
    <3>3. CASE t # By
      <4>1. call'[t].of = call[t].of /\ call[t].at = "ok" /\ call[t].of \in Resolved /\ call[t].of # q
        BY <2>4, <3>1, <3>3
      <4>2. ASSUME NEW u \in Answers \ {t}, call'[u].at = "ok" PROVE call'[u].of # call'[t].of
        <5>1. CASE u = By
          BY <1>3, <4>1, <5>1 DEF q
        <5>2. CASE u # By
          BY <3>1, <4>1, <4>2, <5>2 DEF Ledger, ResolvedOnce
        <5> QED BY <5>1, <5>2
      <4> QED BY <2>2, <4>1, <4>2
    <3> QED BY <3>2, <3>3
  <2>5. ResolvedOnce'
    BY <2>2, <2>4 DEF ResolvedOnce
  <2> QED BY <1>1, <1>4, <2>3, <2>5 DEF Ledger
<1> QED BY <1>8, <1>9 DEF q

-----------------------------------------------------------------------------
(* The steps of LocalSession: each keeps the types, and is quiet unless its *)
(* lemma is named Typed.                                                    *)
LEMMA HandshakeAnsweredQuiet ==
  ASSUME LocalTyped, HandshakeAnswered
  PROVE  LocalTyped' /\ Quiet
<1>1. LocalTyped'
  BY DEF LocalTyped, HandshakeAnswered
<1>2. /\ state' = state /\ commands' = commands /\ mail' = mail /\ call' = call /\ agent' = agent
      /\ out' = out
  BY DEF HandshakeAnswered
<1>3. Thins(mail, mail', AskedOf)
  BY <1>2, MailThins, LettersTyped, Unasked, FieldsTyped
<1>4. Thins(agent.stream, agent'.stream, AskedOf) /\ agent'.asked = agent.asked
  BY <1>2, StreamThins
<1>5. Thins(commands, commands', AnswererOf)
  BY <1>2, CommandsThin, CommandsTyped, ThreadsAssumption, NoneAssumption
<1>6. state'.pending \subseteq state.pending
  BY <1>2, FieldsTyped DEF StateSet
<1>7. \A u \in Answers : call'[u] = call[u] \/ (call'[u].at = "failed" /\ call'[u].of = call[u].of)
  BY <1>2, FieldsTyped, ThreadsAssumption DEF CallSet, Calls
<1>8. ResolvesNothing(out')
  BY <1>2 DEF ResolvesNothing
<1>9. Quiet
  BY <1>3, <1>4, <1>5, <1>6, <1>7, <1>8 DEF Quiet
<1> QED BY <1>1, <1>9

LEMMA HandshakeFailsQuiet ==
  ASSUME LocalTyped, HandshakeFails
  PROVE  LocalTyped' /\ Quiet
<1>1. state' = [state EXCEPT !.closed = TRUE]
  BY FieldsTyped DEF HandshakeFails
<1>2. [state EXCEPT !.closed = TRUE] \in StateSet
  BY FieldsTyped, StateSetters, ParkedSets, ClosesTyped DEF Models
<1>3. state' \in StateSet
  BY <1>1, <1>2, FieldsTyped
<1>4. commands' = << >>
  BY FieldsTyped DEF HandshakeFails
<1>5. << >> \in Seq(CommandSet)
  BY FieldsTyped, SeqsTyped, CommandsTyped DEF Calls
<1>6. commands' \in Seq(CommandSet)
  BY <1>4, <1>5, FieldsTyped
<1>7. mail' = << >>
  BY FieldsTyped DEF HandshakeFails
<1>8. << >> \in Seq(Letters)
  BY AgentTyped, FieldsTyped, LettersTyped, SeqsTyped DEF Results
<1>9. mail' \in Seq(Letters)
  BY <1>7, <1>8, FieldsTyped
<1>10. agent' = [DeadAgent EXCEPT !.stream = << >>]
  BY FieldsTyped DEF HandshakeFails
<1>11. [DeadAgent EXCEPT !.stream = << >>] \in AgentSet
  BY AgentTyped, AgentSetters, FieldsTyped, LettersTyped, SeqsTyped
<1>12. agent' \in AgentSet
  BY <1>10, <1>11, FieldsTyped
<1>13. LocalTyped'
  BY <1>3, <1>6, <1>9, <1>12 DEF LocalTyped, HandshakeFails
<1>14. call' = call /\ out' = out
  BY DEF HandshakeFails
<1>15. Thins(mail, mail', AskedOf)
  BY <1>7, MailThins, LettersTyped, Unasked, FieldsTyped
<1>16. agent'.asked = agent.asked /\ (agent'.stream = << >>)
  BY <1>10, AgentTyped, FieldsTyped DEF AgentSet, DeadAgent
<1>17. Thins(agent.stream, agent'.stream, AskedOf)
  BY <1>16, StreamThins, LettersTyped, Unasked, FieldsTyped
<1>18. Thins(commands, commands', AnswererOf)
  BY <1>4, CommandsThin, CommandsTyped, ThreadsAssumption, NoneAssumption
<1>19. state'.pending \subseteq state.pending
  BY <1>1, FieldsTyped DEF StateSet
<1>20. \A u \in Answers : call'[u] = call[u] \/ (call'[u].at = "failed" /\ call'[u].of = call[u].of)
  BY <1>14, FieldsTyped, ThreadsAssumption DEF CallSet, Calls
<1>21. ResolvesNothing(out')
  BY <1>14 DEF ResolvesNothing
<1>22. Quiet
  BY <1>15, <1>16, <1>17, <1>18, <1>19, <1>20, <1>21 DEF Quiet
<1> QED BY <1>13, <1>22

LEMMA StartExpiresQuiet ==
  ASSUME LocalTyped, StartExpires
  PROVE  LocalTyped' /\ Quiet
<1>1. state' = AfterClose([state EXCEPT !.closed = TRUE])
  BY FieldsTyped DEF StartExpires
<1>2. AfterClose([state EXCEPT !.closed = TRUE]) \in StateSet
  BY FieldsTyped, StateSetters, ParkedSets, ClosesTyped DEF Models
<1>3. state' \in StateSet
  BY <1>1, <1>2, FieldsTyped
<1>4. commands' = Append(commands, [what |-> "shutdown", by |-> None])
  BY FieldsTyped DEF StartExpires
<1>5. Append(commands, [what |-> "shutdown", by |-> None]) \in Seq(CommandSet)
  BY FieldsTyped, SeqsTyped, CommandsTyped DEF Calls
<1>6. commands' \in Seq(CommandSet)
  BY <1>4, <1>5, FieldsTyped
<1>7. AgentDies
  BY FieldsTyped DEF StartExpires
<1>8. mail' \in Seq(Letters)
  BY <1>7, AgentTyped, FieldsTyped, LettersTyped, SeqsTyped DEF Results
<1>9. AgentDies
  BY FieldsTyped DEF StartExpires
<1>10. agent' \in AgentSet
  BY <1>9, AgentTyped, AgentSetters, FieldsTyped, LettersTyped, SeqsTyped
<1>11. LocalTyped'
  BY <1>3, <1>6, <1>8, <1>10 DEF LocalTyped, StartExpires
<1>12. call' = call /\ out' = out
  BY DEF StartExpires
<1>13. /\ Thins(mail, mail', AskedOf) /\ Thins(agent.stream, agent'.stream, AskedOf)
       /\ agent'.asked = agent.asked
  BY <1>7, DeadThins
<1>14. Thins(commands, commands', AnswererOf)
  BY <1>4, CommandsThin, CommandsTyped, ThreadsAssumption, NoneAssumption DEF Calls
<1>15. state'.pending \subseteq state.pending
  BY <1>1, FieldsTyped DEF StateSet, AfterClose
<1>16. \A u \in Answers : call'[u] = call[u] \/ (call'[u].at = "failed" /\ call'[u].of = call[u].of)
  BY <1>12, FieldsTyped, ThreadsAssumption DEF CallSet, Calls
<1>17. ResolvesNothing(out')
  BY <1>12 DEF ResolvesNothing
<1>18. Quiet
  BY <1>13, <1>14, <1>15, <1>16, <1>17 DEF Quiet
<1> QED BY <1>11, <1>18

LEMMA AnnounceQuiet ==
  ASSUME LocalTyped, Announce
  PROVE  LocalTyped' /\ Quiet
<1>1. state' = [state EXCEPT !.announced = TRUE, !.pendingClose = FALSE, !.closeEmitted = @
        \/ state.pendingClose]
  BY FieldsTyped DEF Announce
<1>2. [state EXCEPT !.announced = TRUE, !.pendingClose = FALSE, !.closeEmitted = @
        \/ state.pendingClose] \in StateSet
  BY FieldsTyped, StateSetters, ParkedSets, ClosesTyped DEF Models
<1>3. state' \in StateSet
  BY <1>1, <1>2, FieldsTyped
<1>4. out' = out \o (<<Status("created"), Status("idle")>>
        \o (IF state.interrupted THEN <<Status("interrupted")>> ELSE << >>)
        \o (IF state.pendingClose THEN <<Status("closed")>> ELSE << >>))
  BY FieldsTyped DEF Announce, Emit
<1>5. out \o (<<Status("created"), Status("idle")>>
        \o (IF state.interrupted THEN <<Status("interrupted")>> ELSE << >>)
        \o (IF state.pendingClose THEN <<Status("closed")>> ELSE << >>)) \in Seq(EventSet)
  BY EventsTyped, FactsTyped, ClosesTyped, RetractedOnce, FieldsTyped, SeqsTyped DEF Results
<1>6. out' \in Seq(EventSet)
  BY <1>4, <1>5, FieldsTyped
<1>7. LocalTyped'
  BY <1>3, <1>6 DEF LocalTyped, Announce
<1>8. commands' = commands /\ mail' = mail /\ call' = call /\ agent' = agent
  BY DEF Announce
<1>9. Thins(mail, mail', AskedOf)
  BY <1>8, MailThins, LettersTyped, Unasked, FieldsTyped
<1>10. Thins(agent.stream, agent'.stream, AskedOf) /\ agent'.asked = agent.asked
  BY <1>8, StreamThins
<1>11. Thins(commands, commands', AnswererOf)
  BY <1>8, CommandsThin, CommandsTyped, ThreadsAssumption, NoneAssumption
<1>12. state'.pending \subseteq state.pending
  BY <1>1, FieldsTyped DEF StateSet
<1>13. \A u \in Answers : call'[u] = call[u] \/ (call'[u].at = "failed" /\ call'[u].of = call[u].of)
  BY <1>8, FieldsTyped, ThreadsAssumption DEF CallSet, Calls
<1>14. Plain((<<Status("created"), Status("idle")>>
         \o (IF state.interrupted THEN <<Status("interrupted")>> ELSE << >>)
         \o (IF state.pendingClose THEN <<Status("closed")>> ELSE << >>)))
  BY PlainShapes, PlainFacts, PlainJoined, EventsTyped, FieldsTyped DEF Results
<1>15. ResolvesNothing(out \o (<<Status("created"), Status("idle")>>
         \o (IF state.interrupted THEN <<Status("interrupted")>> ELSE << >>)
         \o (IF state.pendingClose THEN <<Status("closed")>> ELSE << >>)))
  BY <1>14, PlainEmitted
<1>16. ResolvesNothing(out')
  BY <1>4, <1>15 DEF ResolvesNothing
<1>17. Quiet
  BY <1>9, <1>10, <1>11, <1>12, <1>13, <1>16 DEF Quiet
<1> QED BY <1>7, <1>17

LEMMA SendQuiet ==
  ASSUME LocalTyped, NEW t \in Sends, Send(t)
  PROVE  LocalTyped' /\ Quiet
<1>1. t \in Calls
  BY FieldsTyped, SeqsTyped, NoneAssumption, LettersTyped DEF Send, MayCall, Calls, Results
<1>2. state' = state \/ state' = [state EXCEPT !.starting = TRUE]
  BY <1>1, FieldsTyped DEF Send, MayCall
<1>3. [state EXCEPT !.starting = TRUE] \in StateSet
  BY <1>1, FieldsTyped, StateSetters, ParkedSets, ClosesTyped DEF Models
<1>4. state' \in StateSet
  BY <1>2, <1>3, FieldsTyped
<1>5. commands' = commands \/ commands' = Append(commands, [what |-> "call", by |-> t])
  BY <1>1, FieldsTyped DEF Send, MayCall
<1>6. Append(commands, [what |-> "call", by |-> t]) \in Seq(CommandSet)
  BY <1>1, FieldsTyped, SeqsTyped, CommandsTyped DEF Calls
<1>7. commands' \in Seq(CommandSet)
  BY <1>5, <1>6, FieldsTyped
<1>8. call' = [call EXCEPT ![t].at = "failed"]
        \/ call' = [call EXCEPT ![t] = [at |-> "posted", of |-> state.selection]]
  BY <1>1, FieldsTyped DEF Send, MayCall, Told
<1>9. /\ [call EXCEPT ![t].at = "failed"] \in [Calls -> CallSet]
      /\ [call EXCEPT ![t] = [at |-> "posted", of |-> state.selection]] \in [Calls -> CallSet]
  BY <1>1, CallsTyped, FieldsTyped DEF Stages, Models
<1>10. call' \in [Calls -> CallSet]
  BY <1>8, <1>9, FieldsTyped
<1>11. LocalTyped'
  BY <1>4, <1>7, <1>10 DEF LocalTyped, Send, MayCall
<1>12. mail' = mail /\ agent' = agent /\ out' = out
  BY DEF Send, MayCall
<1>13. Thins(mail, mail', AskedOf)
  BY <1>12, <1>1, MailThins, LettersTyped, Unasked, FieldsTyped
<1>14. Thins(agent.stream, agent'.stream, AskedOf) /\ agent'.asked = agent.asked
  BY <1>12, StreamThins
<1>15. Thins(commands, commands', AnswererOf)
  BY <1>5, <1>1, CommandsThin, CommandsTyped, ThreadsAssumption, NoneAssumption DEF Calls
<1>16. state'.pending \subseteq state.pending
  BY <1>2, FieldsTyped DEF StateSet
<1>17. \A u \in Answers : call'[u] = call[u] \/ (call'[u].at = "failed" /\ call'[u].of = call[u].of)
  BY <1>8, <1>1, FieldsTyped, ThreadsAssumption DEF CallSet, Calls
<1>18. ResolvesNothing(out')
  BY <1>12 DEF ResolvesNothing
<1>19. Quiet
  BY <1>13, <1>14, <1>15, <1>16, <1>17, <1>18 DEF Quiet
<1> QED BY <1>11, <1>19

LEMMA AnswerTyped ==
  ASSUME LocalTyped, NEW t \in Answers, Answer(t)
  PROVE  LocalTyped'
<1>1. t \in Calls
  BY FieldsTyped, SeqsTyped, NoneAssumption, LettersTyped DEF Answer, MayCall, Calls, Results
<1>2. PICK q \in Requests : state' = state \/ state' = [state EXCEPT !.pending = @ \ {q}]
  BY <1>1, FieldsTyped DEF Answer, MayCall
<1>3. [state EXCEPT !.pending = @ \ {q}] \in StateSet
  BY <1>2, <1>1, FieldsTyped, StateSetters, ParkedSets, ClosesTyped DEF Models
<1>4. state' \in StateSet
  BY <1>2, <1>3, FieldsTyped
<1>5. PICK p \in Requests : call' = [call EXCEPT ![t] = [at |-> "checked", of |-> p]]
        \/ call' = [call EXCEPT ![t] = [at |-> "failed", of |-> p]]
  BY <1>1, FieldsTyped DEF Answer, MayCall
<1>6. /\ [call EXCEPT ![t] = [at |-> "checked", of |-> p]] \in [Calls -> CallSet]
      /\ [call EXCEPT ![t] = [at |-> "failed", of |-> p]] \in [Calls -> CallSet]
  BY <1>5, <1>1, CallsTyped, FieldsTyped DEF Stages, Models
<1>7. call' \in [Calls -> CallSet]
  BY <1>5, <1>6, FieldsTyped
<1> QED BY <1>4, <1>7 DEF LocalTyped, Answer, MayCall

LEMMA CancelQuiet ==
  ASSUME LocalTyped, NEW t \in Cancels, Cancel(t)
  PROVE  LocalTyped' /\ Quiet
<1>1. t \in Calls
  BY FieldsTyped, SeqsTyped, NoneAssumption, LettersTyped DEF Cancel, MayCall, Calls, Results
<1>2. PICK i \in DOMAIN out : call' = [call EXCEPT ![t] = [at |-> "checked", of |-> out[i].run]]
        \/ call' = [call EXCEPT ![t] = [at |-> "failed", of |-> out[i].run]]
  BY <1>1, FieldsTyped DEF Cancel, MayCall
<1>run. out[i].run \in Sends \cup {None}
  <2>1. out[i] \in EventSet
    BY <1>2, FieldsTyped, SeqsTyped
  <2> QED BY <2>1 DEF EventSet
<1>3. /\ [call EXCEPT ![t] = [at |-> "checked", of |-> out[i].run]] \in [Calls -> CallSet]
      /\ [call EXCEPT ![t] = [at |-> "failed", of |-> out[i].run]] \in [Calls -> CallSet]
  BY <1>run, <1>2, <1>1, CallsTyped, FieldsTyped DEF Stages, Models
<1>4. call' \in [Calls -> CallSet]
  BY <1>2, <1>3, FieldsTyped
<1>5. LocalTyped'
  BY <1>4 DEF LocalTyped, Cancel, MayCall
<1>6. state' = state /\ commands' = commands /\ mail' = mail /\ agent' = agent /\ out' = out
  BY DEF Cancel, MayCall
<1>7. Thins(mail, mail', AskedOf)
  BY <1>6, <1>1, MailThins, LettersTyped, Unasked, FieldsTyped
<1>8. Thins(agent.stream, agent'.stream, AskedOf) /\ agent'.asked = agent.asked
  BY <1>6, StreamThins
<1>9. Thins(commands, commands', AnswererOf)
  BY <1>6, <1>1, CommandsThin, CommandsTyped, ThreadsAssumption, NoneAssumption
<1>10. state'.pending \subseteq state.pending
  BY <1>6, FieldsTyped DEF StateSet
<1>11. \A u \in Answers : call'[u] = call[u] \/ (call'[u].at = "failed" /\ call'[u].of = call[u].of)
  BY <1>2, <1>1, FieldsTyped, ThreadsAssumption DEF CallSet, Calls
<1>12. ResolvesNothing(out')
  BY <1>6 DEF ResolvesNothing
<1>13. Quiet
  BY <1>7, <1>8, <1>9, <1>10, <1>11, <1>12 DEF Quiet
<1> QED BY <1>5, <1>13

LEMMA SelectQuiet ==
  ASSUME LocalTyped, NEW t \in Selects, Select(t)
  PROVE  LocalTyped' /\ Quiet
<1>1. t \in Calls
  BY FieldsTyped, SeqsTyped, NoneAssumption, LettersTyped DEF Select, MayCall, Calls, Results
<1>2. state' = state \/ state' = [state EXCEPT !.selection = "new"]
  BY <1>1, FieldsTyped DEF Select, MayCall
<1>3. [state EXCEPT !.selection = "new"] \in StateSet
  BY <1>1, FieldsTyped, StateSetters, ParkedSets, ClosesTyped DEF Models
<1>4. state' \in StateSet
  BY <1>2, <1>3, FieldsTyped
<1>5. call' = [call EXCEPT ![t].at = "failed"] \/ call' = [call EXCEPT ![t].at = "checked"]
        \/ call' = [call EXCEPT ![t].at = "ok"]
  BY <1>1, FieldsTyped DEF Select, MayCall, Told
<1>6. /\ [call EXCEPT ![t].at = "failed"] \in [Calls -> CallSet]
      /\ [call EXCEPT ![t].at = "checked"] \in [Calls -> CallSet]
      /\ [call EXCEPT ![t].at = "ok"] \in [Calls -> CallSet]
  BY <1>1, CallsTyped, FieldsTyped DEF Stages, Models
<1>7. call' \in [Calls -> CallSet]
  BY <1>5, <1>6, FieldsTyped
<1>8. LocalTyped'
  BY <1>4, <1>7 DEF LocalTyped, Select, MayCall
<1>9. commands' = commands /\ mail' = mail /\ agent' = agent /\ out' = out
  BY DEF Select, MayCall
<1>10. Thins(mail, mail', AskedOf)
  BY <1>9, <1>1, MailThins, LettersTyped, Unasked, FieldsTyped
<1>11. Thins(agent.stream, agent'.stream, AskedOf) /\ agent'.asked = agent.asked
  BY <1>9, StreamThins
<1>12. Thins(commands, commands', AnswererOf)
  BY <1>9, <1>1, CommandsThin, CommandsTyped, ThreadsAssumption, NoneAssumption
<1>13. state'.pending \subseteq state.pending
  BY <1>2, FieldsTyped DEF StateSet
<1>14. \A u \in Answers : call'[u] = call[u] \/ (call'[u].at = "failed" /\ call'[u].of = call[u].of)
  BY <1>5, <1>1, FieldsTyped, ThreadsAssumption DEF CallSet, Calls
<1>15. ResolvesNothing(out')
  BY <1>9 DEF ResolvesNothing
<1>16. Quiet
  BY <1>10, <1>11, <1>12, <1>13, <1>14, <1>15 DEF Quiet
<1> QED BY <1>8, <1>16

LEMMA PostCommandTyped ==
  ASSUME LocalTyped, NEW t \in Calls, PostCommand(t)
  PROVE  LocalTyped'
<1>1. commands' = commands \/ commands' = Append(commands, [what |-> "call", by |-> t])
  BY FieldsTyped DEF PostCommand
<1>2. Append(commands, [what |-> "call", by |-> t]) \in Seq(CommandSet)
  BY FieldsTyped, SeqsTyped, CommandsTyped DEF Calls
<1>3. commands' \in Seq(CommandSet)
  BY <1>1, <1>2, FieldsTyped
<1>4. call' = [call EXCEPT ![t].at = "failed"] \/ call' = [call EXCEPT ![t].at = "posted"]
  BY FieldsTyped DEF PostCommand, Told
<1>5. /\ [call EXCEPT ![t].at = "failed"] \in [Calls -> CallSet]
      /\ [call EXCEPT ![t].at = "posted"] \in [Calls -> CallSet]
  BY CallsTyped, FieldsTyped DEF Stages, Models
<1>6. call' \in [Calls -> CallSet]
  BY <1>4, <1>5, FieldsTyped
<1> QED BY <1>3, <1>6 DEF LocalTyped, PostCommand

LEMMA GivesUpQuiet ==
  ASSUME LocalTyped, NEW t \in Calls, GivesUp(t)
  PROVE  LocalTyped' /\ Quiet
<1>1. call' = [call EXCEPT ![t].at = "failed"]
        \/ (t \in Sends /\ call' = [call EXCEPT ![t].at = "clearing"])
        \/ (t \in Sends /\ call' = [call EXCEPT ![t].at = "overdue"])
  BY FieldsTyped DEF GivesUp, Heard, Told
<1>2. /\ [call EXCEPT ![t].at = "failed"] \in [Calls -> CallSet]
      /\ [call EXCEPT ![t].at = "clearing"] \in [Calls -> CallSet]
      /\ [call EXCEPT ![t].at = "overdue"] \in [Calls -> CallSet]
  BY CallsTyped, FieldsTyped DEF Stages, Models
<1>3. call' \in [Calls -> CallSet]
  BY <1>1, <1>2, FieldsTyped
<1>4. LocalTyped'
  BY <1>3 DEF LocalTyped, GivesUp, Heard
<1>5. state' = state /\ commands' = commands /\ mail' = mail /\ agent' = agent /\ out' = out
  BY DEF GivesUp, Heard
<1>6. Thins(mail, mail', AskedOf)
  BY <1>5, MailThins, LettersTyped, Unasked, FieldsTyped
<1>7. Thins(agent.stream, agent'.stream, AskedOf) /\ agent'.asked = agent.asked
  BY <1>5, StreamThins
<1>8. Thins(commands, commands', AnswererOf)
  BY <1>5, CommandsThin, CommandsTyped, ThreadsAssumption, NoneAssumption
<1>9. state'.pending \subseteq state.pending
  BY <1>5, FieldsTyped DEF StateSet
<1>10. \A u \in Answers : call'[u] = call[u] \/ (call'[u].at = "failed" /\ call'[u].of = call[u].of)
  BY <1>1, FieldsTyped, ThreadsAssumption DEF CallSet, Calls
<1>11. ResolvesNothing(out')
  BY <1>5 DEF ResolvesNothing
<1>12. Quiet
  BY <1>6, <1>7, <1>8, <1>9, <1>10, <1>11 DEF Quiet
<1> QED BY <1>4, <1>12

LEMMA ClearPromptStartingQuiet ==
  ASSUME LocalTyped, NEW t \in Calls, ClearPromptStarting(t)
  PROVE  LocalTyped' /\ Quiet
<1>1. state' = [state EXCEPT !.starting = FALSE]
  BY FieldsTyped DEF ClearPromptStarting
<1>2. [state EXCEPT !.starting = FALSE] \in StateSet
  BY FieldsTyped, StateSetters, ParkedSets, ClosesTyped DEF Models
<1>3. state' \in StateSet
  BY <1>1, <1>2, FieldsTyped
<1>4. t \in Sends /\ \/ call' = [call EXCEPT ![t].at = "failed"]
                       \/ call' = [call EXCEPT ![t].at = "late"]
  BY FieldsTyped DEF ClearPromptStarting, Told
<1>5. /\ [call EXCEPT ![t].at = "failed"] \in [Calls -> CallSet]
      /\ [call EXCEPT ![t].at = "late"] \in [Calls -> CallSet]
  BY CallsTyped, FieldsTyped DEF Stages, Models
<1>6. call' \in [Calls -> CallSet]
  BY <1>4, <1>5, FieldsTyped
<1>7. LocalTyped'
  BY <1>3, <1>6 DEF LocalTyped, ClearPromptStarting
<1>8. commands' = commands /\ mail' = mail /\ agent' = agent /\ out' = out
  BY DEF ClearPromptStarting
<1>9. Thins(mail, mail', AskedOf)
  BY <1>8, MailThins, LettersTyped, Unasked, FieldsTyped
<1>10. Thins(agent.stream, agent'.stream, AskedOf) /\ agent'.asked = agent.asked
  BY <1>8, StreamThins
<1>11. Thins(commands, commands', AnswererOf)
  BY <1>8, CommandsThin, CommandsTyped, ThreadsAssumption, NoneAssumption
<1>12. state'.pending \subseteq state.pending
  BY <1>1, FieldsTyped DEF StateSet
<1>13. \A u \in Answers : call'[u] = call[u] \/ (call'[u].at = "failed" /\ call'[u].of = call[u].of)
  BY <1>4, FieldsTyped, ThreadsAssumption DEF CallSet, Calls
<1>14. ResolvesNothing(out')
  BY <1>8 DEF ResolvesNothing
<1>15. Quiet
  BY <1>9, <1>10, <1>11, <1>12, <1>13, <1>14 DEF Quiet
<1> QED BY <1>7, <1>15

LEMMA StopBeginsQuiet ==
  ASSUME LocalTyped, StopBegins
  PROVE  LocalTyped' /\ Quiet
<1>1. state' = [state EXCEPT !.closed = TRUE]
  BY FieldsTyped DEF StopBegins
<1>2. [state EXCEPT !.closed = TRUE] \in StateSet
  BY FieldsTyped, StateSetters, ParkedSets, ClosesTyped DEF Models
<1>3. state' \in StateSet
  BY <1>1, <1>2, FieldsTyped
<1>4. LocalTyped'
  BY <1>3 DEF LocalTyped, StopBegins
<1>5. commands' = commands /\ mail' = mail /\ call' = call /\ agent' = agent /\ out' = out
  BY DEF StopBegins
<1>6. Thins(mail, mail', AskedOf)
  BY <1>5, MailThins, LettersTyped, Unasked, FieldsTyped
<1>7. Thins(agent.stream, agent'.stream, AskedOf) /\ agent'.asked = agent.asked
  BY <1>5, StreamThins
<1>8. Thins(commands, commands', AnswererOf)
  BY <1>5, CommandsThin, CommandsTyped, ThreadsAssumption, NoneAssumption
<1>9. state'.pending \subseteq state.pending
  BY <1>1, FieldsTyped DEF StateSet
<1>10. \A u \in Answers : call'[u] = call[u] \/ (call'[u].at = "failed" /\ call'[u].of = call[u].of)
  BY <1>5, FieldsTyped, ThreadsAssumption DEF CallSet, Calls
<1>11. ResolvesNothing(out')
  BY <1>5 DEF ResolvesNothing
<1>12. Quiet
  BY <1>6, <1>7, <1>8, <1>9, <1>10, <1>11 DEF Quiet
<1> QED BY <1>4, <1>12

LEMMA ReaderCancelledQuiet ==
  ASSUME LocalTyped, ReaderCancelled
  PROVE  LocalTyped' /\ Quiet
<1>1. mail' = Append(mail, Closed)
  BY FieldsTyped DEF ReaderCancelled
<1>2. Append(mail, Closed) \in Seq(Letters)
  BY AgentTyped, FieldsTyped, LettersTyped, SeqsTyped DEF Results
<1>3. mail' \in Seq(Letters)
  BY <1>1, <1>2, FieldsTyped
<1>4. agent' = [agent EXCEPT !.reading = FALSE, !.stream = << >>]
  BY FieldsTyped DEF ReaderCancelled
<1>5. [agent EXCEPT !.reading = FALSE, !.stream = << >>] \in AgentSet
  BY AgentTyped, AgentSetters, FieldsTyped, LettersTyped, SeqsTyped
<1>6. agent' \in AgentSet
  BY <1>4, <1>5, FieldsTyped
<1>7. LocalTyped'
  BY <1>3, <1>6 DEF LocalTyped, ReaderCancelled
<1>8. state' = state /\ commands' = commands /\ call' = call /\ out' = out
  BY DEF ReaderCancelled
<1>9. Closed \in Letters /\ Closed.what # "request"
  BY AgentTyped, LettersTyped, FieldsTyped DEF Mail, Closed, Results
<1>10. Thins(mail, mail', AskedOf)
  BY <1>1, <1>9, MailThins, LettersTyped, Unasked, FieldsTyped
<1>11. agent'.asked = agent.asked /\ (agent'.stream = << >>)
  BY <1>4, AgentTyped, FieldsTyped DEF AgentSet, DeadAgent
<1>12. Thins(agent.stream, agent'.stream, AskedOf)
  BY <1>11, <1>9, StreamThins, LettersTyped, Unasked, FieldsTyped
<1>13. Thins(commands, commands', AnswererOf)
  BY <1>8, <1>9, CommandsThin, CommandsTyped, ThreadsAssumption, NoneAssumption
<1>14. state'.pending \subseteq state.pending
  BY <1>8, FieldsTyped DEF StateSet
<1>15. \A u \in Answers : call'[u] = call[u] \/ (call'[u].at = "failed" /\ call'[u].of = call[u].of)
  BY <1>8, <1>9, FieldsTyped, ThreadsAssumption DEF CallSet, Calls
<1>16. ResolvesNothing(out')
  BY <1>8 DEF ResolvesNothing
<1>17. Quiet
  BY <1>10, <1>11, <1>12, <1>13, <1>14, <1>15, <1>16 DEF Quiet
<1> QED BY <1>7, <1>17

LEMMA StopKillsQuiet ==
  ASSUME LocalTyped, StopKills
  PROVE  LocalTyped' /\ Quiet
<1>1. commands' = commands \/ commands' = Append(commands, [what |-> "shutdown", by |-> None])
  BY FieldsTyped DEF StopKills
<1>2. Append(commands, [what |-> "shutdown", by |-> None]) \in Seq(CommandSet)
  BY FieldsTyped, SeqsTyped, CommandsTyped DEF Calls
<1>3. commands' \in Seq(CommandSet)
  BY <1>1, <1>2, FieldsTyped
<1>4. AgentDies
  BY FieldsTyped DEF StopKills
<1>5. mail' \in Seq(Letters)
  BY <1>4, AgentTyped, FieldsTyped, LettersTyped, SeqsTyped DEF Results
<1>6. AgentDies
  BY FieldsTyped DEF StopKills
<1>7. agent' \in AgentSet
  BY <1>6, AgentTyped, AgentSetters, FieldsTyped, LettersTyped, SeqsTyped
<1>8. LocalTyped'
  BY <1>3, <1>5, <1>7 DEF LocalTyped, StopKills
<1>9. state' = state /\ call' = call /\ out' = out
  BY DEF StopKills
<1>10. /\ Thins(mail, mail', AskedOf) /\ Thins(agent.stream, agent'.stream, AskedOf)
       /\ agent'.asked = agent.asked
  BY <1>4, DeadThins
<1>11. Thins(commands, commands', AnswererOf)
  BY <1>1, CommandsThin, CommandsTyped, ThreadsAssumption, NoneAssumption DEF Calls
<1>12. state'.pending \subseteq state.pending
  BY <1>9, FieldsTyped DEF StateSet
<1>13. \A u \in Answers : call'[u] = call[u] \/ (call'[u].at = "failed" /\ call'[u].of = call[u].of)
  BY <1>9, FieldsTyped, ThreadsAssumption DEF CallSet, Calls
<1>14. ResolvesNothing(out')
  BY <1>9 DEF ResolvesNothing
<1>15. Quiet
  BY <1>10, <1>11, <1>12, <1>13, <1>14 DEF Quiet
<1> QED BY <1>8, <1>15

LEMMA StopFinishesQuiet ==
  ASSUME LocalTyped, StopFinishes
  PROVE  LocalTyped' /\ Quiet
<1>1. state' = AfterClose(state)
  BY FieldsTyped DEF StopFinishes
<1>2. AfterClose(state) \in StateSet
  BY FieldsTyped, StateSetters, ParkedSets, ClosesTyped DEF Models
<1>3. state' \in StateSet
  BY <1>1, <1>2, FieldsTyped
<1>4. out' = out \o CloseFacts(state)
  BY FieldsTyped DEF StopFinishes, Emit
<1>5. out \o CloseFacts(state) \in Seq(EventSet)
  BY EventsTyped, FactsTyped, ClosesTyped, RetractedOnce, FieldsTyped, SeqsTyped DEF Results
<1>6. out' \in Seq(EventSet)
  BY <1>4, <1>5, FieldsTyped
<1>7. LocalTyped'
  BY <1>3, <1>6 DEF LocalTyped, StopFinishes
<1>8. commands' = commands /\ mail' = mail /\ call' = call /\ agent' = agent
  BY DEF StopFinishes
<1>9. Thins(mail, mail', AskedOf)
  BY <1>8, MailThins, LettersTyped, Unasked, FieldsTyped
<1>10. Thins(agent.stream, agent'.stream, AskedOf) /\ agent'.asked = agent.asked
  BY <1>8, StreamThins
<1>11. Thins(commands, commands', AnswererOf)
  BY <1>8, CommandsThin, CommandsTyped, ThreadsAssumption, NoneAssumption
<1>12. state'.pending \subseteq state.pending
  BY <1>1, FieldsTyped DEF StateSet, AfterClose
<1>13. \A u \in Answers : call'[u] = call[u] \/ (call'[u].at = "failed" /\ call'[u].of = call[u].of)
  BY <1>8, FieldsTyped, ThreadsAssumption DEF CallSet, Calls
<1>14. Plain(CloseFacts(state))
  BY PlainShapes, PlainFacts, PlainJoined, EventsTyped, FieldsTyped DEF Results
<1>15. ResolvesNothing(out \o CloseFacts(state))
  BY <1>14, PlainEmitted
<1>16. ResolvesNothing(out')
  BY <1>4, <1>15 DEF ResolvesNothing
<1>17. Quiet
  BY <1>9, <1>10, <1>11, <1>12, <1>13, <1>16 DEF Quiet
<1> QED BY <1>7, <1>17

LEMMA OnShutdownQuiet ==
  ASSUME LocalTyped, OnShutdown
  PROVE  LocalTyped' /\ Quiet
<1>1. state' = [state EXCEPT !.pending = {}]
  BY FieldsTyped DEF OnShutdown
<1>2. [state EXCEPT !.pending = {}] \in StateSet
  BY FieldsTyped, StateSetters, ParkedSets, ClosesTyped DEF Models
<1>3. state' \in StateSet
  BY <1>1, <1>2, FieldsTyped
<1>4. flow' = NoFlow
  BY FieldsTyped DEF OnShutdown
<1>5. NoFlow \in FlowSet
  BY FieldsTyped, FlowSetters
<1>6. flow' \in FlowSet
  BY <1>4, <1>5, FieldsTyped
<1>7. LocalTyped'
  BY <1>3, <1>6 DEF LocalTyped, OnShutdown
<1>8. commands' = commands /\ mail' = mail /\ call' = call /\ agent' = agent /\ out' = out
  BY DEF OnShutdown
<1>9. Thins(mail, mail', AskedOf)
  BY <1>8, MailThins, LettersTyped, Unasked, FieldsTyped
<1>10. Thins(agent.stream, agent'.stream, AskedOf) /\ agent'.asked = agent.asked
  BY <1>8, StreamThins
<1>11. Thins(commands, commands', AnswererOf)
  BY <1>8, CommandsThin, CommandsTyped, ThreadsAssumption, NoneAssumption
<1>12. state'.pending \subseteq state.pending
  BY <1>1, FieldsTyped DEF StateSet
<1>13. \A u \in Answers : call'[u] = call[u] \/ (call'[u].at = "failed" /\ call'[u].of = call[u].of)
  BY <1>8, FieldsTyped, ThreadsAssumption DEF CallSet, Calls
<1>14. ResolvesNothing(out')
  BY <1>8 DEF ResolvesNothing
<1>15. Quiet
  BY <1>9, <1>10, <1>11, <1>12, <1>13, <1>14 DEF Quiet
<1> QED BY <1>7, <1>15

LEMMA OnClosedQuiet ==
  ASSUME LocalTyped, OnClosed
  PROVE  LocalTyped' /\ Quiet
<1>1. state' = [state EXCEPT !.pending = {}]
  BY FieldsTyped DEF OnClosed
<1>2. [state EXCEPT !.pending = {}] \in StateSet
  BY FieldsTyped, StateSetters, ParkedSets, ClosesTyped DEF Models
<1>3. state' \in StateSet
  BY <1>1, <1>2, FieldsTyped
<1>4. flow' = NoFlow
  BY FieldsTyped DEF OnClosed
<1>5. NoFlow \in FlowSet
  BY FieldsTyped, FlowSetters
<1>6. flow' \in FlowSet
  BY <1>4, <1>5, FieldsTyped
<1>7. LocalTyped'
  BY <1>3, <1>6 DEF LocalTyped, OnClosed
<1>8. commands' = commands /\ mail' = mail /\ call' = call /\ agent' = agent /\ out' = out
  BY DEF OnClosed
<1>9. Thins(mail, mail', AskedOf)
  BY <1>8, MailThins, LettersTyped, Unasked, FieldsTyped
<1>10. Thins(agent.stream, agent'.stream, AskedOf) /\ agent'.asked = agent.asked
  BY <1>8, StreamThins
<1>11. Thins(commands, commands', AnswererOf)
  BY <1>8, CommandsThin, CommandsTyped, ThreadsAssumption, NoneAssumption
<1>12. state'.pending \subseteq state.pending
  BY <1>1, FieldsTyped DEF StateSet
<1>13. \A u \in Answers : call'[u] = call[u] \/ (call'[u].at = "failed" /\ call'[u].of = call[u].of)
  BY <1>8, FieldsTyped, ThreadsAssumption DEF CallSet, Calls
<1>14. ResolvesNothing(out')
  BY <1>8 DEF ResolvesNothing
<1>15. Quiet
  BY <1>9, <1>10, <1>11, <1>12, <1>13, <1>14 DEF Quiet
<1> QED BY <1>7, <1>15

LEMMA ReapsQuiet ==
  ASSUME LocalTyped, Reaps
  PROVE  LocalTyped' /\ Quiet
<1>1. state' = [state EXCEPT !.closed = TRUE, !.pending = {}, !.starting = FALSE, !.active = None]
  BY FieldsTyped DEF Reaps
<1>2. [state EXCEPT !.closed = TRUE, !.pending = {}, !.starting = FALSE, !.active = None] \in StateSet
  BY FieldsTyped, StateSetters, ParkedSets, ClosesTyped DEF Models
<1>3. state' \in StateSet
  BY <1>1, <1>2, FieldsTyped
<1>4. mail' = << >>
  BY FieldsTyped DEF Reaps
<1>5. << >> \in Seq(Letters)
  BY AgentTyped, FieldsTyped, LettersTyped, SeqsTyped DEF Results
<1>6. mail' \in Seq(Letters)
  BY <1>4, <1>5, FieldsTyped
<1>7. agent' = [DeadAgent EXCEPT !.stream = << >>]
  BY FieldsTyped DEF Reaps
<1>8. [DeadAgent EXCEPT !.stream = << >>] \in AgentSet
  BY AgentTyped, AgentSetters, FieldsTyped, LettersTyped, SeqsTyped
<1>9. agent' \in AgentSet
  BY <1>7, <1>8, FieldsTyped
<1>10. out' = out \/ out' = out \o <<Event("failed", state.active, None)>>
         \/ out' = out \o <<Event("cancelled", state.active, None)>>
  BY FieldsTyped DEF Reaps, Emit
<1>11. /\ out \o <<Event("failed", state.active, None)>> \in Seq(EventSet)
       /\ out \o <<Event("cancelled", state.active, None)>> \in Seq(EventSet)
  BY EventsTyped, FactsTyped, ClosesTyped, RetractedOnce, FieldsTyped, SeqsTyped DEF Results
<1>12. out' \in Seq(EventSet)
  BY <1>10, <1>11, FieldsTyped
<1>13. LocalTyped'
  BY <1>3, <1>6, <1>9, <1>12 DEF LocalTyped, Reaps
<1>14. commands' = commands /\ call' = call
  BY DEF Reaps
<1>15. Thins(mail, mail', AskedOf)
  BY <1>4, MailThins, LettersTyped, Unasked, FieldsTyped
<1>16. agent'.asked = agent.asked /\ (agent'.stream = << >>)
  BY <1>7, AgentTyped, FieldsTyped DEF AgentSet, DeadAgent
<1>17. Thins(agent.stream, agent'.stream, AskedOf)
  BY <1>16, StreamThins, LettersTyped, Unasked, FieldsTyped
<1>18. Thins(commands, commands', AnswererOf)
  BY <1>14, CommandsThin, CommandsTyped, ThreadsAssumption, NoneAssumption
<1>19. state'.pending \subseteq state.pending
  BY <1>1, FieldsTyped DEF StateSet
<1>20. \A u \in Answers : call'[u] = call[u] \/ (call'[u].at = "failed" /\ call'[u].of = call[u].of)
  BY <1>14, FieldsTyped, ThreadsAssumption DEF CallSet, Calls
<1>21. Plain(<<Event("failed", state.active, None)>>) /\ Plain(<<Event("cancelled", state.active, None)>>)
  BY PlainShapes, PlainFacts, PlainJoined, EventsTyped, FieldsTyped DEF Results
<1>22. /\ ResolvesNothing(out \o <<Event("failed", state.active, None)>>)
       /\ ResolvesNothing(out \o <<Event("cancelled", state.active, None)>>)
  BY <1>21, PlainEmitted
<1>23. ResolvesNothing(out')
  BY <1>10, <1>22 DEF ResolvesNothing
<1>24. Quiet
  BY <1>15, <1>16, <1>17, <1>18, <1>19, <1>20, <1>23 DEF Quiet
<1> QED BY <1>13, <1>24

LEMMA InterruptsQuiet ==
  ASSUME LocalTyped, Interrupts
  PROVE  LocalTyped' /\ Quiet
<1>1. state' = state \/ state' = [state EXCEPT !.interrupted = TRUE]
  BY FieldsTyped DEF Interrupts
<1>2. [state EXCEPT !.interrupted = TRUE] \in StateSet
  BY FieldsTyped, StateSetters, ParkedSets, ClosesTyped DEF Models
<1>3. state' \in StateSet
  BY <1>1, <1>2, FieldsTyped
<1>4. out' = out \o << >> \/ out' = out \o <<Status("interrupted")>>
  BY FieldsTyped DEF Interrupts, Emit
<1>5. out \o << >> \in Seq(EventSet) /\ out \o <<Status("interrupted")>> \in Seq(EventSet)
  BY EventsTyped, FactsTyped, ClosesTyped, RetractedOnce, FieldsTyped, SeqsTyped DEF Results
<1>6. out' \in Seq(EventSet)
  BY <1>4, <1>5, FieldsTyped
<1>7. LocalTyped'
  BY <1>3, <1>6 DEF LocalTyped, Interrupts
<1>8. commands' = commands /\ mail' = mail /\ call' = call /\ agent' = agent
  BY DEF Interrupts
<1>9. Thins(mail, mail', AskedOf)
  BY <1>8, MailThins, LettersTyped, Unasked, FieldsTyped
<1>10. Thins(agent.stream, agent'.stream, AskedOf) /\ agent'.asked = agent.asked
  BY <1>8, StreamThins
<1>11. Thins(commands, commands', AnswererOf)
  BY <1>8, CommandsThin, CommandsTyped, ThreadsAssumption, NoneAssumption
<1>12. state'.pending \subseteq state.pending
  BY <1>1, FieldsTyped DEF StateSet
<1>13. \A u \in Answers : call'[u] = call[u] \/ (call'[u].at = "failed" /\ call'[u].of = call[u].of)
  BY <1>8, FieldsTyped, ThreadsAssumption DEF CallSet, Calls
<1>14. Plain(<< >>) /\ Plain(<<Status("interrupted")>>)
  BY PlainShapes, PlainFacts, PlainJoined, EventsTyped, FieldsTyped DEF Results
<1>15. ResolvesNothing(out \o << >>) /\ ResolvesNothing(out \o <<Status("interrupted")>>)
  BY <1>14, PlainEmitted
<1>16. ResolvesNothing(out')
  BY <1>4, <1>15 DEF ResolvesNothing
<1>17. Quiet
  BY <1>9, <1>10, <1>11, <1>12, <1>13, <1>16 DEF Quiet
<1> QED BY <1>7, <1>17

LEMMA DriverClosesQuiet ==
  ASSUME LocalTyped, DriverCloses
  PROVE  LocalTyped' /\ Quiet
<1>1. state' = AfterClose(state)
  BY FieldsTyped DEF DriverCloses
<1>2. AfterClose(state) \in StateSet
  BY FieldsTyped, StateSetters, ParkedSets, ClosesTyped DEF Models
<1>3. state' \in StateSet
  BY <1>1, <1>2, FieldsTyped
<1>4. commands' = << >>
  BY FieldsTyped DEF DriverCloses
<1>5. << >> \in Seq(CommandSet)
  BY FieldsTyped, SeqsTyped, CommandsTyped DEF Calls
<1>6. commands' \in Seq(CommandSet)
  BY <1>4, <1>5, FieldsTyped
<1>7. out' = out \o CloseFacts(state)
  BY FieldsTyped DEF DriverCloses, Emit
<1>8. out \o CloseFacts(state) \in Seq(EventSet)
  BY EventsTyped, FactsTyped, ClosesTyped, RetractedOnce, FieldsTyped, SeqsTyped DEF Results
<1>9. out' \in Seq(EventSet)
  BY <1>7, <1>8, FieldsTyped
<1>10. LocalTyped'
  BY <1>3, <1>6, <1>9 DEF LocalTyped, DriverCloses
<1>11. mail' = mail /\ call' = call /\ agent' = agent
  BY DEF DriverCloses
<1>12. Thins(mail, mail', AskedOf)
  BY <1>11, MailThins, LettersTyped, Unasked, FieldsTyped
<1>13. Thins(agent.stream, agent'.stream, AskedOf) /\ agent'.asked = agent.asked
  BY <1>11, StreamThins
<1>14. Thins(commands, commands', AnswererOf)
  BY <1>4, CommandsThin, CommandsTyped, ThreadsAssumption, NoneAssumption
<1>15. state'.pending \subseteq state.pending
  BY <1>1, FieldsTyped DEF StateSet, AfterClose
<1>16. \A u \in Answers : call'[u] = call[u] \/ (call'[u].at = "failed" /\ call'[u].of = call[u].of)
  BY <1>11, FieldsTyped, ThreadsAssumption DEF CallSet, Calls
<1>17. Plain(CloseFacts(state))
  BY PlainShapes, PlainFacts, PlainJoined, EventsTyped, FieldsTyped DEF Results
<1>18. ResolvesNothing(out \o CloseFacts(state))
  BY <1>17, PlainEmitted
<1>19. ResolvesNothing(out')
  BY <1>7, <1>18 DEF ResolvesNothing
<1>20. Quiet
  BY <1>12, <1>13, <1>14, <1>15, <1>16, <1>19 DEF Quiet
<1> QED BY <1>10, <1>20

LEMMA AgentTalksQuiet ==
  ASSUME LocalTyped, AgentTalks
  PROVE  LocalTyped' /\ Quiet
<1>1. /\ Turn \in Sends /\ agent.lines + 1 \in Nat
      /\ agent.stream \o Streamed(Mail("delta", Turn, None)) \in Seq(StreamLetters)
  BY FieldsTyped, SeqsTyped, NoneAssumption, LettersTyped
     DEF AgentTalks, MayTalk, Working, Turn, SaysOnly, Speaks, Streamed, Calls, Results
<1>2. mail' = mail \/ mail' = Append(mail, Mail("delta", Turn, None))
  BY <1>1, FieldsTyped DEF AgentTalks, MayTalk, Working, Turn, SaysOnly, Speaks, Streamed
<1>3. Append(mail, Mail("delta", Turn, None)) \in Seq(Letters)
  BY <1>1, AgentTyped, FieldsTyped, LettersTyped, SeqsTyped DEF Results
<1>4. mail' \in Seq(Letters)
  BY <1>2, <1>3, FieldsTyped
<1>5. agent' = [agent EXCEPT !.lines = @ + 1, !.stream = @ \o Streamed(Mail("delta", Turn, None))]
  BY <1>1, FieldsTyped DEF AgentTalks, MayTalk, Working, Turn, SaysOnly, Speaks, Streamed
<1>6. [agent EXCEPT !.lines = @ + 1, !.stream = @ \o Streamed(Mail("delta", Turn, None))] \in AgentSet
  BY <1>1, AgentTyped, AgentSetters, FieldsTyped, LettersTyped, SeqsTyped DEF Streamed
<1>7. agent' \in AgentSet
  BY <1>5, <1>6, FieldsTyped
<1>8. LocalTyped'
  BY <1>4, <1>7 DEF LocalTyped, AgentTalks, MayTalk, Working, Turn, SaysOnly, Speaks, Streamed
<1>9. state' = state /\ commands' = commands /\ call' = call /\ out' = out
  BY DEF AgentTalks, MayTalk, Working, Turn, SaysOnly, Speaks, Streamed
<1>10. Mail("delta", Turn, None) \in Letters /\ Mail("delta", Turn, None).what # "request"
  BY <1>1, AgentTyped, LettersTyped, FieldsTyped DEF Mail, Closed, Results
<1>11. Thins(mail, mail', AskedOf)
  BY <1>2, <1>1, <1>10, MailThins, LettersTyped, Unasked, FieldsTyped
<1>12. /\ agent'.asked = agent.asked
       /\ agent'.stream \in {agent.stream \o <<Mail("delta", Turn, None)>>, agent.stream \o << >>}
  BY <1>5, AgentTyped, FieldsTyped DEF AgentSet, DeadAgent, Streamed
<1>13. Mail("delta", Turn, None) \in StreamLetters /\ Mail("delta", Turn, None).what # "request"
  BY <1>1, <1>10, <1>5, LettersTyped, FieldsTyped DEF Mail
<1>14. agent.stream \o << >> = agent.stream
  BY FieldsTyped
<1>15. Thins(agent.stream, agent'.stream, AskedOf)
  BY <1>12, <1>1, <1>10, <1>13, <1>14, StreamThins, LettersTyped, Unasked, FieldsTyped, SeqsTyped
<1>16. Thins(commands, commands', AnswererOf)
  BY <1>9, <1>1, <1>10, <1>13, <1>14, CommandsThin, CommandsTyped, ThreadsAssumption, NoneAssumption
<1>17. state'.pending \subseteq state.pending
  BY <1>9, FieldsTyped DEF StateSet
<1>18. \A u \in Answers : call'[u] = call[u] \/ (call'[u].at = "failed" /\ call'[u].of = call[u].of)
  BY <1>9, <1>1, <1>10, <1>13, <1>14, FieldsTyped, ThreadsAssumption DEF CallSet, Calls
<1>19. ResolvesNothing(out')
  BY <1>9 DEF ResolvesNothing
<1>20. Quiet
  BY <1>11, <1>12, <1>15, <1>16, <1>17, <1>18, <1>19 DEF Quiet
<1> QED BY <1>8, <1>20

LEMMA AgentAsksTyped ==
  ASSUME LocalTyped, AgentAsks
  PROVE  LocalTyped'
<1>1. Turn \in Sends /\ agent.lines + 1 \in Nat /\ \A q \in Requests :
        agent.asked \cup {q} \in SUBSET Requests /\ agent.open \cup {q} \in SUBSET Requests
        /\ agent.stream \o Streamed(Mail("request", Turn, q)) \in Seq(StreamLetters)
  BY FieldsTyped, SeqsTyped, NoneAssumption, LettersTyped
     DEF AgentAsks, MayTalk, Working, Turn, SaysOnly, Speaks, Streamed, Calls, Results
<1>2. PICK q \in Requests : mail' = mail \/ mail' = Append(mail, Mail("request", Turn, q))
  BY <1>1, FieldsTyped DEF AgentAsks, MayTalk, Working, Turn, SaysOnly, Speaks, Streamed
<1>3. Append(mail, Mail("request", Turn, q)) \in Seq(Letters)
  BY <1>2, <1>1, AgentTyped, FieldsTyped, LettersTyped, SeqsTyped DEF Results
<1>4. mail' \in Seq(Letters)
  BY <1>2, <1>3, FieldsTyped
<1>5. PICK p \in Requests : agent' = [agent EXCEPT !.lines = @ + 1, !.asked = @ \cup {p},
        !.open = @ \cup {p}, !.stream = @ \o Streamed(Mail("request", Turn, p))]
  BY <1>1, FieldsTyped DEF AgentAsks, MayTalk, Working, Turn, SaysOnly, Speaks, Streamed
<1>6. [agent EXCEPT !.lines = @ + 1, !.asked = @ \cup {p}, !.open = @ \cup {p},
        !.stream = @ \o Streamed(Mail("request", Turn, p))] \in AgentSet
  BY <1>5, <1>1, AgentTyped, AgentSetters, FieldsTyped, LettersTyped, SeqsTyped DEF Streamed
<1>7. agent' \in AgentSet
  BY <1>5, <1>6, FieldsTyped
<1> QED BY <1>4, <1>7 DEF LocalTyped, AgentAsks, MayTalk, Working, Turn, SaysOnly, Speaks, Streamed

LEMMA AgentIsAnsweredQuiet ==
  ASSUME LocalTyped, AgentIsAnswered
  PROVE  LocalTyped' /\ Quiet
<1>1. Turn \in Sends
  BY FieldsTyped, SeqsTyped, NoneAssumption, LettersTyped
     DEF AgentIsAnswered, Working, Turn, SaysOnly, Calls, Results
<1>2. PICK p \in Requests : agent' = [agent EXCEPT !.open = @ \ {p},
        !.stream = Append(@, Mail("replied", Turn, p))]
  BY <1>1, FieldsTyped DEF AgentIsAnswered, Working, Turn, SaysOnly
<1>3. [agent EXCEPT !.open = @ \ {p}, !.stream = Append(@, Mail("replied", Turn, p))] \in AgentSet
  BY <1>2, <1>1, AgentTyped, AgentSetters, FieldsTyped, LettersTyped, SeqsTyped
<1>4. agent' \in AgentSet
  BY <1>2, <1>3, FieldsTyped
<1>5. LocalTyped'
  BY <1>4 DEF LocalTyped, AgentIsAnswered, Working, Turn, SaysOnly
<1>6. state' = state /\ commands' = commands /\ mail' = mail /\ call' = call /\ out' = out
  BY DEF AgentIsAnswered, Working, Turn, SaysOnly
<1>7. Thins(mail, mail', AskedOf)
  BY <1>6, <1>1, MailThins, LettersTyped, Unasked, FieldsTyped
<1>8. agent'.asked = agent.asked /\ (agent'.stream = Append(agent.stream, Mail("replied", Turn, p)))
  BY <1>2, AgentTyped, FieldsTyped DEF AgentSet, DeadAgent
<1>9. Mail("replied", Turn, p) \in StreamLetters /\ Mail("replied", Turn, p).what # "request"
  BY <1>1, <1>2, LettersTyped, FieldsTyped DEF Mail
<1>10. Thins(agent.stream, agent'.stream, AskedOf)
  BY <1>8, <1>1, <1>9, StreamThins, LettersTyped, Unasked, FieldsTyped
<1>11. Thins(commands, commands', AnswererOf)
  BY <1>6, <1>1, <1>9, CommandsThin, CommandsTyped, ThreadsAssumption, NoneAssumption
<1>12. state'.pending \subseteq state.pending
  BY <1>6, FieldsTyped DEF StateSet
<1>13. \A u \in Answers : call'[u] = call[u] \/ (call'[u].at = "failed" /\ call'[u].of = call[u].of)
  BY <1>6, <1>1, <1>9, FieldsTyped, ThreadsAssumption DEF CallSet, Calls
<1>14. ResolvesNothing(out')
  BY <1>6 DEF ResolvesNothing
<1>15. Quiet
  BY <1>7, <1>8, <1>10, <1>11, <1>12, <1>13, <1>14 DEF Quiet
<1> QED BY <1>5, <1>15

LEMMA AgentStatesQuiet ==
  ASSUME LocalTyped, AgentStates
  PROVE  LocalTyped' /\ Quiet
<1>1. agent.lines + 1 \in Nat
  BY FieldsTyped, SeqsTyped, NoneAssumption, LettersTyped DEF AgentStates, SaysOnly, Calls, Results
<1>2. agent' = [agent EXCEPT !.lines = @ + 1, !.stream = Append(@, Mail("idle", None, None))]
        \/ agent' = [agent EXCEPT !.lines = @ + 1, !.stream = Append(@, Mail("busy", None, None))]
  BY <1>1, FieldsTyped DEF AgentStates, SaysOnly
<1>3. /\ [agent EXCEPT !.lines = @ + 1, !.stream = Append(@, Mail("idle", None, None))] \in AgentSet
      /\ [agent EXCEPT !.lines = @ + 1, !.stream = Append(@, Mail("busy", None, None))] \in AgentSet
  BY <1>1, AgentTyped, AgentSetters, FieldsTyped, LettersTyped, SeqsTyped
<1>4. agent' \in AgentSet
  BY <1>2, <1>3, FieldsTyped
<1>5. LocalTyped'
  BY <1>4 DEF LocalTyped, AgentStates, SaysOnly
<1>6. state' = state /\ commands' = commands /\ mail' = mail /\ call' = call /\ out' = out
  BY DEF AgentStates, SaysOnly
<1>7. Thins(mail, mail', AskedOf)
  BY <1>6, <1>1, MailThins, LettersTyped, Unasked, FieldsTyped
<1>8. /\ agent'.asked = agent.asked
      /\ \/ agent'.stream = Append(agent.stream, Mail("idle", None, None))
         \/ agent'.stream = Append(agent.stream, Mail("busy", None, None))
  BY <1>2, AgentTyped, FieldsTyped DEF AgentSet, DeadAgent
<1>9. /\ Mail("idle", None, None) \in StreamLetters /\ Mail("idle", None, None).what # "request"
      /\ Mail("busy", None, None) \in StreamLetters /\ Mail("busy", None, None).what # "request"
  BY <1>1, <1>2, LettersTyped, FieldsTyped DEF Mail
<1>10. Thins(agent.stream, agent'.stream, AskedOf)
  BY <1>8, <1>1, <1>9, StreamThins, LettersTyped, Unasked, FieldsTyped
<1>11. Thins(commands, commands', AnswererOf)
  BY <1>6, <1>1, <1>9, CommandsThin, CommandsTyped, ThreadsAssumption, NoneAssumption
<1>12. state'.pending \subseteq state.pending
  BY <1>6, FieldsTyped DEF StateSet
<1>13. \A u \in Answers : call'[u] = call[u] \/ (call'[u].at = "failed" /\ call'[u].of = call[u].of)
  BY <1>6, <1>1, <1>9, FieldsTyped, ThreadsAssumption DEF CallSet, Calls
<1>14. ResolvesNothing(out')
  BY <1>6 DEF ResolvesNothing
<1>15. Quiet
  BY <1>7, <1>8, <1>10, <1>11, <1>12, <1>13, <1>14 DEF Quiet
<1> QED BY <1>5, <1>15

LEMMA AgentEndsQuiet ==
  ASSUME LocalTyped, AgentEnds
  PROVE  LocalTyped' /\ Quiet
<1>1. Turn \in Sends /\ Tail(agent.turns) \in Seq(Sends)
  BY FieldsTyped, SeqsTyped, NoneAssumption, LettersTyped
     DEF AgentEnds, Working, Turn, SaysOnly, Calls, Results
<1>2. PICK x \in Results : mail' = Append(mail, Mail("done", Turn, x))
  BY <1>1, FieldsTyped DEF AgentEnds, Working, Turn, SaysOnly
<1>3. Append(mail, Mail("done", Turn, x)) \in Seq(Letters)
  BY <1>2, <1>1, AgentTyped, FieldsTyped, LettersTyped, SeqsTyped DEF Results
<1>4. mail' \in Seq(Letters)
  BY <1>2, <1>3, FieldsTyped
<1>5. agent' = [agent EXCEPT !.turns = Tail(@), !.open = {}, !.interrupted = FALSE]
  BY <1>1, FieldsTyped DEF AgentEnds, Working, Turn, SaysOnly
<1>6. [agent EXCEPT !.turns = Tail(@), !.open = {}, !.interrupted = FALSE] \in AgentSet
  BY <1>1, AgentTyped, AgentSetters, FieldsTyped, LettersTyped, SeqsTyped
<1>7. agent' \in AgentSet
  BY <1>5, <1>6, FieldsTyped
<1>8. LocalTyped'
  BY <1>4, <1>7 DEF LocalTyped, AgentEnds, Working, Turn, SaysOnly
<1>9. state' = state /\ commands' = commands /\ call' = call /\ out' = out
  BY DEF AgentEnds, Working, Turn, SaysOnly
<1>10. Mail("done", Turn, x) \in Letters /\ Mail("done", Turn, x).what # "request"
  BY <1>2, <1>1, AgentTyped, LettersTyped, FieldsTyped DEF Mail, Closed, Results
<1>11. Thins(mail, mail', AskedOf)
  BY <1>2, <1>1, <1>10, MailThins, LettersTyped, Unasked, FieldsTyped
<1>12. agent'.asked = agent.asked /\ (agent'.stream = agent.stream)
  BY <1>5, AgentTyped, FieldsTyped DEF AgentSet, DeadAgent
<1>13. Thins(agent.stream, agent'.stream, AskedOf)
  BY <1>12, <1>1, <1>10, StreamThins, LettersTyped, Unasked, FieldsTyped
<1>14. Thins(commands, commands', AnswererOf)
  BY <1>9, <1>1, <1>10, CommandsThin, CommandsTyped, ThreadsAssumption, NoneAssumption
<1>15. state'.pending \subseteq state.pending
  BY <1>9, FieldsTyped DEF StateSet
<1>16. \A u \in Answers : call'[u] = call[u] \/ (call'[u].at = "failed" /\ call'[u].of = call[u].of)
  BY <1>9, <1>1, <1>10, FieldsTyped, ThreadsAssumption DEF CallSet, Calls
<1>17. ResolvesNothing(out')
  BY <1>9 DEF ResolvesNothing
<1>18. Quiet
  BY <1>11, <1>12, <1>13, <1>14, <1>15, <1>16, <1>17 DEF Quiet
<1> QED BY <1>8, <1>18

LEMMA AgentAcceptsQuiet ==
  ASSUME LocalTyped, AgentAccepts
  PROVE  LocalTyped' /\ Quiet
<1>1. Head(agent.offered) \in Sends /\ Tail(agent.offered) \in Seq(Sends)
  BY FieldsTyped, SeqsTyped, NoneAssumption, LettersTyped DEF AgentAccepts, SaysOnly, Calls, Results
<1>2. mail' = Append(mail, Mail("accepted", Head(agent.offered), None))
        \/ mail' = Append(mail, Mail("refused", Head(agent.offered), None))
  BY <1>1, FieldsTyped DEF AgentAccepts, SaysOnly
<1>3. /\ Append(mail, Mail("accepted", Head(agent.offered), None)) \in Seq(Letters)
      /\ Append(mail, Mail("refused", Head(agent.offered), None)) \in Seq(Letters)
  BY <1>1, AgentTyped, FieldsTyped, LettersTyped, SeqsTyped DEF Results
<1>4. mail' \in Seq(Letters)
  BY <1>2, <1>3, FieldsTyped
<1>5. agent' = [agent EXCEPT !.offered = Tail(@), !.turns = <<Head(agent.offered)>>]
        \/ agent' = [agent EXCEPT !.offered = Tail(@)]
  BY <1>1, FieldsTyped DEF AgentAccepts, SaysOnly
<1>6. /\ [agent EXCEPT !.offered = Tail(@), !.turns = <<Head(agent.offered)>>] \in AgentSet
      /\ [agent EXCEPT !.offered = Tail(@)] \in AgentSet
  BY <1>1, AgentTyped, AgentSetters, FieldsTyped, LettersTyped, SeqsTyped
<1>7. agent' \in AgentSet
  BY <1>5, <1>6, FieldsTyped
<1>8. LocalTyped'
  BY <1>4, <1>7 DEF LocalTyped, AgentAccepts, SaysOnly
<1>9. state' = state /\ commands' = commands /\ call' = call /\ out' = out
  BY DEF AgentAccepts, SaysOnly
<1>10. /\ Mail("accepted", Head(agent.offered), None) \in Letters
       /\ Mail("accepted", Head(agent.offered), None).what # "request"
       /\ Mail("refused", Head(agent.offered), None) \in Letters
       /\ Mail("refused", Head(agent.offered), None).what # "request"
  BY <1>1, AgentTyped, LettersTyped, FieldsTyped DEF Mail, Closed, Results
<1>11. Thins(mail, mail', AskedOf)
  BY <1>2, <1>1, <1>10, MailThins, LettersTyped, Unasked, FieldsTyped
<1>12. agent'.asked = agent.asked /\ (agent'.stream = agent.stream)
  BY <1>5, AgentTyped, FieldsTyped DEF AgentSet, DeadAgent
<1>13. Thins(agent.stream, agent'.stream, AskedOf)
  BY <1>12, <1>1, <1>10, StreamThins, LettersTyped, Unasked, FieldsTyped
<1>14. Thins(commands, commands', AnswererOf)
  BY <1>9, <1>1, <1>10, CommandsThin, CommandsTyped, ThreadsAssumption, NoneAssumption
<1>15. state'.pending \subseteq state.pending
  BY <1>9, FieldsTyped DEF StateSet
<1>16. \A u \in Answers : call'[u] = call[u] \/ (call'[u].at = "failed" /\ call'[u].of = call[u].of)
  BY <1>9, <1>1, <1>10, FieldsTyped, ThreadsAssumption DEF CallSet, Calls
<1>17. ResolvesNothing(out')
  BY <1>9 DEF ResolvesNothing
<1>18. Quiet
  BY <1>11, <1>12, <1>13, <1>14, <1>15, <1>16, <1>17 DEF Quiet
<1> QED BY <1>8, <1>18

LEMMA AgentConfiguresQuiet ==
  ASSUME LocalTyped, AgentConfigures
  PROVE  LocalTyped' /\ Quiet
<1>1. PICK t \in Selects : mail' = Append(mail, Mail("configured", None, t))
        \/ mail' = Append(mail, Mail("misconfigured", None, t))
  BY FieldsTyped DEF AgentConfigures, SaysOnly
<1>2. /\ Append(mail, Mail("configured", None, t)) \in Seq(Letters)
      /\ Append(mail, Mail("misconfigured", None, t)) \in Seq(Letters)
  BY <1>1, AgentTyped, FieldsTyped, LettersTyped, SeqsTyped DEF Results
<1>3. mail' \in Seq(Letters)
  BY <1>1, <1>2, FieldsTyped
<1>4. PICK m \in Selects : agent' = [agent EXCEPT !.config = @ \ {m}]
  BY FieldsTyped DEF AgentConfigures, SaysOnly
<1>5. [agent EXCEPT !.config = @ \ {m}] \in AgentSet
  BY <1>4, AgentTyped, AgentSetters, FieldsTyped, LettersTyped, SeqsTyped
<1>6. agent' \in AgentSet
  BY <1>4, <1>5, FieldsTyped
<1>7. LocalTyped'
  BY <1>3, <1>6 DEF LocalTyped, AgentConfigures, SaysOnly
<1>8. state' = state /\ commands' = commands /\ call' = call /\ out' = out
  BY DEF AgentConfigures, SaysOnly
<1>9. /\ Mail("configured", None, t) \in Letters /\ Mail("configured", None, t).what # "request"
      /\ Mail("misconfigured", None, t) \in Letters
      /\ Mail("misconfigured", None, t).what # "request"
  BY <1>1, AgentTyped, LettersTyped, FieldsTyped DEF Mail, Closed, Results
<1>10. Thins(mail, mail', AskedOf)
  BY <1>1, <1>9, MailThins, LettersTyped, Unasked, FieldsTyped
<1>11. agent'.asked = agent.asked /\ (agent'.stream = agent.stream)
  BY <1>4, AgentTyped, FieldsTyped DEF AgentSet, DeadAgent
<1>12. Thins(agent.stream, agent'.stream, AskedOf)
  BY <1>11, <1>9, StreamThins, LettersTyped, Unasked, FieldsTyped
<1>13. Thins(commands, commands', AnswererOf)
  BY <1>8, <1>9, CommandsThin, CommandsTyped, ThreadsAssumption, NoneAssumption
<1>14. state'.pending \subseteq state.pending
  BY <1>8, FieldsTyped DEF StateSet
<1>15. \A u \in Answers : call'[u] = call[u] \/ (call'[u].at = "failed" /\ call'[u].of = call[u].of)
  BY <1>8, <1>9, FieldsTyped, ThreadsAssumption DEF CallSet, Calls
<1>16. ResolvesNothing(out')
  BY <1>8 DEF ResolvesNothing
<1>17. Quiet
  BY <1>10, <1>11, <1>12, <1>13, <1>14, <1>15, <1>16 DEF Quiet
<1> QED BY <1>7, <1>17

LEMMA EventArrivesTyped ==
  ASSUME LocalTyped, EventArrives
  PROVE  LocalTyped'
<1>1. Head(agent.stream) \in Letters /\ Tail(agent.stream) \in Seq(StreamLetters)
  BY FieldsTyped, SeqsTyped, NoneAssumption, LettersTyped DEF EventArrives, SaysOnly, Calls, Results
<1>2. mail' = Append(mail, Head(agent.stream))
  BY <1>1, FieldsTyped DEF EventArrives, SaysOnly
<1>3. Append(mail, Head(agent.stream)) \in Seq(Letters)
  BY <1>1, AgentTyped, FieldsTyped, LettersTyped, SeqsTyped DEF Results
<1>4. mail' \in Seq(Letters)
  BY <1>2, <1>3, FieldsTyped
<1>5. agent' = [agent EXCEPT !.stream = Tail(@)]
  BY <1>1, FieldsTyped DEF EventArrives, SaysOnly
<1>6. [agent EXCEPT !.stream = Tail(@)] \in AgentSet
  BY <1>1, AgentTyped, AgentSetters, FieldsTyped, LettersTyped, SeqsTyped
<1>7. agent' \in AgentSet
  BY <1>5, <1>6, FieldsTyped
<1> QED BY <1>4, <1>7 DEF LocalTyped, EventArrives, SaysOnly

LEMMA AgentLeavesQuiet ==
  ASSUME LocalTyped, AgentLeaves
  PROVE  LocalTyped' /\ Quiet
<1>1. AgentDies
  BY FieldsTyped DEF AgentLeaves, SaysOnly
<1>2. mail' \in Seq(Letters)
  BY <1>1, AgentTyped, FieldsTyped, LettersTyped, SeqsTyped DEF Results
<1>3. AgentDies
  BY FieldsTyped DEF AgentLeaves, SaysOnly
<1>4. agent' \in AgentSet
  BY <1>3, AgentTyped, AgentSetters, FieldsTyped, LettersTyped, SeqsTyped
<1>5. LocalTyped'
  BY <1>2, <1>4 DEF LocalTyped, AgentLeaves, SaysOnly
<1>6. state' = state /\ commands' = commands /\ call' = call /\ out' = out
  BY DEF AgentLeaves, SaysOnly
<1>7. /\ Thins(mail, mail', AskedOf) /\ Thins(agent.stream, agent'.stream, AskedOf)
      /\ agent'.asked = agent.asked
  BY <1>1, DeadThins
<1>8. Thins(commands, commands', AnswererOf)
  BY <1>6, CommandsThin, CommandsTyped, ThreadsAssumption, NoneAssumption
<1>9. state'.pending \subseteq state.pending
  BY <1>6, FieldsTyped DEF StateSet
<1>10. \A u \in Answers : call'[u] = call[u] \/ (call'[u].at = "failed" /\ call'[u].of = call[u].of)
  BY <1>6, FieldsTyped, ThreadsAssumption DEF CallSet, Calls
<1>11. ResolvesNothing(out')
  BY <1>6 DEF ResolvesNothing
<1>12. Quiet
  BY <1>7, <1>8, <1>9, <1>10, <1>11 DEF Quiet
<1> QED BY <1>5, <1>12

-----------------------------------------------------------------------------
(* The steps of the Codex, ACP and OpenCode drivers, in the same way.       *)
LEMMA CodexStartTurnQuiet ==
  ASSUME LocalTyped, CodexStartTurn
  PROVE  LocalTyped' /\ Quiet
<1>1. TakesCommand(Sends) /\ Sends \subseteq Calls
  BY DEF CodexStartTurn, CodexTakesCommand, Calls
<1>2. /\ By \in Sends /\ By \in Calls /\ Tail(commands) \in Seq(CommandSet)
      /\ call[By].of \in Sends \cup Requests \cup Models \cup {None}
  BY <1>1, CommandTaken
<1>3. state' = state \/ state' = [state EXCEPT !.starting = FALSE]
  BY <1>2, FieldsTyped DEF CodexStartTurn, CodexTakesCommand, TakesCommand
<1>4. [state EXCEPT !.starting = FALSE] \in StateSet
  BY <1>2, FieldsTyped, StateSetters, ParkedSets, ClosesTyped DEF Models
<1>5. state' \in StateSet
  BY <1>3, <1>4, FieldsTyped
<1>6. commands' = Tail(commands)
  BY <1>2, FieldsTyped DEF CodexStartTurn, CodexTakesCommand, TakesCommand
<1>7. Tail(commands) \in Seq(CommandSet)
  BY <1>2, FieldsTyped, SeqsTyped, CommandsTyped DEF Calls
<1>8. commands' \in Seq(CommandSet)
  BY <1>6, <1>7, FieldsTyped
<1>9. flow' = flow \/ flow' = [flow EXCEPT !.rpcs = @ \cup {By}]
  BY <1>2, FieldsTyped DEF CodexStartTurn, CodexTakesCommand, TakesCommand
<1>10. [flow EXCEPT !.rpcs = @ \cup {By}] \in FlowSet
  BY <1>2, FieldsTyped, FlowSetters
<1>11. flow' \in FlowSet
  BY <1>9, <1>10, FieldsTyped
<1>12. call' = call \/ call' = [call EXCEPT ![By].at = "failed"]
  BY <1>2, FieldsTyped DEF CodexStartTurn, CodexTakesCommand, TakesCommand, Replied
<1>13. [call EXCEPT ![By].at = "failed"] \in [Calls -> CallSet]
  BY <1>2, CallsTyped, FieldsTyped DEF Stages, Models
<1>14. call' \in [Calls -> CallSet]
  BY <1>12, <1>13, FieldsTyped
<1>15. agent' = agent \/ agent' = [agent EXCEPT !.offered = Append(@, By)]
  BY <1>2, FieldsTyped DEF CodexStartTurn, CodexTakesCommand, TakesCommand
<1>16. [agent EXCEPT !.offered = Append(@, By)] \in AgentSet
  BY <1>2, AgentTyped, AgentSetters, FieldsTyped, LettersTyped, SeqsTyped
<1>17. agent' \in AgentSet
  BY <1>15, <1>16, FieldsTyped
<1>18. LocalTyped'
  BY <1>5, <1>8, <1>11, <1>14, <1>17 DEF LocalTyped, CodexStartTurn, CodexTakesCommand, TakesCommand
<1>19. mail' = mail /\ out' = out
  BY DEF CodexStartTurn, CodexTakesCommand, TakesCommand
<1>20. Thins(mail, mail', AskedOf)
  BY <1>19, <1>2, MailThins, LettersTyped, Unasked, FieldsTyped
<1>21. agent'.asked = agent.asked /\ (agent'.stream = agent.stream)
  BY <1>15, AgentTyped, FieldsTyped DEF AgentSet, DeadAgent
<1>22. Thins(agent.stream, agent'.stream, AskedOf)
  BY <1>21, <1>2, StreamThins, LettersTyped, Unasked, FieldsTyped
<1>23. Thins(commands, commands', AnswererOf)
  BY <1>6, <1>2, CommandsThin, CommandsTyped, ThreadsAssumption, NoneAssumption, CommandTaken
<1>24. state'.pending \subseteq state.pending
  BY <1>3, FieldsTyped DEF StateSet
<1>25. \A u \in Answers : call'[u] = call[u] \/ (call'[u].at = "failed" /\ call'[u].of = call[u].of)
  BY <1>12, <1>2, FieldsTyped, ThreadsAssumption DEF CallSet, Calls
<1>26. ResolvesNothing(out')
  BY <1>19 DEF ResolvesNothing
<1>27. Quiet
  BY <1>20, <1>21, <1>22, <1>23, <1>24, <1>25, <1>26 DEF Quiet
<1> QED BY <1>18, <1>27

LEMMA CodexTurnAcceptedQuiet ==
  ASSUME LocalTyped, CodexTurnAccepted
  PROVE  LocalTyped' /\ Quiet
<1>0. /\ [flow EXCEPT !.rpcs = @ \ {Letter.run}] \in FlowSet
      /\ [flow EXCEPT !.rpcs = @ \ {Letter.run}].orphans = flow.orphans
      /\ (Letter.run \in Sends => call[Letter.run].of \in Sends \cup Requests \cup Models \cup {None})
  <2>1. flow.rpcs \ {Letter.run} \in SUBSET (Sends \cup Selects)
    BY FieldsTyped
  <2>2. [flow EXCEPT !.rpcs = @ \ {Letter.run}] \in FlowSet
    BY <2>1, FieldsTyped, FlowSetters
  <2>3. [flow EXCEPT !.rpcs = @ \ {Letter.run}].orphans = flow.orphans
    BY FieldsTyped DEF FlowSet
  <2>4. Letter.run \in Sends => Letter.run \in Calls
    BY DEF Calls
  <2> QED BY <2>2, <2>3, <2>4, FieldsTyped
<1>1. TakesMail({"accepted"})
  BY DEF CodexTurnAccepted, CodexTakesMail
<1>2. Letter \in Letters /\ Tail(mail) \in Seq(Letters) /\ Letter.run \in Sends
  BY <1>1, LetterTaken
<1>3. state' = [state EXCEPT !.starting = FALSE, !.active = Letter.run]
        \/ state' = [state EXCEPT !.starting = FALSE, !.active = None]
  BY <1>2, FieldsTyped DEF CodexTurnAccepted, CodexTakesMail, TakesMail
<1>4. /\ [state EXCEPT !.starting = FALSE, !.active = Letter.run] \in StateSet
      /\ [state EXCEPT !.starting = FALSE, !.active = None] \in StateSet
  BY <1>2, FieldsTyped, StateSetters, ParkedSets, ClosesTyped DEF Models
<1>5. state' \in StateSet
  BY <1>3, <1>4, FieldsTyped
<1>6. mail' = Tail(mail)
  BY <1>2, FieldsTyped DEF CodexTurnAccepted, CodexTakesMail, TakesMail
<1>7. Tail(mail) \in Seq(Letters)
  BY <1>2, AgentTyped, FieldsTyped, LettersTyped, SeqsTyped DEF Results
<1>8. mail' \in Seq(Letters)
  BY <1>6, <1>7, FieldsTyped
<1>9. flow' = [[flow EXCEPT !.rpcs = @ \ {Letter.run}] EXCEPT !.run = Letter.run, !.open = FALSE]
        \/ flow' = [[flow EXCEPT !.rpcs = @ \ {Letter.run}] EXCEPT !.orphans = @ \cup {Letter.run}]
  BY <1>2, FieldsTyped DEF CodexTurnAccepted, CodexTakesMail, TakesMail
<1>10. /\ [[flow EXCEPT !.rpcs = @ \ {Letter.run}] EXCEPT !.run = Letter.run, !.open = FALSE] \in FlowSet
       /\ [[flow EXCEPT !.rpcs = @ \ {Letter.run}] EXCEPT !.orphans = @ \cup {Letter.run}] \in FlowSet
  BY <1>2, <1>0, FieldsTyped, FlowSetters
<1>11. flow' \in FlowSet
  BY <1>9, <1>10, FieldsTyped
<1>12. call' = call \/ call' = [call EXCEPT ![Letter.run].at = "ok"]
  BY <1>2, FieldsTyped DEF CodexTurnAccepted, CodexTakesMail, TakesMail, Replied
<1>13. [call EXCEPT ![Letter.run].at = "ok"] \in [Calls -> CallSet]
  BY <1>2, CallsTyped, FieldsTyped DEF Stages, Models
<1>14. call' \in [Calls -> CallSet]
  BY <1>12, <1>13, FieldsTyped
<1>15. agent' = agent \/ agent' = [agent EXCEPT !.interrupted = @
         \/ (agent.turns # << >> /\ Turn = Letter.run)]
  BY <1>2, FieldsTyped DEF CodexTurnAccepted, CodexTakesMail, TakesMail
<1>16. [agent EXCEPT !.interrupted = @ \/ (agent.turns # << >> /\ Turn = Letter.run)] \in AgentSet
  BY <1>2, AgentTyped, AgentSetters, FieldsTyped, LettersTyped, SeqsTyped
<1>17. agent' \in AgentSet
  BY <1>15, <1>16, FieldsTyped
<1>18. out' = out \/ out' = out \o <<Event("started", Letter.run, call[Letter.run].of),
         Status("working")>>
  BY <1>2, FieldsTyped DEF CodexTurnAccepted, CodexTakesMail, TakesMail, Emit
<1>19. out \o <<Event("started", Letter.run, call[Letter.run].of), Status("working")>> \in Seq(EventSet)
  BY <1>2, <1>0, EventsTyped, FactsTyped, ClosesTyped, RetractedOnce, FieldsTyped, SeqsTyped DEF Results
<1>20. out' \in Seq(EventSet)
  BY <1>18, <1>19, FieldsTyped
<1>21. LocalTyped'
  BY <1>5, <1>8, <1>11, <1>14, <1>17, <1>20 DEF LocalTyped, CodexTurnAccepted, CodexTakesMail, TakesMail
<1>22. commands' = commands
  BY DEF CodexTurnAccepted, CodexTakesMail, TakesMail
<1>23. Thins(mail, mail', AskedOf)
  BY <1>6, <1>2, MailThins, LettersTyped, Unasked, FieldsTyped
<1>24. agent'.asked = agent.asked /\ (agent'.stream = agent.stream)
  BY <1>15, AgentTyped, FieldsTyped DEF AgentSet, DeadAgent
<1>25. Thins(agent.stream, agent'.stream, AskedOf)
  BY <1>24, <1>2, StreamThins, LettersTyped, Unasked, FieldsTyped
<1>26. Thins(commands, commands', AnswererOf)
  BY <1>22, <1>2, CommandsThin, CommandsTyped, ThreadsAssumption, NoneAssumption
<1>27. state'.pending \subseteq state.pending
  BY <1>3, FieldsTyped DEF StateSet
<1>28. \A u \in Answers : call'[u] = call[u] \/ (call'[u].at = "failed" /\ call'[u].of = call[u].of)
  BY <1>12, <1>2, FieldsTyped, ThreadsAssumption DEF CallSet, Calls
<1>29. Plain(<<Event("started", Letter.run, call[Letter.run].of), Status("working")>>)
  BY <1>2, <1>0, PlainShapes, PlainFacts, PlainJoined, EventsTyped, FieldsTyped DEF Results
<1>30. ResolvesNothing(out \o <<Event("started", Letter.run, call[Letter.run].of), Status("working")>>)
  BY <1>29, PlainEmitted
<1>31. ResolvesNothing(out')
  BY <1>18, <1>30 DEF ResolvesNothing
<1>32. Quiet
  BY <1>23, <1>24, <1>25, <1>26, <1>27, <1>28, <1>31 DEF Quiet
<1> QED BY <1>21, <1>32

LEMMA CodexTurnRefusedQuiet ==
  ASSUME LocalTyped, CodexTurnRefused
  PROVE  LocalTyped' /\ Quiet
<1>1. TakesMail({"refused"})
  BY DEF CodexTurnRefused, CodexTakesMail
<1>2. Letter \in Letters /\ Tail(mail) \in Seq(Letters) /\ Letter.run \in Sends
  BY <1>1, LetterTaken
<1>3. state' = [state EXCEPT !.starting = FALSE]
  BY <1>2, FieldsTyped DEF CodexTurnRefused, CodexTakesMail, TakesMail
<1>4. [state EXCEPT !.starting = FALSE] \in StateSet
  BY <1>2, FieldsTyped, StateSetters, ParkedSets, ClosesTyped DEF Models
<1>5. state' \in StateSet
  BY <1>3, <1>4, FieldsTyped
<1>6. mail' = Tail(mail)
  BY <1>2, FieldsTyped DEF CodexTurnRefused, CodexTakesMail, TakesMail
<1>7. Tail(mail) \in Seq(Letters)
  BY <1>2, AgentTyped, FieldsTyped, LettersTyped, SeqsTyped DEF Results
<1>8. mail' \in Seq(Letters)
  BY <1>6, <1>7, FieldsTyped
<1>9. flow' = [flow EXCEPT !.rpcs = @ \ {Letter.run}]
  BY <1>2, FieldsTyped DEF CodexTurnRefused, CodexTakesMail, TakesMail
<1>10. [flow EXCEPT !.rpcs = @ \ {Letter.run}] \in FlowSet
  BY <1>2, FieldsTyped, FlowSetters
<1>11. flow' \in FlowSet
  BY <1>9, <1>10, FieldsTyped
<1>12. call' = call \/ call' = [call EXCEPT ![Letter.run].at = "failed"]
  BY <1>2, FieldsTyped DEF CodexTurnRefused, CodexTakesMail, TakesMail, Replied
<1>13. [call EXCEPT ![Letter.run].at = "failed"] \in [Calls -> CallSet]
  BY <1>2, CallsTyped, FieldsTyped DEF Stages, Models
<1>14. call' \in [Calls -> CallSet]
  BY <1>12, <1>13, FieldsTyped
<1>15. LocalTyped'
  BY <1>5, <1>8, <1>11, <1>14 DEF LocalTyped, CodexTurnRefused, CodexTakesMail, TakesMail
<1>16. commands' = commands /\ agent' = agent /\ out' = out
  BY DEF CodexTurnRefused, CodexTakesMail, TakesMail
<1>17. Thins(mail, mail', AskedOf)
  BY <1>6, <1>2, MailThins, LettersTyped, Unasked, FieldsTyped
<1>18. Thins(agent.stream, agent'.stream, AskedOf) /\ agent'.asked = agent.asked
  BY <1>16, StreamThins
<1>19. Thins(commands, commands', AnswererOf)
  BY <1>16, <1>2, CommandsThin, CommandsTyped, ThreadsAssumption, NoneAssumption
<1>20. state'.pending \subseteq state.pending
  BY <1>3, FieldsTyped DEF StateSet
<1>21. \A u \in Answers : call'[u] = call[u] \/ (call'[u].at = "failed" /\ call'[u].of = call[u].of)
  BY <1>12, <1>2, FieldsTyped, ThreadsAssumption DEF CallSet, Calls
<1>22. ResolvesNothing(out')
  BY <1>16 DEF ResolvesNothing
<1>23. Quiet
  BY <1>17, <1>18, <1>19, <1>20, <1>21, <1>22 DEF Quiet
<1> QED BY <1>15, <1>23

LEMMA CodexAnswerTyped ==
  ASSUME LocalTyped, Ledger, CodexAnswer
  PROVE  LocalTyped'
<1>q. call[By].of \in Requests
  <2>1. TakesCommand(Answers)
    BY DEF CodexAnswer, CodexTakesCommand
  <2> QED BY <2>1, AnswerCommand
<1>1. TakesCommand(Answers) /\ Answers \subseteq Calls
  BY DEF CodexAnswer, CodexTakesCommand, Calls
<1>2. /\ By \in Answers /\ By \in Calls /\ Tail(commands) \in Seq(CommandSet)
      /\ call[By].of \in Sends \cup Requests \cup Models \cup {None}
  BY <1>1, CommandTaken
<1>3. commands' = Tail(commands)
  BY <1>2, FieldsTyped DEF CodexAnswer, CodexTakesCommand, TakesCommand
<1>4. Tail(commands) \in Seq(CommandSet)
  BY <1>2, FieldsTyped, SeqsTyped, CommandsTyped DEF Calls
<1>5. commands' \in Seq(CommandSet)
  BY <1>3, <1>4, FieldsTyped
<1>6. call' = call \/ call' = [call EXCEPT ![By].at = "ok"] \/ call' = [call EXCEPT ![By].at = "failed"]
  BY <1>2, FieldsTyped DEF CodexAnswer, CodexTakesCommand, TakesCommand, Replied
<1>7. /\ [call EXCEPT ![By].at = "ok"] \in [Calls -> CallSet]
      /\ [call EXCEPT ![By].at = "failed"] \in [Calls -> CallSet]
  BY <1>2, CallsTyped, FieldsTyped DEF Stages, Models
<1>8. call' \in [Calls -> CallSet]
  BY <1>6, <1>7, FieldsTyped
<1>9. agent' = agent \/ agent' = [agent EXCEPT !.open = @ \ {call[By].of}]
  BY <1>2, FieldsTyped DEF CodexAnswer, CodexTakesCommand, TakesCommand
<1>10. [agent EXCEPT !.open = @ \ {call[By].of}] \in AgentSet
  BY <1>2, AgentTyped, AgentSetters, FieldsTyped, LettersTyped, SeqsTyped
<1>11. agent' \in AgentSet
  BY <1>9, <1>10, FieldsTyped
<1>12. out' = out \/ out' = out \o <<Event("resolved", None, call[By].of), Status("working")>>
  BY <1>2, FieldsTyped DEF CodexAnswer, CodexTakesCommand, TakesCommand, Emit
<1>13. out \o <<Event("resolved", None, call[By].of), Status("working")>> \in Seq(EventSet)
  <2>1. <<Event("resolved", None, call[By].of), Status("working")>> \in Seq(EventSet)
    BY <1>q, EmittedKeys
  <2> QED BY <2>1, FactsTyped, FieldsTyped, SeqsTyped
<1>14. out' \in Seq(EventSet)
  BY <1>12, <1>13, FieldsTyped
<1> QED BY <1>5, <1>8, <1>11, <1>14 DEF LocalTyped, CodexAnswer, CodexTakesCommand, TakesCommand

LEMMA AcpAnswerTyped ==
  ASSUME LocalTyped, Ledger, AcpAnswer
  PROVE  LocalTyped'
<1>q. call[By].of \in Requests
  <2>1. TakesCommand(Answers)
    BY DEF AcpAnswer, AcpTakesCommand
  <2> QED BY <2>1, AnswerCommand
<1>1. TakesCommand(Answers) /\ Answers \subseteq Calls
  BY DEF AcpAnswer, AcpTakesCommand, Calls
<1>2. /\ By \in Answers /\ By \in Calls /\ Tail(commands) \in Seq(CommandSet)
      /\ call[By].of \in Sends \cup Requests \cup Models \cup {None}
  BY <1>1, CommandTaken
<1>3. commands' = Tail(commands)
  BY <1>2, FieldsTyped DEF AcpAnswer, AcpTakesCommand, TakesCommand
<1>4. Tail(commands) \in Seq(CommandSet)
  BY <1>2, FieldsTyped, SeqsTyped, CommandsTyped DEF Calls
<1>5. commands' \in Seq(CommandSet)
  BY <1>3, <1>4, FieldsTyped
<1>6. call' = call \/ call' = [call EXCEPT ![By].at = "ok"] \/ call' = [call EXCEPT ![By].at = "failed"]
  BY <1>2, FieldsTyped DEF AcpAnswer, AcpTakesCommand, TakesCommand, Replied
<1>7. /\ [call EXCEPT ![By].at = "ok"] \in [Calls -> CallSet]
      /\ [call EXCEPT ![By].at = "failed"] \in [Calls -> CallSet]
  BY <1>2, CallsTyped, FieldsTyped DEF Stages, Models
<1>8. call' \in [Calls -> CallSet]
  BY <1>6, <1>7, FieldsTyped
<1>9. agent' = agent \/ agent' = [agent EXCEPT !.open = @ \ {call[By].of}]
  BY <1>2, FieldsTyped DEF AcpAnswer, AcpTakesCommand, TakesCommand
<1>10. [agent EXCEPT !.open = @ \ {call[By].of}] \in AgentSet
  BY <1>2, AgentTyped, AgentSetters, FieldsTyped, LettersTyped, SeqsTyped
<1>11. agent' \in AgentSet
  BY <1>9, <1>10, FieldsTyped
<1>12. out' = out \/ out' = out \o <<Event("resolved", None, call[By].of), Status("working")>>
  BY <1>2, FieldsTyped DEF AcpAnswer, AcpTakesCommand, TakesCommand, Emit
<1>13. out \o <<Event("resolved", None, call[By].of), Status("working")>> \in Seq(EventSet)
  <2>1. <<Event("resolved", None, call[By].of), Status("working")>> \in Seq(EventSet)
    BY <1>q, EmittedKeys
  <2> QED BY <2>1, FactsTyped, FieldsTyped, SeqsTyped
<1>14. out' \in Seq(EventSet)
  BY <1>12, <1>13, FieldsTyped
<1> QED BY <1>5, <1>8, <1>11, <1>14 DEF LocalTyped, AcpAnswer, AcpTakesCommand, TakesCommand

LEMMA CodexInterruptQuiet ==
  ASSUME LocalTyped, CodexInterrupt
  PROVE  LocalTyped' /\ Quiet
<1>1. TakesCommand(Cancels) /\ Cancels \subseteq Calls
  BY DEF CodexInterrupt, CodexTakesCommand, Calls
<1>2. /\ By \in Cancels /\ By \in Calls /\ Tail(commands) \in Seq(CommandSet)
      /\ call[By].of \in Sends \cup Requests \cup Models \cup {None}
  BY <1>1, CommandTaken
<1>3. commands' = Tail(commands)
  BY <1>2, FieldsTyped DEF CodexInterrupt, CodexTakesCommand, TakesCommand
<1>4. Tail(commands) \in Seq(CommandSet)
  BY <1>2, FieldsTyped, SeqsTyped, CommandsTyped DEF Calls
<1>5. commands' \in Seq(CommandSet)
  BY <1>3, <1>4, FieldsTyped
<1>6. call' = call \/ call' = [call EXCEPT ![By].at = "ok"] \/ call' = [call EXCEPT ![By].at = "failed"]
  BY <1>2, FieldsTyped DEF CodexInterrupt, CodexTakesCommand, TakesCommand, Replied
<1>7. /\ [call EXCEPT ![By].at = "ok"] \in [Calls -> CallSet]
      /\ [call EXCEPT ![By].at = "failed"] \in [Calls -> CallSet]
  BY <1>2, CallsTyped, FieldsTyped DEF Stages, Models
<1>8. call' \in [Calls -> CallSet]
  BY <1>6, <1>7, FieldsTyped
<1>9. agent' = agent \/ agent' = [agent EXCEPT !.interrupted = @
        \/ (agent.turns # << >> /\ Turn = call[By].of)]
  BY <1>2, FieldsTyped DEF CodexInterrupt, CodexTakesCommand, TakesCommand
<1>10. [agent EXCEPT !.interrupted = @ \/ (agent.turns # << >> /\ Turn = call[By].of)] \in AgentSet
  BY <1>2, AgentTyped, AgentSetters, FieldsTyped, LettersTyped, SeqsTyped
<1>11. agent' \in AgentSet
  BY <1>9, <1>10, FieldsTyped
<1>12. LocalTyped'
  BY <1>5, <1>8, <1>11 DEF LocalTyped, CodexInterrupt, CodexTakesCommand, TakesCommand
<1>13. state' = state /\ mail' = mail /\ out' = out
  BY DEF CodexInterrupt, CodexTakesCommand, TakesCommand
<1>14. Thins(mail, mail', AskedOf)
  BY <1>13, <1>2, MailThins, LettersTyped, Unasked, FieldsTyped
<1>15. agent'.asked = agent.asked /\ (agent'.stream = agent.stream)
  BY <1>9, AgentTyped, FieldsTyped DEF AgentSet, DeadAgent
<1>16. Thins(agent.stream, agent'.stream, AskedOf)
  BY <1>15, <1>2, StreamThins, LettersTyped, Unasked, FieldsTyped
<1>17. Thins(commands, commands', AnswererOf)
  BY <1>3, <1>2, CommandsThin, CommandsTyped, ThreadsAssumption, NoneAssumption, CommandTaken
<1>18. state'.pending \subseteq state.pending
  BY <1>13, FieldsTyped DEF StateSet
<1>19. \A u \in Answers : call'[u] = call[u] \/ (call'[u].at = "failed" /\ call'[u].of = call[u].of)
  BY <1>6, <1>2, FieldsTyped, ThreadsAssumption DEF CallSet, Calls
<1>20. ResolvesNothing(out')
  BY <1>13 DEF ResolvesNothing
<1>21. Quiet
  BY <1>14, <1>15, <1>16, <1>17, <1>18, <1>19, <1>20 DEF Quiet
<1> QED BY <1>12, <1>21

LEMMA CodexServerRequestTyped ==
  ASSUME LocalTyped, CodexServerRequest
  PROVE  LocalTyped'
<1>1. TakesMail({"request"})
  BY DEF CodexServerRequest, CodexTakesMail
<1>2. Letter \in Letters /\ Tail(mail) \in Seq(Letters) /\ Letter.of \in Requests
  BY <1>1, LetterTaken
<1>3. state' = state \/ state' = [state EXCEPT !.pending = @ \cup {Letter.of}]
  BY <1>2, FieldsTyped DEF CodexServerRequest, CodexTakesMail, TakesMail
<1>4. [state EXCEPT !.pending = @ \cup {Letter.of}] \in StateSet
  BY <1>2, FieldsTyped, StateSetters, ParkedSets, ClosesTyped DEF Models
<1>5. state' \in StateSet
  BY <1>3, <1>4, FieldsTyped
<1>6. mail' = Tail(mail)
  BY <1>2, FieldsTyped DEF CodexServerRequest, CodexTakesMail, TakesMail
<1>7. Tail(mail) \in Seq(Letters)
  BY <1>2, AgentTyped, FieldsTyped, LettersTyped, SeqsTyped DEF Results
<1>8. mail' \in Seq(Letters)
  BY <1>6, <1>7, FieldsTyped
<1>9. agent' = agent \/ agent' = [agent EXCEPT !.open = @ \ {Letter.of}]
  BY <1>2, FieldsTyped DEF CodexServerRequest, CodexTakesMail, TakesMail
<1>10. [agent EXCEPT !.open = @ \ {Letter.of}] \in AgentSet
  BY <1>2, AgentTyped, AgentSetters, FieldsTyped, LettersTyped, SeqsTyped
<1>11. agent' \in AgentSet
  BY <1>9, <1>10, FieldsTyped
<1>12. out' = out \/ out' = out \o Offered(Letter.of)
  BY <1>2, FieldsTyped DEF CodexServerRequest, CodexTakesMail, TakesMail, Emit
<1>13. out \o Offered(Letter.of) \in Seq(EventSet)
  BY <1>2, EventsTyped, FactsTyped, ClosesTyped, RetractedOnce, FieldsTyped, SeqsTyped DEF Results
<1>14. out' \in Seq(EventSet)
  BY <1>12, <1>13, FieldsTyped
<1> QED BY <1>5, <1>8, <1>11, <1>14 DEF LocalTyped, CodexServerRequest, CodexTakesMail, TakesMail

LEMMA CodexOrphanNotifiedQuiet ==
  ASSUME LocalTyped, CodexOrphanNotified
  PROVE  LocalTyped' /\ Quiet
<1>1. TakesMail({"delta", "done"})
  BY DEF CodexOrphanNotified, CodexTakesMail
<1>2. Letter \in Letters /\ Tail(mail) \in Seq(Letters) /\ Letter.run \in Sends
  BY <1>1, LetterTaken
<1>3. mail' = Tail(mail)
  BY <1>2, FieldsTyped DEF CodexOrphanNotified, CodexTakesMail, TakesMail
<1>4. Tail(mail) \in Seq(Letters)
  BY <1>2, AgentTyped, FieldsTyped, LettersTyped, SeqsTyped DEF Results
<1>5. mail' \in Seq(Letters)
  BY <1>3, <1>4, FieldsTyped
<1>6. flow' = [flow EXCEPT !.orphans = @ \ {Letter.run}]
  BY <1>2, FieldsTyped DEF CodexOrphanNotified, CodexTakesMail, TakesMail
<1>7. [flow EXCEPT !.orphans = @ \ {Letter.run}] \in FlowSet
  BY <1>2, FieldsTyped, FlowSetters
<1>8. flow' \in FlowSet
  BY <1>6, <1>7, FieldsTyped
<1>9. LocalTyped'
  BY <1>5, <1>8 DEF LocalTyped, CodexOrphanNotified, CodexTakesMail, TakesMail
<1>10. state' = state /\ commands' = commands /\ call' = call /\ agent' = agent /\ out' = out
  BY DEF CodexOrphanNotified, CodexTakesMail, TakesMail
<1>11. Thins(mail, mail', AskedOf)
  BY <1>3, <1>2, MailThins, LettersTyped, Unasked, FieldsTyped
<1>12. Thins(agent.stream, agent'.stream, AskedOf) /\ agent'.asked = agent.asked
  BY <1>10, StreamThins
<1>13. Thins(commands, commands', AnswererOf)
  BY <1>10, <1>2, CommandsThin, CommandsTyped, ThreadsAssumption, NoneAssumption
<1>14. state'.pending \subseteq state.pending
  BY <1>10, FieldsTyped DEF StateSet
<1>15. \A u \in Answers : call'[u] = call[u] \/ (call'[u].at = "failed" /\ call'[u].of = call[u].of)
  BY <1>10, <1>2, FieldsTyped, ThreadsAssumption DEF CallSet, Calls
<1>16. ResolvesNothing(out')
  BY <1>10 DEF ResolvesNothing
<1>17. Quiet
  BY <1>11, <1>12, <1>13, <1>14, <1>15, <1>16 DEF Quiet
<1> QED BY <1>9, <1>17

LEMMA CodexNoiseQuiet ==
  ASSUME LocalTyped, CodexNoise
  PROVE  LocalTyped' /\ Quiet
<1>1. TakesMail({"delta", "done"})
  BY DEF CodexNoise, CodexTakesMail
<1>2. Letter \in Letters /\ Tail(mail) \in Seq(Letters) /\ Letter.run \in Sends
  BY <1>1, LetterTaken
<1>3. mail' = Tail(mail)
  BY <1>2, FieldsTyped DEF CodexNoise, CodexTakesMail, TakesMail
<1>4. Tail(mail) \in Seq(Letters)
  BY <1>2, AgentTyped, FieldsTyped, LettersTyped, SeqsTyped DEF Results
<1>5. mail' \in Seq(Letters)
  BY <1>3, <1>4, FieldsTyped
<1>6. LocalTyped'
  BY <1>5 DEF LocalTyped, CodexNoise, CodexTakesMail, TakesMail
<1>7. state' = state /\ commands' = commands /\ call' = call /\ agent' = agent /\ out' = out
  BY DEF CodexNoise, CodexTakesMail, TakesMail
<1>8. Thins(mail, mail', AskedOf)
  BY <1>3, <1>2, MailThins, LettersTyped, Unasked, FieldsTyped
<1>9. Thins(agent.stream, agent'.stream, AskedOf) /\ agent'.asked = agent.asked
  BY <1>7, StreamThins
<1>10. Thins(commands, commands', AnswererOf)
  BY <1>7, <1>2, CommandsThin, CommandsTyped, ThreadsAssumption, NoneAssumption
<1>11. state'.pending \subseteq state.pending
  BY <1>7, FieldsTyped DEF StateSet
<1>12. \A u \in Answers : call'[u] = call[u] \/ (call'[u].at = "failed" /\ call'[u].of = call[u].of)
  BY <1>7, <1>2, FieldsTyped, ThreadsAssumption DEF CallSet, Calls
<1>13. ResolvesNothing(out')
  BY <1>7 DEF ResolvesNothing
<1>14. Quiet
  BY <1>8, <1>9, <1>10, <1>11, <1>12, <1>13 DEF Quiet
<1> QED BY <1>6, <1>14

LEMMA CodexDeltaQuiet ==
  ASSUME LocalTyped, CodexDelta
  PROVE  LocalTyped' /\ Quiet
<1>1. TakesMail({"delta"})
  BY DEF CodexDelta, CodexTakesMail
<1>2. Letter \in Letters /\ Tail(mail) \in Seq(Letters) /\ Letter.run \in Sends
  BY <1>1, LetterTaken
<1>3. mail' = Tail(mail)
  BY <1>2, FieldsTyped DEF CodexDelta, CodexTakesMail, TakesMail
<1>4. Tail(mail) \in Seq(Letters)
  BY <1>2, AgentTyped, FieldsTyped, LettersTyped, SeqsTyped DEF Results
<1>5. mail' \in Seq(Letters)
  BY <1>3, <1>4, FieldsTyped
<1>6. flow' = [flow EXCEPT !.open = TRUE]
  BY <1>2, FieldsTyped DEF CodexDelta, CodexTakesMail, TakesMail
<1>7. [flow EXCEPT !.open = TRUE] \in FlowSet
  BY <1>2, FieldsTyped, FlowSetters
<1>8. flow' \in FlowSet
  BY <1>6, <1>7, FieldsTyped
<1>9. out' = out \o <<Event("delta", flow.run, Letter.run)>>
  BY <1>2, FieldsTyped DEF CodexDelta, CodexTakesMail, TakesMail, Emit
<1>10. out \o <<Event("delta", flow.run, Letter.run)>> \in Seq(EventSet)
  BY <1>2, EventsTyped, FactsTyped, ClosesTyped, RetractedOnce, FieldsTyped, SeqsTyped DEF Results
<1>11. out' \in Seq(EventSet)
  BY <1>9, <1>10, FieldsTyped
<1>12. LocalTyped'
  BY <1>5, <1>8, <1>11 DEF LocalTyped, CodexDelta, CodexTakesMail, TakesMail
<1>13. state' = state /\ commands' = commands /\ call' = call /\ agent' = agent
  BY DEF CodexDelta, CodexTakesMail, TakesMail
<1>14. Thins(mail, mail', AskedOf)
  BY <1>3, <1>2, MailThins, LettersTyped, Unasked, FieldsTyped
<1>15. Thins(agent.stream, agent'.stream, AskedOf) /\ agent'.asked = agent.asked
  BY <1>13, StreamThins
<1>16. Thins(commands, commands', AnswererOf)
  BY <1>13, <1>2, CommandsThin, CommandsTyped, ThreadsAssumption, NoneAssumption
<1>17. state'.pending \subseteq state.pending
  BY <1>13, FieldsTyped DEF StateSet
<1>18. \A u \in Answers : call'[u] = call[u] \/ (call'[u].at = "failed" /\ call'[u].of = call[u].of)
  BY <1>13, <1>2, FieldsTyped, ThreadsAssumption DEF CallSet, Calls
<1>19. Plain(<<Event("delta", flow.run, Letter.run)>>)
  BY <1>2, PlainShapes, PlainFacts, PlainJoined, EventsTyped, FieldsTyped DEF Results
<1>20. ResolvesNothing(out \o <<Event("delta", flow.run, Letter.run)>>)
  BY <1>19, PlainEmitted
<1>21. ResolvesNothing(out')
  BY <1>9, <1>20 DEF ResolvesNothing
<1>22. Quiet
  BY <1>14, <1>15, <1>16, <1>17, <1>18, <1>21 DEF Quiet
<1> QED BY <1>12, <1>22

LEMMA CodexTurnCompletedQuiet ==
  ASSUME LocalTyped, CodexTurnCompleted
  PROVE  LocalTyped' /\ Quiet
<1>1. TakesMail({"done"})
  BY DEF CodexTurnCompleted, CodexTakesMail
<1>2. Letter \in Letters /\ Tail(mail) \in Seq(Letters) /\ Letter.run \in Sends /\ Letter.of \in Results
  BY <1>1, LetterTaken
<1>3. state' = [state EXCEPT !.active = IF @ = flow.run THEN None ELSE @, !.pending = {}]
  BY <1>2, FieldsTyped DEF CodexTurnCompleted, CodexTakesMail, TakesMail
<1>4. [state EXCEPT !.active = IF @ = flow.run THEN None ELSE @, !.pending = {}] \in StateSet
  BY <1>2, FieldsTyped, StateSetters, ParkedSets, ClosesTyped DEF Models
<1>5. state' \in StateSet
  BY <1>3, <1>4, FieldsTyped
<1>6. mail' = Tail(mail)
  BY <1>2, FieldsTyped DEF CodexTurnCompleted, CodexTakesMail, TakesMail
<1>7. Tail(mail) \in Seq(Letters)
  BY <1>2, AgentTyped, FieldsTyped, LettersTyped, SeqsTyped DEF Results
<1>8. mail' \in Seq(Letters)
  BY <1>6, <1>7, FieldsTyped
<1>9. flow' = [flow EXCEPT !.run = None, !.open = FALSE]
  BY <1>2, FieldsTyped DEF CodexTurnCompleted, CodexTakesMail, TakesMail
<1>10. [flow EXCEPT !.run = None, !.open = FALSE] \in FlowSet
  BY <1>2, FieldsTyped, FlowSetters
<1>11. flow' \in FlowSet
  BY <1>9, <1>10, FieldsTyped
<1>12. out' = out \o (RunEnds(flow.run, Letter.of) \o IdleUnlessClosed)
  BY <1>2, FieldsTyped DEF CodexTurnCompleted, CodexTakesMail, TakesMail, Emit
<1>13. out \o (RunEnds(flow.run, Letter.of) \o IdleUnlessClosed) \in Seq(EventSet)
  BY <1>2, EventsTyped, FactsTyped, ClosesTyped, RetractedOnce, FieldsTyped, SeqsTyped DEF Results
<1>14. out' \in Seq(EventSet)
  BY <1>12, <1>13, FieldsTyped
<1>15. LocalTyped'
  BY <1>5, <1>8, <1>11, <1>14 DEF LocalTyped, CodexTurnCompleted, CodexTakesMail, TakesMail
<1>16. commands' = commands /\ call' = call /\ agent' = agent
  BY DEF CodexTurnCompleted, CodexTakesMail, TakesMail
<1>17. Thins(mail, mail', AskedOf)
  BY <1>6, <1>2, MailThins, LettersTyped, Unasked, FieldsTyped
<1>18. Thins(agent.stream, agent'.stream, AskedOf) /\ agent'.asked = agent.asked
  BY <1>16, StreamThins
<1>19. Thins(commands, commands', AnswererOf)
  BY <1>16, <1>2, CommandsThin, CommandsTyped, ThreadsAssumption, NoneAssumption
<1>20. state'.pending \subseteq state.pending
  BY <1>3, FieldsTyped DEF StateSet
<1>21. \A u \in Answers : call'[u] = call[u] \/ (call'[u].at = "failed" /\ call'[u].of = call[u].of)
  BY <1>16, <1>2, FieldsTyped, ThreadsAssumption DEF CallSet, Calls
<1>22. Plain((RunEnds(flow.run, Letter.of) \o IdleUnlessClosed))
  BY <1>2, PlainShapes, PlainFacts, PlainJoined, EventsTyped, FieldsTyped DEF Results
<1>23. ResolvesNothing(out \o (RunEnds(flow.run, Letter.of) \o IdleUnlessClosed))
  BY <1>22, PlainEmitted
<1>24. ResolvesNothing(out')
  BY <1>12, <1>23 DEF ResolvesNothing
<1>25. Quiet
  BY <1>17, <1>18, <1>19, <1>20, <1>21, <1>24 DEF Quiet
<1> QED BY <1>15, <1>25

LEMMA AcpPromptQuiet ==
  ASSUME LocalTyped, AcpPrompt
  PROVE  LocalTyped' /\ Quiet
<1>1. TakesCommand(Sends) /\ Sends \subseteq Calls
  BY DEF AcpPrompt, AcpTakesCommand, Calls
<1>2. /\ By \in Sends /\ By \in Calls /\ Tail(commands) \in Seq(CommandSet)
      /\ call[By].of \in Sends \cup Requests \cup Models \cup {None}
  BY <1>1, CommandTaken
<1>3. state' = [state EXCEPT !.starting = FALSE]
        \/ state' = [state EXCEPT !.starting = FALSE, !.active = By]
  BY <1>2, FieldsTyped DEF AcpPrompt, AcpTakesCommand, TakesCommand
<1>4. /\ [state EXCEPT !.starting = FALSE] \in StateSet
      /\ [state EXCEPT !.starting = FALSE, !.active = By] \in StateSet
  BY <1>2, FieldsTyped, StateSetters, ParkedSets, ClosesTyped DEF Models
<1>5. state' \in StateSet
  BY <1>3, <1>4, FieldsTyped
<1>6. commands' = Tail(commands)
  BY <1>2, FieldsTyped DEF AcpPrompt, AcpTakesCommand, TakesCommand
<1>7. Tail(commands) \in Seq(CommandSet)
  BY <1>2, FieldsTyped, SeqsTyped, CommandsTyped DEF Calls
<1>8. commands' \in Seq(CommandSet)
  BY <1>6, <1>7, FieldsTyped
<1>9. flow' = flow \/ flow' = [flow EXCEPT !.rpcs = @ \cup {By}, !.run = By, !.open = FALSE]
  BY <1>2, FieldsTyped DEF AcpPrompt, AcpTakesCommand, TakesCommand
<1>10. [flow EXCEPT !.rpcs = @ \cup {By}, !.run = By, !.open = FALSE] \in FlowSet
  BY <1>2, FieldsTyped, FlowSetters
<1>11. flow' \in FlowSet
  BY <1>9, <1>10, FieldsTyped
<1>12. call' = call \/ call' = [call EXCEPT ![By].at = "ok"] \/ call' = [call EXCEPT ![By].at = "failed"]
  BY <1>2, FieldsTyped DEF AcpPrompt, AcpTakesCommand, TakesCommand, Replied
<1>13. /\ [call EXCEPT ![By].at = "ok"] \in [Calls -> CallSet]
       /\ [call EXCEPT ![By].at = "failed"] \in [Calls -> CallSet]
  BY <1>2, CallsTyped, FieldsTyped DEF Stages, Models
<1>14. call' \in [Calls -> CallSet]
  BY <1>12, <1>13, FieldsTyped
<1>15. agent' = agent \/ agent' = [agent EXCEPT !.turns = Append(@, By), !.interrupted = @ \/ ~Heard(By)]
  BY <1>2, FieldsTyped DEF AcpPrompt, AcpTakesCommand, TakesCommand
<1>16. [agent EXCEPT !.turns = Append(@, By), !.interrupted = @ \/ ~Heard(By)] \in AgentSet
  BY <1>2, AgentTyped, AgentSetters, FieldsTyped, LettersTyped, SeqsTyped
<1>17. agent' \in AgentSet
  BY <1>15, <1>16, FieldsTyped
<1>18. out' = out \/ out' = out \o <<Event("started", By, call[By].of), Status("working")>>
  BY <1>2, FieldsTyped DEF AcpPrompt, AcpTakesCommand, TakesCommand, Emit
<1>19. out \o <<Event("started", By, call[By].of), Status("working")>> \in Seq(EventSet)
  BY <1>2, EventsTyped, FactsTyped, ClosesTyped, RetractedOnce, FieldsTyped, SeqsTyped DEF Results
<1>20. out' \in Seq(EventSet)
  BY <1>18, <1>19, FieldsTyped
<1>21. LocalTyped'
  BY <1>5, <1>8, <1>11, <1>14, <1>17, <1>20 DEF LocalTyped, AcpPrompt, AcpTakesCommand, TakesCommand
<1>22. mail' = mail
  BY DEF AcpPrompt, AcpTakesCommand, TakesCommand
<1>23. Thins(mail, mail', AskedOf)
  BY <1>22, <1>2, MailThins, LettersTyped, Unasked, FieldsTyped
<1>24. agent'.asked = agent.asked /\ (agent'.stream = agent.stream)
  BY <1>15, AgentTyped, FieldsTyped DEF AgentSet, DeadAgent
<1>25. Thins(agent.stream, agent'.stream, AskedOf)
  BY <1>24, <1>2, StreamThins, LettersTyped, Unasked, FieldsTyped
<1>26. Thins(commands, commands', AnswererOf)
  BY <1>6, <1>2, CommandsThin, CommandsTyped, ThreadsAssumption, NoneAssumption, CommandTaken
<1>27. state'.pending \subseteq state.pending
  BY <1>3, FieldsTyped DEF StateSet
<1>28. \A u \in Answers : call'[u] = call[u] \/ (call'[u].at = "failed" /\ call'[u].of = call[u].of)
  BY <1>12, <1>2, FieldsTyped, ThreadsAssumption DEF CallSet, Calls
<1>29. Plain(<<Event("started", By, call[By].of), Status("working")>>)
  BY <1>2, PlainShapes, PlainFacts, PlainJoined, EventsTyped, FieldsTyped DEF Results
<1>30. ResolvesNothing(out \o <<Event("started", By, call[By].of), Status("working")>>)
  BY <1>29, PlainEmitted
<1>31. ResolvesNothing(out')
  BY <1>18, <1>30 DEF ResolvesNothing
<1>32. Quiet
  BY <1>23, <1>24, <1>25, <1>26, <1>27, <1>28, <1>31 DEF Quiet
<1> QED BY <1>21, <1>32

LEMMA AcpCancelTurnTyped ==
  ASSUME LocalTyped, AcpCancelTurn
  PROVE  LocalTyped'
<1>1. TakesCommand(Cancels) /\ Cancels \subseteq Calls
  BY DEF AcpCancelTurn, AcpTakesCommand, Calls
<1>2. /\ By \in Cancels /\ By \in Calls /\ Tail(commands) \in Seq(CommandSet)
      /\ call[By].of \in Sends \cup Requests \cup Models \cup {None}
  BY <1>1, CommandTaken
<1>3. state' = state \/ state' = [state EXCEPT !.pending = {}]
  BY <1>2, FieldsTyped DEF AcpCancelTurn, AcpTakesCommand, TakesCommand
<1>4. [state EXCEPT !.pending = {}] \in StateSet
  BY <1>2, FieldsTyped, StateSetters, ParkedSets, ClosesTyped DEF Models
<1>5. state' \in StateSet
  BY <1>3, <1>4, FieldsTyped
<1>6. commands' = Tail(commands)
  BY <1>2, FieldsTyped DEF AcpCancelTurn, AcpTakesCommand, TakesCommand
<1>7. Tail(commands) \in Seq(CommandSet)
  BY <1>2, FieldsTyped, SeqsTyped, CommandsTyped DEF Calls
<1>8. commands' \in Seq(CommandSet)
  BY <1>6, <1>7, FieldsTyped
<1>9. call' = call \/ call' = [call EXCEPT ![By].at = "ok"] \/ call' = [call EXCEPT ![By].at = "failed"]
  BY <1>2, FieldsTyped DEF AcpCancelTurn, AcpTakesCommand, TakesCommand, Replied
<1>10. /\ [call EXCEPT ![By].at = "ok"] \in [Calls -> CallSet]
       /\ [call EXCEPT ![By].at = "failed"] \in [Calls -> CallSet]
  BY <1>2, CallsTyped, FieldsTyped DEF Stages, Models
<1>11. call' \in [Calls -> CallSet]
  BY <1>9, <1>10, FieldsTyped
<1>12. agent' = agent \/ agent' = [agent EXCEPT !.interrupted = @
         \/ agent.turns # << >>, !.open = @ \ state.pending]
  BY <1>2, FieldsTyped DEF AcpCancelTurn, AcpTakesCommand, TakesCommand
<1>13. [agent EXCEPT !.interrupted = @ \/ agent.turns # << >>, !.open = @ \ state.pending] \in AgentSet
  BY <1>2, AgentTyped, AgentSetters, FieldsTyped, LettersTyped, SeqsTyped
<1>14. agent' \in AgentSet
  BY <1>12, <1>13, FieldsTyped
<1>15. out' = out \/ out' = out \o Retracted
  BY <1>2, FieldsTyped DEF AcpCancelTurn, AcpTakesCommand, TakesCommand, Emit
<1>16. out \o Retracted \in Seq(EventSet)
  BY <1>2, EventsTyped, FactsTyped, ClosesTyped, RetractedOnce, FieldsTyped, SeqsTyped DEF Results
<1>17. out' \in Seq(EventSet)
  BY <1>15, <1>16, FieldsTyped
<1> QED BY <1>5, <1>8, <1>11, <1>14, <1>17 DEF LocalTyped, AcpCancelTurn, AcpTakesCommand, TakesCommand

LEMMA AcpSetModelQuiet ==
  ASSUME LocalTyped, AcpSetModel
  PROVE  LocalTyped' /\ Quiet
<1>1. TakesCommand(Selects) /\ Selects \subseteq Calls
  BY DEF AcpSetModel, AcpTakesCommand, Calls
<1>2. /\ By \in Selects /\ By \in Calls /\ Tail(commands) \in Seq(CommandSet)
      /\ call[By].of \in Sends \cup Requests \cup Models \cup {None}
  BY <1>1, CommandTaken
<1>3. commands' = Tail(commands)
  BY <1>2, FieldsTyped DEF AcpSetModel, AcpTakesCommand, TakesCommand
<1>4. Tail(commands) \in Seq(CommandSet)
  BY <1>2, FieldsTyped, SeqsTyped, CommandsTyped DEF Calls
<1>5. commands' \in Seq(CommandSet)
  BY <1>3, <1>4, FieldsTyped
<1>6. flow' = flow \/ flow' = [flow EXCEPT !.rpcs = @ \cup {By}]
  BY <1>2, FieldsTyped DEF AcpSetModel, AcpTakesCommand, TakesCommand
<1>7. [flow EXCEPT !.rpcs = @ \cup {By}] \in FlowSet
  BY <1>2, FieldsTyped, FlowSetters
<1>8. flow' \in FlowSet
  BY <1>6, <1>7, FieldsTyped
<1>9. call' = call \/ call' = [call EXCEPT ![By].at = "failed"]
  BY <1>2, FieldsTyped DEF AcpSetModel, AcpTakesCommand, TakesCommand, Replied
<1>10. [call EXCEPT ![By].at = "failed"] \in [Calls -> CallSet]
  BY <1>2, CallsTyped, FieldsTyped DEF Stages, Models
<1>11. call' \in [Calls -> CallSet]
  BY <1>9, <1>10, FieldsTyped
<1>12. agent' = agent \/ agent' = [agent EXCEPT !.config = @ \cup {By}]
  BY <1>2, FieldsTyped DEF AcpSetModel, AcpTakesCommand, TakesCommand
<1>13. [agent EXCEPT !.config = @ \cup {By}] \in AgentSet
  BY <1>2, AgentTyped, AgentSetters, FieldsTyped, LettersTyped, SeqsTyped
<1>14. agent' \in AgentSet
  BY <1>12, <1>13, FieldsTyped
<1>15. LocalTyped'
  BY <1>5, <1>8, <1>11, <1>14 DEF LocalTyped, AcpSetModel, AcpTakesCommand, TakesCommand
<1>16. state' = state /\ mail' = mail /\ out' = out
  BY DEF AcpSetModel, AcpTakesCommand, TakesCommand
<1>17. Thins(mail, mail', AskedOf)
  BY <1>16, <1>2, MailThins, LettersTyped, Unasked, FieldsTyped
<1>18. agent'.asked = agent.asked /\ (agent'.stream = agent.stream)
  BY <1>12, AgentTyped, FieldsTyped DEF AgentSet, DeadAgent
<1>19. Thins(agent.stream, agent'.stream, AskedOf)
  BY <1>18, <1>2, StreamThins, LettersTyped, Unasked, FieldsTyped
<1>20. Thins(commands, commands', AnswererOf)
  BY <1>3, <1>2, CommandsThin, CommandsTyped, ThreadsAssumption, NoneAssumption, CommandTaken
<1>21. state'.pending \subseteq state.pending
  BY <1>16, FieldsTyped DEF StateSet
<1>22. \A u \in Answers : call'[u] = call[u] \/ (call'[u].at = "failed" /\ call'[u].of = call[u].of)
  BY <1>9, <1>2, FieldsTyped, ThreadsAssumption DEF CallSet, Calls
<1>23. ResolvesNothing(out')
  BY <1>16 DEF ResolvesNothing
<1>24. Quiet
  BY <1>17, <1>18, <1>19, <1>20, <1>21, <1>22, <1>23 DEF Quiet
<1> QED BY <1>15, <1>24

LEMMA AcpConfigAnsweredQuiet ==
  ASSUME LocalTyped, AcpConfigAnswered
  PROVE  LocalTyped' /\ Quiet
<1>1. TakesMail({"configured", "misconfigured"})
  BY DEF AcpConfigAnswered, AcpTakesMail
<1>2. Letter \in Letters /\ Tail(mail) \in Seq(Letters) /\ Letter.of \in Selects
  BY <1>1, LetterTaken
<1>3. mail' = Tail(mail)
  BY <1>2, FieldsTyped DEF AcpConfigAnswered, AcpTakesMail, TakesMail
<1>4. Tail(mail) \in Seq(Letters)
  BY <1>2, AgentTyped, FieldsTyped, LettersTyped, SeqsTyped DEF Results
<1>5. mail' \in Seq(Letters)
  BY <1>3, <1>4, FieldsTyped
<1>6. flow' = [flow EXCEPT !.rpcs = @ \ {Letter.of}]
  BY <1>2, FieldsTyped DEF AcpConfigAnswered, AcpTakesMail, TakesMail
<1>7. [flow EXCEPT !.rpcs = @ \ {Letter.of}] \in FlowSet
  BY <1>2, FieldsTyped, FlowSetters
<1>8. flow' \in FlowSet
  BY <1>6, <1>7, FieldsTyped
<1>9. call' = call \/ call' = [call EXCEPT ![Letter.of].at = "ok"]
        \/ call' = [call EXCEPT ![Letter.of].at = "refused"]
  BY <1>2, FieldsTyped DEF AcpConfigAnswered, AcpTakesMail, TakesMail, Replied
<1>10. /\ [call EXCEPT ![Letter.of].at = "ok"] \in [Calls -> CallSet]
       /\ [call EXCEPT ![Letter.of].at = "refused"] \in [Calls -> CallSet]
  BY <1>2, CallsTyped, FieldsTyped DEF Stages, Models
<1>11. call' \in [Calls -> CallSet]
  BY <1>9, <1>10, FieldsTyped
<1>12. LocalTyped'
  BY <1>5, <1>8, <1>11 DEF LocalTyped, AcpConfigAnswered, AcpTakesMail, TakesMail
<1>13. state' = state /\ commands' = commands /\ agent' = agent /\ out' = out
  BY DEF AcpConfigAnswered, AcpTakesMail, TakesMail
<1>14. Thins(mail, mail', AskedOf)
  BY <1>3, <1>2, MailThins, LettersTyped, Unasked, FieldsTyped
<1>15. Thins(agent.stream, agent'.stream, AskedOf) /\ agent'.asked = agent.asked
  BY <1>13, StreamThins
<1>16. Thins(commands, commands', AnswererOf)
  BY <1>13, <1>2, CommandsThin, CommandsTyped, ThreadsAssumption, NoneAssumption
<1>17. state'.pending \subseteq state.pending
  BY <1>13, FieldsTyped DEF StateSet
<1>18. \A u \in Answers : call'[u] = call[u] \/ (call'[u].at = "failed" /\ call'[u].of = call[u].of)
  BY <1>9, <1>2, FieldsTyped, ThreadsAssumption DEF CallSet, Calls
<1>19. ResolvesNothing(out')
  BY <1>13 DEF ResolvesNothing
<1>20. Quiet
  BY <1>14, <1>15, <1>16, <1>17, <1>18, <1>19 DEF Quiet
<1> QED BY <1>12, <1>20

LEMMA AcpUpdateQuiet ==
  ASSUME LocalTyped, AcpUpdate
  PROVE  LocalTyped' /\ Quiet
<1>1. TakesMail({"delta"})
  BY DEF AcpUpdate, AcpTakesMail
<1>2. Letter \in Letters /\ Tail(mail) \in Seq(Letters) /\ Letter.run \in Sends
  BY <1>1, LetterTaken
<1>3. mail' = Tail(mail)
  BY <1>2, FieldsTyped DEF AcpUpdate, AcpTakesMail, TakesMail
<1>4. Tail(mail) \in Seq(Letters)
  BY <1>2, AgentTyped, FieldsTyped, LettersTyped, SeqsTyped DEF Results
<1>5. mail' \in Seq(Letters)
  BY <1>3, <1>4, FieldsTyped
<1>6. flow' = flow \/ flow' = [flow EXCEPT !.open = TRUE]
  BY <1>2, FieldsTyped DEF AcpUpdate, AcpTakesMail, TakesMail
<1>7. [flow EXCEPT !.open = TRUE] \in FlowSet
  BY <1>2, FieldsTyped, FlowSetters
<1>8. flow' \in FlowSet
  BY <1>6, <1>7, FieldsTyped
<1>9. out' = out \/ out' = out \o <<Event("delta", flow.run, Letter.run)>>
  BY <1>2, FieldsTyped DEF AcpUpdate, AcpTakesMail, TakesMail, Emit
<1>10. out \o <<Event("delta", flow.run, Letter.run)>> \in Seq(EventSet)
  BY <1>2, EventsTyped, FactsTyped, ClosesTyped, RetractedOnce, FieldsTyped, SeqsTyped DEF Results
<1>11. out' \in Seq(EventSet)
  BY <1>9, <1>10, FieldsTyped
<1>12. LocalTyped'
  BY <1>5, <1>8, <1>11 DEF LocalTyped, AcpUpdate, AcpTakesMail, TakesMail
<1>13. state' = state /\ commands' = commands /\ call' = call /\ agent' = agent
  BY DEF AcpUpdate, AcpTakesMail, TakesMail
<1>14. Thins(mail, mail', AskedOf)
  BY <1>3, <1>2, MailThins, LettersTyped, Unasked, FieldsTyped
<1>15. Thins(agent.stream, agent'.stream, AskedOf) /\ agent'.asked = agent.asked
  BY <1>13, StreamThins
<1>16. Thins(commands, commands', AnswererOf)
  BY <1>13, <1>2, CommandsThin, CommandsTyped, ThreadsAssumption, NoneAssumption
<1>17. state'.pending \subseteq state.pending
  BY <1>13, FieldsTyped DEF StateSet
<1>18. \A u \in Answers : call'[u] = call[u] \/ (call'[u].at = "failed" /\ call'[u].of = call[u].of)
  BY <1>13, <1>2, FieldsTyped, ThreadsAssumption DEF CallSet, Calls
<1>19. Plain(<<Event("delta", flow.run, Letter.run)>>)
  BY <1>2, PlainShapes, PlainFacts, PlainJoined, EventsTyped, FieldsTyped DEF Results
<1>20. ResolvesNothing(out \o <<Event("delta", flow.run, Letter.run)>>)
  BY <1>19, PlainEmitted
<1>21. ResolvesNothing(out')
  BY <1>9, <1>20 DEF ResolvesNothing
<1>22. Quiet
  BY <1>14, <1>15, <1>16, <1>17, <1>18, <1>21 DEF Quiet
<1> QED BY <1>12, <1>22

LEMMA AcpPermissionTyped ==
  ASSUME LocalTyped, AcpPermission
  PROVE  LocalTyped'
<1>1. TakesMail({"request"})
  BY DEF AcpPermission, AcpTakesMail
<1>2. Letter \in Letters /\ Tail(mail) \in Seq(Letters) /\ Letter.of \in Requests
  BY <1>1, LetterTaken
<1>3. state' = state \/ state' = [state EXCEPT !.pending = @ \cup {Letter.of}]
  BY <1>2, FieldsTyped DEF AcpPermission, AcpTakesMail, TakesMail
<1>4. [state EXCEPT !.pending = @ \cup {Letter.of}] \in StateSet
  BY <1>2, FieldsTyped, StateSetters, ParkedSets, ClosesTyped DEF Models
<1>5. state' \in StateSet
  BY <1>3, <1>4, FieldsTyped
<1>6. mail' = Tail(mail)
  BY <1>2, FieldsTyped DEF AcpPermission, AcpTakesMail, TakesMail
<1>7. Tail(mail) \in Seq(Letters)
  BY <1>2, AgentTyped, FieldsTyped, LettersTyped, SeqsTyped DEF Results
<1>8. mail' \in Seq(Letters)
  BY <1>6, <1>7, FieldsTyped
<1>9. agent' = agent \/ agent' = [agent EXCEPT !.open = @ \ {Letter.of}]
  BY <1>2, FieldsTyped DEF AcpPermission, AcpTakesMail, TakesMail
<1>10. [agent EXCEPT !.open = @ \ {Letter.of}] \in AgentSet
  BY <1>2, AgentTyped, AgentSetters, FieldsTyped, LettersTyped, SeqsTyped
<1>11. agent' \in AgentSet
  BY <1>9, <1>10, FieldsTyped
<1>12. out' = out \/ out' = out \o Offered(Letter.of)
  BY <1>2, FieldsTyped DEF AcpPermission, AcpTakesMail, TakesMail, Emit
<1>13. out \o Offered(Letter.of) \in Seq(EventSet)
  BY <1>2, EventsTyped, FactsTyped, ClosesTyped, RetractedOnce, FieldsTyped, SeqsTyped DEF Results
<1>14. out' \in Seq(EventSet)
  BY <1>12, <1>13, FieldsTyped
<1> QED BY <1>5, <1>8, <1>11, <1>14 DEF LocalTyped, AcpPermission, AcpTakesMail, TakesMail

LEMMA AcpPromptDoneTyped ==
  ASSUME LocalTyped, AcpPromptDone
  PROVE  LocalTyped'
<1>1. TakesMail({"done"})
  BY DEF AcpPromptDone, AcpTakesMail
<1>2. Letter \in Letters /\ Tail(mail) \in Seq(Letters) /\ Letter.run \in Sends /\ Letter.of \in Results
  BY <1>1, LetterTaken
<1>3. state' = [state EXCEPT !.active = None, !.pending = {}]
  BY <1>2, FieldsTyped DEF AcpPromptDone, AcpTakesMail, TakesMail
<1>4. [state EXCEPT !.active = None, !.pending = {}] \in StateSet
  BY <1>2, FieldsTyped, StateSetters, ParkedSets, ClosesTyped DEF Models
<1>5. state' \in StateSet
  BY <1>3, <1>4, FieldsTyped
<1>6. mail' = Tail(mail)
  BY <1>2, FieldsTyped DEF AcpPromptDone, AcpTakesMail, TakesMail
<1>7. Tail(mail) \in Seq(Letters)
  BY <1>2, AgentTyped, FieldsTyped, LettersTyped, SeqsTyped DEF Results
<1>8. mail' \in Seq(Letters)
  BY <1>6, <1>7, FieldsTyped
<1>9. flow' = [flow EXCEPT !.rpcs = @ \ {Letter.run}, !.run = None, !.open = FALSE]
  BY <1>2, FieldsTyped DEF AcpPromptDone, AcpTakesMail, TakesMail
<1>10. [flow EXCEPT !.rpcs = @ \ {Letter.run}, !.run = None, !.open = FALSE] \in FlowSet
  BY <1>2, FieldsTyped, FlowSetters
<1>11. flow' \in FlowSet
  BY <1>9, <1>10, FieldsTyped
<1>12. out' = out \o (Retracted \o RunEnds(flow.run, Letter.of) \o IdleUnlessClosed)
  BY <1>2, FieldsTyped DEF AcpPromptDone, AcpTakesMail, TakesMail, Emit
<1>13. out \o (Retracted \o RunEnds(flow.run, Letter.of) \o IdleUnlessClosed) \in Seq(EventSet)
  BY <1>2, EventsTyped, FactsTyped, ClosesTyped, RetractedOnce, FieldsTyped, SeqsTyped DEF Results
<1>14. out' \in Seq(EventSet)
  BY <1>12, <1>13, FieldsTyped
<1> QED BY <1>5, <1>8, <1>11, <1>14 DEF LocalTyped, AcpPromptDone, AcpTakesMail, TakesMail

LEMMA OpenCodeStartPromptQuiet ==
  ASSUME LocalTyped, OpenCodeStartPrompt
  PROVE  LocalTyped' /\ Quiet
<1>1. TakesCommand(Sends) /\ Sends \subseteq Calls
  BY DEF OpenCodeStartPrompt, OpenCodeTakesCommand, Calls
<1>2. /\ By \in Sends /\ By \in Calls /\ Tail(commands) \in Seq(CommandSet)
      /\ call[By].of \in Sends \cup Requests \cup Models \cup {None}
  BY <1>1, CommandTaken
<1>3. state' = [state EXCEPT !.starting = FALSE]
        \/ state' = [state EXCEPT !.starting = FALSE, !.active = By]
  BY <1>2, FieldsTyped DEF OpenCodeStartPrompt, OpenCodeTakesCommand, TakesCommand
<1>4. /\ [state EXCEPT !.starting = FALSE] \in StateSet
      /\ [state EXCEPT !.starting = FALSE, !.active = By] \in StateSet
  BY <1>2, FieldsTyped, StateSetters, ParkedSets, ClosesTyped DEF Models
<1>5. state' \in StateSet
  BY <1>3, <1>4, FieldsTyped
<1>6. commands' = Tail(commands)
  BY <1>2, FieldsTyped DEF OpenCodeStartPrompt, OpenCodeTakesCommand, TakesCommand
<1>7. Tail(commands) \in Seq(CommandSet)
  BY <1>2, FieldsTyped, SeqsTyped, CommandsTyped DEF Calls
<1>8. commands' \in Seq(CommandSet)
  BY <1>6, <1>7, FieldsTyped
<1>9. mail' = mail \/ mail' = Append(mail, Mail("done", By, "failed"))
  BY <1>2, FieldsTyped DEF OpenCodeStartPrompt, OpenCodeTakesCommand, TakesCommand
<1>10. Append(mail, Mail("done", By, "failed")) \in Seq(Letters)
  BY <1>2, AgentTyped, FieldsTyped, LettersTyped, SeqsTyped DEF Results
<1>11. mail' \in Seq(Letters)
  BY <1>9, <1>10, FieldsTyped
<1>12. flow' = flow \/ flow' = [NoFlow EXCEPT !.run = By, !.status = "working"]
  BY <1>2, FieldsTyped DEF OpenCodeStartPrompt, OpenCodeTakesCommand, TakesCommand
<1>13. [NoFlow EXCEPT !.run = By, !.status = "working"] \in FlowSet
  BY <1>2, FieldsTyped, FlowSetters
<1>14. flow' \in FlowSet
  BY <1>12, <1>13, FieldsTyped
<1>15. call' = call \/ call' = [call EXCEPT ![By].at = "ok"] \/ call' = [call EXCEPT ![By].at = "failed"]
  BY <1>2, FieldsTyped DEF OpenCodeStartPrompt, OpenCodeTakesCommand, TakesCommand, Replied
<1>16. /\ [call EXCEPT ![By].at = "ok"] \in [Calls -> CallSet]
       /\ [call EXCEPT ![By].at = "failed"] \in [Calls -> CallSet]
  BY <1>2, CallsTyped, FieldsTyped DEF Stages, Models
<1>17. call' \in [Calls -> CallSet]
  BY <1>15, <1>16, FieldsTyped
<1>18. agent' = agent \/ agent' = [agent EXCEPT !.turns = Append(@, By)]
  BY <1>2, FieldsTyped DEF OpenCodeStartPrompt, OpenCodeTakesCommand, TakesCommand
<1>19. [agent EXCEPT !.turns = Append(@, By)] \in AgentSet
  BY <1>2, AgentTyped, AgentSetters, FieldsTyped, LettersTyped, SeqsTyped
<1>20. agent' \in AgentSet
  BY <1>18, <1>19, FieldsTyped
<1>21. out' = out \/ out' = out \o <<Event("started", By, call[By].of), Status("working")>>
  BY <1>2, FieldsTyped DEF OpenCodeStartPrompt, OpenCodeTakesCommand, TakesCommand, Emit
<1>22. out \o <<Event("started", By, call[By].of), Status("working")>> \in Seq(EventSet)
  BY <1>2, EventsTyped, FactsTyped, ClosesTyped, RetractedOnce, FieldsTyped, SeqsTyped DEF Results
<1>23. out' \in Seq(EventSet)
  BY <1>21, <1>22, FieldsTyped
<1>24. LocalTyped'
  BY <1>5, <1>8, <1>11, <1>14, <1>17, <1>20, <1>23
     DEF LocalTyped, OpenCodeStartPrompt, OpenCodeTakesCommand, TakesCommand
<1>25. Mail("done", By, "failed") \in Letters /\ Mail("done", By, "failed").what # "request"
  BY <1>2, AgentTyped, LettersTyped, FieldsTyped DEF Mail, Closed, Results
<1>26. Thins(mail, mail', AskedOf)
  BY <1>9, <1>2, <1>25, MailThins, LettersTyped, Unasked, FieldsTyped
<1>27. agent'.asked = agent.asked /\ (agent'.stream = agent.stream)
  BY <1>18, AgentTyped, FieldsTyped DEF AgentSet, DeadAgent
<1>28. Thins(agent.stream, agent'.stream, AskedOf)
  BY <1>27, <1>2, <1>25, StreamThins, LettersTyped, Unasked, FieldsTyped
<1>29. Thins(commands, commands', AnswererOf)
  BY <1>6, <1>2, <1>25, CommandsThin, CommandsTyped, ThreadsAssumption, NoneAssumption, CommandTaken
<1>30. state'.pending \subseteq state.pending
  BY <1>3, FieldsTyped DEF StateSet
<1>31. \A u \in Answers : call'[u] = call[u] \/ (call'[u].at = "failed" /\ call'[u].of = call[u].of)
  BY <1>15, <1>2, <1>25, FieldsTyped, ThreadsAssumption DEF CallSet, Calls
<1>32. Plain(<<Event("started", By, call[By].of), Status("working")>>)
  BY <1>2, <1>25, PlainShapes, PlainFacts, PlainJoined, EventsTyped, FieldsTyped DEF Results
<1>33. ResolvesNothing(out \o <<Event("started", By, call[By].of), Status("working")>>)
  BY <1>32, PlainEmitted
<1>34. ResolvesNothing(out')
  BY <1>21, <1>33 DEF ResolvesNothing
<1>35. Quiet
  BY <1>26, <1>27, <1>28, <1>29, <1>30, <1>31, <1>34 DEF Quiet
<1> QED BY <1>24, <1>35

LEMMA OpenCodeAnswerTyped ==
  ASSUME LocalTyped, Ledger, OpenCodeAnswer
  PROVE  LocalTyped'
<1>q. call[By].of \in Requests
  <2>1. TakesCommand(Answers)
    BY DEF OpenCodeAnswer, OpenCodeTakesCommand
  <2> QED BY <2>1, AnswerCommand
<1>1. TakesCommand(Answers) /\ Answers \subseteq Calls
  BY DEF OpenCodeAnswer, OpenCodeTakesCommand, Calls
<1>2. /\ By \in Answers /\ By \in Calls /\ Tail(commands) \in Seq(CommandSet)
      /\ call[By].of \in Sends \cup Requests \cup Models \cup {None}
  BY <1>1, CommandTaken
<1>3. By \in Answers /\ (call[By].of \in agent.open => Echo(call[By].of) \in Seq(StreamLetters))
  BY <1>2, FieldsTyped, SeqsTyped, NoneAssumption, LettersTyped
     DEF OpenCodeAnswer, OpenCodeTakesCommand, TakesCommand, Calls, Results, Echo
<1>4. commands' = Tail(commands)
  BY <1>2, <1>3, FieldsTyped DEF OpenCodeAnswer, OpenCodeTakesCommand, TakesCommand
<1>5. Tail(commands) \in Seq(CommandSet)
  BY <1>2, <1>3, FieldsTyped, SeqsTyped, CommandsTyped DEF Calls
<1>6. commands' \in Seq(CommandSet)
  BY <1>4, <1>5, FieldsTyped
<1>7. flow' = flow \/ flow' = [flow EXCEPT !.status = "working"]
  BY <1>2, <1>3, FieldsTyped DEF OpenCodeAnswer, OpenCodeTakesCommand, TakesCommand
<1>8. [flow EXCEPT !.status = "working"] \in FlowSet
  BY <1>2, <1>3, FieldsTyped, FlowSetters
<1>9. flow' \in FlowSet
  BY <1>7, <1>8, FieldsTyped
<1>10. call' = call \/ call' = [call EXCEPT ![By].at = "ok"] \/ call' = [call EXCEPT ![By].at = "failed"]
  BY <1>2, <1>3, FieldsTyped DEF OpenCodeAnswer, OpenCodeTakesCommand, TakesCommand, Replied
<1>11. /\ [call EXCEPT ![By].at = "ok"] \in [Calls -> CallSet]
       /\ [call EXCEPT ![By].at = "failed"] \in [Calls -> CallSet]
  BY <1>2, <1>3, CallsTyped, FieldsTyped DEF Stages, Models
<1>12. call' \in [Calls -> CallSet]
  BY <1>10, <1>11, FieldsTyped
<1>13. agent' = agent \/ (call[By].of \in agent.open
         /\ agent' = [agent EXCEPT !.open = @ \ {call[By].of}, !.stream = @ \o Echo(call[By].of)])
  BY <1>2, <1>3, FieldsTyped DEF OpenCodeAnswer, OpenCodeTakesCommand, TakesCommand
<1>14. call[By].of \in agent.open => [agent EXCEPT !.open = @ \ {call[By].of},
         !.stream = @ \o Echo(call[By].of)] \in AgentSet
  BY <1>2, <1>3, AgentTyped, AgentSetters, FieldsTyped, LettersTyped, SeqsTyped
<1>15. agent' \in AgentSet
  BY <1>13, <1>14, FieldsTyped
<1>16. out' = out \/ out' = out \o (<<Event("resolved", None, call[By].of)>> \o Restated("working"))
  BY <1>2, <1>3, FieldsTyped DEF OpenCodeAnswer, OpenCodeTakesCommand, TakesCommand, Emit
<1>17. out \o (<<Event("resolved", None, call[By].of)>> \o Restated("working")) \in Seq(EventSet)
  <2>1. <<Event("resolved", None, call[By].of)>> \in Seq(EventSet)
    BY <1>q, EmittedKeys
  <2> QED BY <2>1, FactsTyped, FieldsTyped, SeqsTyped
<1>18. out' \in Seq(EventSet)
  BY <1>16, <1>17, FieldsTyped
<1> QED BY <1>6, <1>9, <1>12, <1>15, <1>18
   DEF LocalTyped, OpenCodeAnswer, OpenCodeTakesCommand, TakesCommand

LEMMA OpenCodeAbortQuiet ==
  ASSUME LocalTyped, OpenCodeAbort
  PROVE  LocalTyped' /\ Quiet
<1>1. TakesCommand(Cancels) /\ Cancels \subseteq Calls
  BY DEF OpenCodeAbort, OpenCodeTakesCommand, Calls
<1>2. /\ By \in Cancels /\ By \in Calls /\ Tail(commands) \in Seq(CommandSet)
      /\ call[By].of \in Sends \cup Requests \cup Models \cup {None}
  BY <1>1, CommandTaken
<1>3. commands' = Tail(commands)
  BY <1>2, FieldsTyped DEF OpenCodeAbort, OpenCodeTakesCommand, TakesCommand
<1>4. Tail(commands) \in Seq(CommandSet)
  BY <1>2, FieldsTyped, SeqsTyped, CommandsTyped DEF Calls
<1>5. commands' \in Seq(CommandSet)
  BY <1>3, <1>4, FieldsTyped
<1>6. flow' = [flow EXCEPT !.cancel = flow.run # None]
  BY <1>2, FieldsTyped DEF OpenCodeAbort, OpenCodeTakesCommand, TakesCommand
<1>7. [flow EXCEPT !.cancel = flow.run # None] \in FlowSet
  BY <1>2, FieldsTyped, FlowSetters
<1>8. flow' \in FlowSet
  BY <1>6, <1>7, FieldsTyped
<1>9. call' = call \/ call' = [call EXCEPT ![By].at = "ok"] \/ call' = [call EXCEPT ![By].at = "failed"]
  BY <1>2, FieldsTyped DEF OpenCodeAbort, OpenCodeTakesCommand, TakesCommand, Replied
<1>10. /\ [call EXCEPT ![By].at = "ok"] \in [Calls -> CallSet]
       /\ [call EXCEPT ![By].at = "failed"] \in [Calls -> CallSet]
  BY <1>2, CallsTyped, FieldsTyped DEF Stages, Models
<1>11. call' \in [Calls -> CallSet]
  BY <1>9, <1>10, FieldsTyped
<1>12. agent' = agent \/ agent' = [agent EXCEPT !.interrupted = @ \/ agent.turns # << >>]
  BY <1>2, FieldsTyped DEF OpenCodeAbort, OpenCodeTakesCommand, TakesCommand
<1>13. [agent EXCEPT !.interrupted = @ \/ agent.turns # << >>] \in AgentSet
  BY <1>2, AgentTyped, AgentSetters, FieldsTyped, LettersTyped, SeqsTyped
<1>14. agent' \in AgentSet
  BY <1>12, <1>13, FieldsTyped
<1>15. LocalTyped'
  BY <1>5, <1>8, <1>11, <1>14 DEF LocalTyped, OpenCodeAbort, OpenCodeTakesCommand, TakesCommand
<1>16. state' = state /\ mail' = mail /\ out' = out
  BY DEF OpenCodeAbort, OpenCodeTakesCommand, TakesCommand
<1>17. Thins(mail, mail', AskedOf)
  BY <1>16, <1>2, MailThins, LettersTyped, Unasked, FieldsTyped
<1>18. agent'.asked = agent.asked /\ (agent'.stream = agent.stream)
  BY <1>12, AgentTyped, FieldsTyped DEF AgentSet, DeadAgent
<1>19. Thins(agent.stream, agent'.stream, AskedOf)
  BY <1>18, <1>2, StreamThins, LettersTyped, Unasked, FieldsTyped
<1>20. Thins(commands, commands', AnswererOf)
  BY <1>3, <1>2, CommandsThin, CommandsTyped, ThreadsAssumption, NoneAssumption, CommandTaken
<1>21. state'.pending \subseteq state.pending
  BY <1>16, FieldsTyped DEF StateSet
<1>22. \A u \in Answers : call'[u] = call[u] \/ (call'[u].at = "failed" /\ call'[u].of = call[u].of)
  BY <1>9, <1>2, FieldsTyped, ThreadsAssumption DEF CallSet, Calls
<1>23. ResolvesNothing(out')
  BY <1>16 DEF ResolvesNothing
<1>24. Quiet
  BY <1>17, <1>18, <1>19, <1>20, <1>21, <1>22, <1>23 DEF Quiet
<1> QED BY <1>15, <1>24

LEMMA OpenCodePartQuiet ==
  ASSUME LocalTyped, OpenCodePart
  PROVE  LocalTyped' /\ Quiet
<1>1. TakesMail({"delta"})
  BY DEF OpenCodePart, OpenCodeTakesMail
<1>2. Letter \in Letters /\ Tail(mail) \in Seq(Letters) /\ Letter.run \in Sends
  BY <1>1, LetterTaken
<1>3. mail' = Tail(mail)
  BY <1>2, FieldsTyped DEF OpenCodePart, OpenCodeTakesMail, TakesMail
<1>4. Tail(mail) \in Seq(Letters)
  BY <1>2, AgentTyped, FieldsTyped, LettersTyped, SeqsTyped DEF Results
<1>5. mail' \in Seq(Letters)
  BY <1>3, <1>4, FieldsTyped
<1>6. flow' = flow \/ flow' = [flow EXCEPT !.open = TRUE]
  BY <1>2, FieldsTyped DEF OpenCodePart, OpenCodeTakesMail, TakesMail
<1>7. [flow EXCEPT !.open = TRUE] \in FlowSet
  BY <1>2, FieldsTyped, FlowSetters
<1>8. flow' \in FlowSet
  BY <1>6, <1>7, FieldsTyped
<1>9. out' = out \/ out' = out \o <<Event("delta", flow.run, Letter.run)>>
  BY <1>2, FieldsTyped DEF OpenCodePart, OpenCodeTakesMail, TakesMail, Emit
<1>10. out \o <<Event("delta", flow.run, Letter.run)>> \in Seq(EventSet)
  BY <1>2, EventsTyped, FactsTyped, ClosesTyped, RetractedOnce, FieldsTyped, SeqsTyped DEF Results
<1>11. out' \in Seq(EventSet)
  BY <1>9, <1>10, FieldsTyped
<1>12. LocalTyped'
  BY <1>5, <1>8, <1>11 DEF LocalTyped, OpenCodePart, OpenCodeTakesMail, TakesMail
<1>13. state' = state /\ commands' = commands /\ call' = call /\ agent' = agent
  BY DEF OpenCodePart, OpenCodeTakesMail, TakesMail
<1>14. Thins(mail, mail', AskedOf)
  BY <1>3, <1>2, MailThins, LettersTyped, Unasked, FieldsTyped
<1>15. Thins(agent.stream, agent'.stream, AskedOf) /\ agent'.asked = agent.asked
  BY <1>13, StreamThins
<1>16. Thins(commands, commands', AnswererOf)
  BY <1>13, <1>2, CommandsThin, CommandsTyped, ThreadsAssumption, NoneAssumption
<1>17. state'.pending \subseteq state.pending
  BY <1>13, FieldsTyped DEF StateSet
<1>18. \A u \in Answers : call'[u] = call[u] \/ (call'[u].at = "failed" /\ call'[u].of = call[u].of)
  BY <1>13, <1>2, FieldsTyped, ThreadsAssumption DEF CallSet, Calls
<1>19. Plain(<<Event("delta", flow.run, Letter.run)>>)
  BY <1>2, PlainShapes, PlainFacts, PlainJoined, EventsTyped, FieldsTyped DEF Results
<1>20. ResolvesNothing(out \o <<Event("delta", flow.run, Letter.run)>>)
  BY <1>19, PlainEmitted
<1>21. ResolvesNothing(out')
  BY <1>9, <1>20 DEF ResolvesNothing
<1>22. Quiet
  BY <1>14, <1>15, <1>16, <1>17, <1>18, <1>21 DEF Quiet
<1> QED BY <1>12, <1>22

LEMMA OpenCodePermissionTyped ==
  ASSUME LocalTyped, OpenCodePermission
  PROVE  LocalTyped'
<1>1. TakesMail({"request"})
  BY DEF OpenCodePermission, OpenCodeTakesMail
<1>2. Letter \in Letters /\ Tail(mail) \in Seq(Letters) /\ Letter.of \in Requests
  BY <1>1, LetterTaken
<1>3. state' = state \/ state' = [state EXCEPT !.pending = @ \cup {Letter.of}]
  BY <1>2, FieldsTyped DEF OpenCodePermission, OpenCodeTakesMail, TakesMail
<1>4. [state EXCEPT !.pending = @ \cup {Letter.of}] \in StateSet
  BY <1>2, FieldsTyped, StateSetters, ParkedSets, ClosesTyped DEF Models
<1>5. state' \in StateSet
  BY <1>3, <1>4, FieldsTyped
<1>6. mail' = Tail(mail)
  BY <1>2, FieldsTyped DEF OpenCodePermission, OpenCodeTakesMail, TakesMail
<1>7. Tail(mail) \in Seq(Letters)
  BY <1>2, AgentTyped, FieldsTyped, LettersTyped, SeqsTyped DEF Results
<1>8. mail' \in Seq(Letters)
  BY <1>6, <1>7, FieldsTyped
<1>9. flow' = flow \/ flow' = [flow EXCEPT !.status = "waiting"]
  BY <1>2, FieldsTyped DEF OpenCodePermission, OpenCodeTakesMail, TakesMail
<1>10. [flow EXCEPT !.status = "waiting"] \in FlowSet
  BY <1>2, FieldsTyped, FlowSetters
<1>11. flow' \in FlowSet
  BY <1>9, <1>10, FieldsTyped
<1>12. out' = out \/ out' = out \o (Restated("waiting") \o <<Event("requested", flow.run, Letter.of)>>)
  BY <1>2, FieldsTyped DEF OpenCodePermission, OpenCodeTakesMail, TakesMail, Emit
<1>13. out \o (Restated("waiting") \o <<Event("requested", flow.run, Letter.of)>>) \in Seq(EventSet)
  BY <1>2, EventsTyped, FactsTyped, ClosesTyped, RetractedOnce, FieldsTyped, SeqsTyped DEF Results
<1>14. out' \in Seq(EventSet)
  BY <1>12, <1>13, FieldsTyped
<1> QED BY <1>5, <1>8, <1>11, <1>14 DEF LocalTyped, OpenCodePermission, OpenCodeTakesMail, TakesMail

LEMMA OpenCodeRepliedTyped ==
  ASSUME LocalTyped, OpenCodeReplied
  PROVE  LocalTyped'
<1>1. TakesMail({"replied"})
  BY DEF OpenCodeReplied, OpenCodeTakesMail
<1>2. Letter \in Letters /\ Tail(mail) \in Seq(Letters) /\ Letter.of \in Requests
  BY <1>1, LetterTaken
<1>3. state' = state \/ state' = [state EXCEPT !.pending = @ \ {Letter.of}]
  BY <1>2, FieldsTyped DEF OpenCodeReplied, OpenCodeTakesMail, TakesMail
<1>4. [state EXCEPT !.pending = @ \ {Letter.of}] \in StateSet
  BY <1>2, FieldsTyped, StateSetters, ParkedSets, ClosesTyped DEF Models
<1>5. state' \in StateSet
  BY <1>3, <1>4, FieldsTyped
<1>6. mail' = Tail(mail)
  BY <1>2, FieldsTyped DEF OpenCodeReplied, OpenCodeTakesMail, TakesMail
<1>7. Tail(mail) \in Seq(Letters)
  BY <1>2, AgentTyped, FieldsTyped, LettersTyped, SeqsTyped DEF Results
<1>8. mail' \in Seq(Letters)
  BY <1>6, <1>7, FieldsTyped
<1>9. flow' = flow \/ flow' = [flow EXCEPT !.status = "working"]
  BY <1>2, FieldsTyped DEF OpenCodeReplied, OpenCodeTakesMail, TakesMail
<1>10. [flow EXCEPT !.status = "working"] \in FlowSet
  BY <1>2, FieldsTyped, FlowSetters
<1>11. flow' \in FlowSet
  BY <1>9, <1>10, FieldsTyped
<1>12. out' = out \/ out' = out \o (<<Event("resolved", None, Letter.of)>> \o Restated("working"))
  BY <1>2, FieldsTyped DEF OpenCodeReplied, OpenCodeTakesMail, TakesMail, Emit
<1>13. out \o (<<Event("resolved", None, Letter.of)>> \o Restated("working")) \in Seq(EventSet)
  BY <1>2, EventsTyped, FactsTyped, ClosesTyped, RetractedOnce, FieldsTyped, SeqsTyped DEF Results
<1>14. out' \in Seq(EventSet)
  BY <1>12, <1>13, FieldsTyped
<1> QED BY <1>5, <1>8, <1>11, <1>14 DEF LocalTyped, OpenCodeReplied, OpenCodeTakesMail, TakesMail

LEMMA OpenCodeStatusQuiet ==
  ASSUME LocalTyped, OpenCodeStatus
  PROVE  LocalTyped' /\ Quiet
<1>1. TakesMail({"idle", "busy"})
  BY DEF OpenCodeStatus, OpenCodeTakesMail
<1>2. Letter \in Letters /\ Tail(mail) \in Seq(Letters)
  BY <1>1, LetterTaken
<1>3. mail' = Tail(mail)
  BY <1>2, FieldsTyped DEF OpenCodeStatus, OpenCodeTakesMail, TakesMail
<1>4. Tail(mail) \in Seq(Letters)
  BY <1>2, AgentTyped, FieldsTyped, LettersTyped, SeqsTyped DEF Results
<1>5. mail' \in Seq(Letters)
  BY <1>3, <1>4, FieldsTyped
<1>6. flow' = flow \/ flow' = [flow EXCEPT !.status = "working"]
        \/ flow' = [flow EXCEPT !.status = "idle"]
  BY <1>2, FieldsTyped DEF OpenCodeStatus, OpenCodeTakesMail, TakesMail
<1>7. [flow EXCEPT !.status = "working"] \in FlowSet /\ [flow EXCEPT !.status = "idle"] \in FlowSet
  BY <1>2, FieldsTyped, FlowSetters
<1>8. flow' \in FlowSet
  BY <1>6, <1>7, FieldsTyped
<1>9. out' = out \/ out' = out \o Restated("working") \/ out' = out \o Restated("idle")
  BY <1>2, FieldsTyped DEF OpenCodeStatus, OpenCodeTakesMail, TakesMail, Emit
<1>10. out \o Restated("working") \in Seq(EventSet) /\ out \o Restated("idle") \in Seq(EventSet)
  BY <1>2, EventsTyped, FactsTyped, ClosesTyped, RetractedOnce, FieldsTyped, SeqsTyped DEF Results
<1>11. out' \in Seq(EventSet)
  BY <1>9, <1>10, FieldsTyped
<1>12. LocalTyped'
  BY <1>5, <1>8, <1>11 DEF LocalTyped, OpenCodeStatus, OpenCodeTakesMail, TakesMail
<1>13. state' = state /\ commands' = commands /\ call' = call /\ agent' = agent
  BY DEF OpenCodeStatus, OpenCodeTakesMail, TakesMail
<1>14. Thins(mail, mail', AskedOf)
  BY <1>3, <1>2, MailThins, LettersTyped, Unasked, FieldsTyped
<1>15. Thins(agent.stream, agent'.stream, AskedOf) /\ agent'.asked = agent.asked
  BY <1>13, StreamThins
<1>16. Thins(commands, commands', AnswererOf)
  BY <1>13, <1>2, CommandsThin, CommandsTyped, ThreadsAssumption, NoneAssumption
<1>17. state'.pending \subseteq state.pending
  BY <1>13, FieldsTyped DEF StateSet
<1>18. \A u \in Answers : call'[u] = call[u] \/ (call'[u].at = "failed" /\ call'[u].of = call[u].of)
  BY <1>13, <1>2, FieldsTyped, ThreadsAssumption DEF CallSet, Calls
<1>19. Plain(Restated("working")) /\ Plain(Restated("idle"))
  BY <1>2, PlainShapes, PlainFacts, PlainJoined, EventsTyped, FieldsTyped DEF Results
<1>20. ResolvesNothing(out \o Restated("working")) /\ ResolvesNothing(out \o Restated("idle"))
  BY <1>19, PlainEmitted
<1>21. ResolvesNothing(out')
  BY <1>9, <1>20 DEF ResolvesNothing
<1>22. Quiet
  BY <1>14, <1>15, <1>16, <1>17, <1>18, <1>21 DEF Quiet
<1> QED BY <1>12, <1>22

LEMMA OpenCodePromptDoneQuiet ==
  ASSUME LocalTyped, OpenCodePromptDone
  PROVE  LocalTyped' /\ Quiet
<1>1. TakesMail({"done"})
  BY DEF OpenCodePromptDone, OpenCodeTakesMail
<1>2. Letter \in Letters /\ Tail(mail) \in Seq(Letters) /\ Letter.of \in Results
  BY <1>1, LetterTaken
<1>3. Outcome \in Results
  BY <1>2, FieldsTyped, SeqsTyped, NoneAssumption, LettersTyped
     DEF OpenCodePromptDone, OpenCodeTakesMail, TakesMail, Calls, Results, Outcome
<1>4. state' = state \/ state' = [state EXCEPT !.active = IF @ = flow.run THEN None ELSE @,
        !.pending = {}]
  BY <1>2, <1>3, FieldsTyped DEF OpenCodePromptDone, OpenCodeTakesMail, TakesMail
<1>5. [state EXCEPT !.active = IF @ = flow.run THEN None ELSE @, !.pending = {}] \in StateSet
  BY <1>2, <1>3, FieldsTyped, StateSetters, ParkedSets, ClosesTyped DEF Models
<1>6. state' \in StateSet
  BY <1>4, <1>5, FieldsTyped
<1>7. mail' = Tail(mail)
  BY <1>2, <1>3, FieldsTyped DEF OpenCodePromptDone, OpenCodeTakesMail, TakesMail
<1>8. Tail(mail) \in Seq(Letters)
  BY <1>2, <1>3, AgentTyped, FieldsTyped, LettersTyped, SeqsTyped DEF Results
<1>9. mail' \in Seq(Letters)
  BY <1>7, <1>8, FieldsTyped
<1>10. flow' = flow \/ flow' = NoFlow
  BY <1>2, <1>3, FieldsTyped DEF OpenCodePromptDone, OpenCodeTakesMail, TakesMail
<1>11. NoFlow \in FlowSet
  BY <1>2, <1>3, FieldsTyped, FlowSetters
<1>12. flow' \in FlowSet
  BY <1>10, <1>11, FieldsTyped
<1>13. out' = out \/ out' = out \o (RunEnds(flow.run, Outcome) \o Restated("idle"))
  BY <1>2, <1>3, FieldsTyped DEF OpenCodePromptDone, OpenCodeTakesMail, TakesMail, Emit
<1>14. out \o (RunEnds(flow.run, Outcome) \o Restated("idle")) \in Seq(EventSet)
  BY <1>2, <1>3, EventsTyped, FactsTyped, ClosesTyped, RetractedOnce, FieldsTyped, SeqsTyped DEF Results
<1>15. out' \in Seq(EventSet)
  BY <1>13, <1>14, FieldsTyped
<1>16. LocalTyped'
  BY <1>6, <1>9, <1>12, <1>15 DEF LocalTyped, OpenCodePromptDone, OpenCodeTakesMail, TakesMail
<1>17. commands' = commands /\ call' = call /\ agent' = agent
  BY DEF OpenCodePromptDone, OpenCodeTakesMail, TakesMail
<1>18. Thins(mail, mail', AskedOf)
  BY <1>7, <1>2, <1>3, MailThins, LettersTyped, Unasked, FieldsTyped
<1>19. Thins(agent.stream, agent'.stream, AskedOf) /\ agent'.asked = agent.asked
  BY <1>17, StreamThins
<1>20. Thins(commands, commands', AnswererOf)
  BY <1>17, <1>2, <1>3, CommandsThin, CommandsTyped, ThreadsAssumption, NoneAssumption
<1>21. state'.pending \subseteq state.pending
  BY <1>4, FieldsTyped DEF StateSet
<1>22. \A u \in Answers : call'[u] = call[u] \/ (call'[u].at = "failed" /\ call'[u].of = call[u].of)
  BY <1>17, <1>2, <1>3, FieldsTyped, ThreadsAssumption DEF CallSet, Calls
<1>23. Plain((RunEnds(flow.run, Outcome) \o Restated("idle")))
  BY <1>2, <1>3, PlainShapes, PlainFacts, PlainJoined, EventsTyped, FieldsTyped DEF Results
<1>24. ResolvesNothing(out \o (RunEnds(flow.run, Outcome) \o Restated("idle")))
  BY <1>23, PlainEmitted
<1>25. ResolvesNothing(out')
  BY <1>13, <1>24 DEF ResolvesNothing
<1>26. Quiet
  BY <1>18, <1>19, <1>20, <1>21, <1>22, <1>25 DEF Quiet
<1> QED BY <1>16, <1>26

-----------------------------------------------------------------------------
(* The steps that are not quiet: a host takes a parked request, its answer  *)
(* is queued, the agent asks, an event arrives, the driver parks a request, *)
(* answers one, hears that another client did, or retracts them all.        *)
LEMMA AnswerKeepsLedger ==
  ASSUME LocalTyped, Ledger, NEW t \in Answers, Answer(t)
  PROVE  Ledger'
<1>1. PICK q \in Requests :
         LET taken == ~state.closed /\ q \in state.pending
         IN /\ call' = [call EXCEPT ![t] = [at |-> IF taken THEN "checked" ELSE "failed", of |-> q]]
            /\ state' = IF taken THEN [state EXCEPT !.pending = @ \ {q}] ELSE state
  BY DEF Answer
<1>2. /\ call[t].at = "idle" /\ commands' = commands /\ mail' = mail /\ agent' = agent /\ out' = out
      /\ t \in Calls /\ call \in [Calls -> CallSet] /\ state \in StateSet
  BY FieldsTyped DEF Answer, MayCall, Calls
<1>3. AskedOnce' /\ Asking' = Asking /\ Resolved' = Resolved /\ Distinct(out', ResolvedOf)
  BY <1>2 DEF Ledger, AskedOnce, Asking, Resolved, ResolvedOnce
<1>4. t \notin Holders /\ t \notin Keys(commands, AnswererOf)
  BY <1>2, HoldersAre DEF Holders
<1>5. \A u \in Calls : u # t => call'[u] = call[u]
  BY <1>1, <1>2
<1>6. QueuedOnce'
  BY <1>2, <1>4, <1>5 DEF Ledger, QueuedOnce, Calls
<1>7. call'[t].at # "ok" => ResolvedOnce'
  BY <1>3, <1>5 DEF Ledger, ResolvedOnce, Calls
<1>8. CASE ~state.closed /\ q \in state.pending
  <2>1. call'[t] = [at |-> "checked", of |-> q] /\ state'.pending = state.pending \ {q}
    BY <1>1, <1>2, <1>8 DEF StateSet
  <2>2. Holders' = Holders \cup {t} /\ \A u \in Holders : call'[u].of = call[u].of
    BY <1>2, <1>4, <1>5, <2>1, HoldersAre DEF Holders, Calls
  <2>3. Held' = Held \cup {q}
    BY <2>1, <2>2 DEF Held
  <2>4. q \notin Held /\ q \notin Resolved /\ q \notin Asking /\ q \in agent.asked
    BY <1>8 DEF Ledger, OnePlace
  <2>5. \A u, v \in Holders' : (call[u].of = call[v].of => u = v)'
    <3>1. \A u \in Holders : call[u].of # q
      BY <2>4 DEF Held
    <3> QED BY <2>1, <2>2, <3>1 DEF Ledger, OnePlace
  <2>6. OnePlace'
    BY <1>2, <1>3, <2>1, <2>3, <2>4, <2>5 DEF Ledger, OnePlace
  <2> QED BY <1>3, <1>6, <1>7, <2>1, <2>6 DEF Ledger
<1>9. CASE ~(~state.closed /\ q \in state.pending)
  <2>1. call'[t] = [at |-> "failed", of |-> q] /\ state' = state
    BY <1>1, <1>2, <1>9
  <2>2. Holders' = Holders /\ \A u \in Holders : call'[u].of = call[u].of
    BY <1>2, <1>4, <1>5, <2>1, HoldersAre DEF Holders, Calls
  <2>3. Held' = Held
    BY <2>2 DEF Held
  <2>4. OnePlace'
    BY <1>2, <1>3, <2>1, <2>2, <2>3 DEF Ledger, OnePlace
  <2> QED BY <1>3, <1>6, <1>7, <2>1, <2>4 DEF Ledger
<1> QED BY <1>8, <1>9

LEMMA PostCommandKeepsLedger ==
  ASSUME LocalTyped, Ledger, NEW t \in Calls, PostCommand(t)
  PROVE  Ledger'
<1>1. /\ call[t].at = "checked" /\ state' = state /\ mail' = mail /\ agent' = agent /\ out' = out
      /\ call \in [Calls -> CallSet] /\ commands \in Seq(CommandSet)
  BY FieldsTyped DEF PostCommand
<1>2. AskedOnce' /\ Asking' = Asking /\ Resolved' = Resolved /\ Distinct(out', ResolvedOf)
  BY <1>1 DEF Ledger, AskedOnce, Asking, Resolved, ResolvedOnce
<1>3. t \notin Keys(commands, AnswererOf)
  BY <1>1, HoldersAre
<1>4. \/ /\ call' = [call EXCEPT ![t].at = "posted"]
         /\ commands' = Append(commands, [what |-> "call", by |-> t])
      \/ call' = [call EXCEPT ![t].at = "failed"] /\ commands' = commands
  BY DEF PostCommand, Told
<1>5. /\ \A u \in Calls : u # t => call'[u] = call[u]
      /\ call'[t].of = call[t].of /\ call'[t].at \in {"posted", "failed"}
  BY <1>1, <1>4 DEF CallSet
<1>6. /\ Keys(commands', AnswererOf) \subseteq Keys(commands, AnswererOf) \cup {t}
      /\ Distinct(commands', AnswererOf)
      /\ \A u \in Keys(commands', AnswererOf) : u \in Answers
      /\ Keys(commands, AnswererOf) \subseteq Answers
  <2>1. CASE commands' = commands
    BY <2>1 DEF Ledger, QueuedOnce
  <2>2. CASE commands' = Append(commands, [what |-> "call", by |-> t])
    <3>1. [what |-> "call", by |-> t] \in CommandSet
      BY CommandsTyped
    <3>2. AnswererOf[[what |-> "call", by |-> t]] = IF t \in Answers THEN t ELSE None
      BY <3>1 DEF AnswererOf
    <3>3. /\ Keys(commands', AnswererOf) = Keys(commands, AnswererOf) \cup Key(AnswererOf,
               [what |-> "call", by |-> t])
          /\ (Distinct(commands, AnswererOf)
               /\ AnswererOf[[what |-> "call", by |-> t]] \notin Keys(commands, AnswererOf)
                => Distinct(commands', AnswererOf))
      BY <1>1, <2>2, <3>1, KeysAppended
    <3>4. None \notin Keys(commands, AnswererOf)
      BY DEF Keys
    <3> QED BY <1>3, <3>2, <3>3, <3>4 DEF Ledger, QueuedOnce, Key
  <2> QED BY <1>4, <2>1, <2>2
<1>7. QueuedOnce'
  BY <1>1, <1>5, <1>6 DEF Ledger, QueuedOnce, Calls
<1>8. Holders' \subseteq Holders /\ \A u \in Holders : u \in Answers /\ call'[u].of = call[u].of
  BY <1>1, <1>5, <1>6, HoldersAre DEF Holders, Calls
<1>9. Held' \subseteq Held
  BY <1>8 DEF Held
<1>10. OnePlace'
  <2>1. \A u, v \in Holders' : (call[u].of = call[v].of => u = v)'
    BY <1>8 DEF Ledger, OnePlace
  <2> QED BY <1>1, <1>2, <1>9, <2>1 DEF Ledger, OnePlace
<1>11. ResolvedOnce'
  BY <1>2, <1>5 DEF Ledger, ResolvedOnce, Calls
<1> QED BY <1>2, <1>7, <1>10, <1>11 DEF Ledger

LEMMA AgentAsksKeepsLedger ==
  ASSUME LocalTyped, Ledger, AgentAsks
  PROVE  Ledger'
<1>1. PICK q \in Requests \ agent.asked :
         /\ Speaks(Mail("request", Turn, q))
         /\ agent' = [agent EXCEPT !.lines = @ + 1, !.asked = @ \cup {q}, !.open = @ \cup {q},
                                   !.stream = @ \o Streamed(Mail("request", Turn, q))]
  BY DEF AgentAsks
<1>2. state' = state /\ commands' = commands /\ call' = call /\ out' = out
  BY DEF AgentAsks, SaysOnly
<1>3. Turn \in Sends /\ mail \in Seq(Letters) /\ agent.stream \in Seq(Letters)
  BY FieldsTyped, SeqsTyped, LettersTyped DEF AgentAsks, MayTalk, Working, Turn
<1> DEFINE l == Mail("request", Turn, q)
<1>4. l \in Letters /\ AskedOf[l] = q /\ q # None
  BY <1>3, LettersTyped, NoneAssumption DEF AskedOf, Mail
<1>5. /\ agent'.asked = agent.asked \cup {q}
      /\ agent'.stream = agent.stream \o Streamed(l)
  BY <1>1, FieldsTyped DEF AgentSet
<1> HIDE DEF l
<1>6. \/ mail' = mail /\ agent'.stream = agent.stream \o <<l>>
      \/ mail' = Append(mail, l) /\ agent'.stream = agent.stream
  <2>1. agent.stream \o << >> = agent.stream
    BY <1>3
  <2> QED BY <1>1, <1>5, <2>1 DEF Speaks, Streamed, l
<1>7. q \notin Asking /\ q \notin state.pending /\ q \notin Held /\ q \notin Resolved
  BY DEF Ledger, OnePlace
<1>8. AskedOnce' /\ Asking' = Asking \cup {q}
  <2>1. CASE mail' = mail /\ agent'.stream = agent.stream \o <<l>>
    <3>1. /\ Keys(agent'.stream, AskedOf) = Keys(agent.stream, AskedOf) \cup Key(AskedOf, l)
          /\ Distinct(agent.stream, AskedOf) /\ AskedOf[l] \notin Keys(agent.stream, AskedOf)
               => Distinct(agent'.stream, AskedOf)
      <4>1. \A s \in Seq(Letters), x \in Letters :
              /\ Keys(s \o <<x>>, AskedOf) = Keys(s, AskedOf) \cup Key(AskedOf, x)
              /\ Distinct(s, AskedOf) /\ AskedOf[x] \notin Keys(s, AskedOf)
                   => Distinct(s \o <<x>>, AskedOf)
        BY KeysConcat
      <4> QED BY <1>3, <1>4, <2>1, <4>1
    <3> QED BY <1>4, <1>7, <2>1, <3>1 DEF Ledger, AskedOnce, Asking, Key
  <2>2. CASE mail' = Append(mail, l) /\ agent'.stream = agent.stream
    <3>1. /\ Keys(mail', AskedOf) = Keys(mail, AskedOf) \cup Key(AskedOf, l)
          /\ Distinct(mail, AskedOf) /\ AskedOf[l] \notin Keys(mail, AskedOf)
               => Distinct(mail', AskedOf)
      <4>1. \A s \in Seq(Letters), x \in Letters :
              /\ Keys(Append(s, x), AskedOf) = Keys(s, AskedOf) \cup Key(AskedOf, x)
              /\ Distinct(s, AskedOf) /\ AskedOf[x] \notin Keys(s, AskedOf)
                   => Distinct(Append(s, x), AskedOf)
        BY KeysAppended
      <4> QED BY <1>3, <1>4, <2>2, <4>1
    <3> QED BY <1>4, <1>7, <2>2, <3>1 DEF Ledger, AskedOnce, Asking, Key
  <2> QED BY <1>6, <2>1, <2>2
<1>9. QueuedOnce' /\ Holders' = Holders /\ Held' = Held /\ Resolved' = Resolved /\ ResolvedOnce'
  BY <1>2 DEF Ledger, QueuedOnce, Holders, Held, Resolved, ResolvedOnce
<1>10. OnePlace'
  BY <1>2, <1>5, <1>7, <1>8, <1>9 DEF Ledger, OnePlace
<1> QED BY <1>8, <1>9, <1>10 DEF Ledger

LEMMA EventArrivesKeepsLedger ==
  ASSUME LocalTyped, Ledger, EventArrives
  PROVE  Ledger'
<1> DEFINE l == Head(agent.stream)
<1>1. /\ agent.stream # << >> /\ mail' = Append(mail, l)
      /\ agent'.stream = Tail(agent.stream) /\ agent'.asked = agent.asked
      /\ state' = state /\ commands' = commands /\ call' = call /\ out' = out
  BY FieldsTyped DEF EventArrives, SaysOnly, AgentSet
<1>2. mail \in Seq(Letters) /\ agent.stream \in Seq(Letters) /\ l \in Letters
  BY <1>1, FieldsTyped, SeqsTyped, LettersTyped
<1>3. /\ Keys(agent.stream, AskedOf) = Keys(agent'.stream, AskedOf) \cup Key(AskedOf, l)
      /\ Distinct(agent.stream, AskedOf) => /\ Distinct(agent'.stream, AskedOf)
                                            /\ AskedOf[l] \notin Keys(agent'.stream, AskedOf)
  <2>1. \A s \in Seq(Letters) : s # << >> =>
          /\ Keys(s, AskedOf) = Keys(Tail(s), AskedOf) \cup Key(AskedOf, Head(s))
          /\ Distinct(s, AskedOf) => Distinct(Tail(s), AskedOf)
               /\ AskedOf[Head(s)] \notin Keys(Tail(s), AskedOf)
    BY KeysTail
  <2> QED BY <1>1, <1>2, <2>1
<1>4. /\ Keys(mail', AskedOf) = Keys(mail, AskedOf) \cup Key(AskedOf, l)
      /\ Distinct(mail, AskedOf) /\ AskedOf[l] \notin Keys(mail, AskedOf) => Distinct(mail', AskedOf)
  <2>1. \A s \in Seq(Letters), x \in Letters :
          /\ Keys(Append(s, x), AskedOf) = Keys(s, AskedOf) \cup Key(AskedOf, x)
          /\ Distinct(s, AskedOf) /\ AskedOf[x] \notin Keys(s, AskedOf) => Distinct(Append(s, x), AskedOf)
    BY KeysAppended
  <2> QED BY <1>1, <1>2, <2>1
<1>5. AskedOf[l] \notin Keys(mail, AskedOf)
  <2>1. None \notin Keys(mail, AskedOf)
    BY DEF Keys
  <2> QED BY <1>3, <2>1 DEF Ledger, AskedOnce, Key
<1> HIDE DEF l
<1>6. AskedOnce' /\ Asking' = Asking
  BY <1>3, <1>4, <1>5 DEF Ledger, AskedOnce, Asking, Key
<1>7. QueuedOnce' /\ Holders' = Holders /\ Held' = Held /\ Resolved' = Resolved /\ ResolvedOnce'
  BY <1>1 DEF Ledger, QueuedOnce, Holders, Held, Resolved, ResolvedOnce
<1>8. OnePlace'
  BY <1>1, <1>6, <1>7 DEF Ledger, OnePlace
<1> QED BY <1>6, <1>7, <1>8 DEF Ledger

LEMMA RequestsKeepLedger ==
  ASSUME LocalTyped, Ledger, CodexServerRequest \/ AcpPermission \/ OpenCodePermission
  PROVE  Ledger'
<1>1. /\ mail # << >> /\ Letter.what = "request" /\ mail' = Tail(mail) /\ commands' = commands
      /\ Letter.of \in Requests
  <2>1. TakesMail({"request"})
    BY DEF CodexServerRequest, AcpPermission, OpenCodePermission, CodexTakesMail, AcpTakesMail,
       OpenCodeTakesMail
  <2>2. commands' = commands
    BY <2>1 DEF TakesMail
  <2> QED BY <2>1, <2>2, LetterTaken
<1>2. call' = call
  BY DEF CodexServerRequest, AcpPermission, OpenCodePermission
<1>3. state' = state \/ state' = [state EXCEPT !.pending = @ \cup {Letter.of}]
  BY DEF CodexServerRequest, AcpPermission, OpenCodePermission
<1>4. state'.pending \subseteq state.pending \cup {Letter.of}
  BY <1>3, FieldsTyped DEF StateSet
<1>5. agent' = agent \/ agent' = [agent EXCEPT !.open = @ \ {Letter.of}]
  BY DEF CodexServerRequest, AcpPermission, OpenCodePermission
<1>6. agent'.stream = agent.stream /\ agent'.asked = agent.asked
  BY <1>5, FieldsTyped DEF AgentSet
<1>7. Plain(Offered(Letter.of))
      /\ Plain(Restated("waiting") \o <<Event("requested", flow.run, Letter.of)>>)
  <2>1. Event("requested", flow.run, Letter.of) \in EventSet
    BY <1>1, EventsTyped, FieldsTyped
  <2>2. Plain(<<Event("requested", flow.run, Letter.of)>>) /\ Plain(Restated("waiting"))
    BY <2>1, PlainShapes, PlainFacts
  <2> QED BY <1>1, <2>2, PlainFacts, PlainJoined
<1>8. \/ out' = out \/ out' = out \o Offered(Letter.of)
      \/ out' = out \o (Restated("waiting") \o <<Event("requested", flow.run, Letter.of)>>)
  BY DEF CodexServerRequest, AcpPermission, OpenCodePermission, Emit
<1>9. \E e : Plain(e) /\ (out' = out \o e \/ out' = out)
  BY <1>7, <1>8
<1>10. PICK e : Plain(e) /\ (out' = out \o e \/ out' = out)
  BY <1>9
<1> QED BY <1>1, <1>2, <1>4, <1>6, <1>10, ParkingKeepsLedger

LEMMA AnswersKeepLedger ==
  ASSUME LocalTyped, Ledger, CodexAnswer \/ AcpAnswer \/ OpenCodeAnswer
  PROVE  Ledger'
<1>1. TakesCommand(Answers)
  BY DEF CodexAnswer, AcpAnswer, OpenCodeAnswer, CodexTakesCommand, AcpTakesCommand, OpenCodeTakesCommand
<1>2. call[By].of \in Requests
  BY <1>1, AnswerCommand
<1>3. mail' = mail /\ state' = state
  BY DEF CodexAnswer, AcpAnswer, OpenCodeAnswer
<1> DEFINE q == call[By].of
<1>4. \/ agent' = agent \/ agent' = [agent EXCEPT !.open = @ \ {q}]
      \/ agent' = [agent EXCEPT !.open = @ \ {q}, !.stream = @ \o Echo(q)]
  BY DEF CodexAnswer, AcpAnswer, OpenCodeAnswer
<1>5. agent'.asked = agent.asked
      /\ (agent'.stream = agent.stream \/ agent'.stream = agent.stream \o Echo(q))
  BY <1>4, FieldsTyped DEF AgentSet
<1>6. Thins(agent.stream, agent'.stream, AskedOf)
  <2>1. Mail("replied", None, q) \in StreamLetters /\ Mail("replied", None, q).what # "request"
    BY <1>2, LettersTyped, Unasked
  <2>2. agent.stream \o << >> = agent.stream
    BY FieldsTyped
  <2>3. Echo(q) = << >> \/ Echo(q) = <<Mail("replied", None, q)>>
    BY DEF Echo
  <2> QED BY <1>5, <2>1, <2>2, <2>3, StreamThins
<1> DEFINE two == <<Event("resolved", None, q), Status("working")>>
           one == <<Event("resolved", None, q)>>
<1>7. \/ Replied(By, "failed") /\ out' = out
      \/ Replied(By, "ok") /\ (out' = out \o two \/ out' = out \o (one \o Restated("working")))
  BY DEF CodexAnswer, AcpAnswer, OpenCodeAnswer, Emit
<1>8. Plain(Restated("working"))
  BY PlainFacts
<1>9. /\ two \in Seq(EventSet) /\ Keys(two, ResolvedOf) = {q} /\ Distinct(two, ResolvedOf)
      /\ one \in Seq(EventSet) /\ Keys(one, ResolvedOf) = {q} /\ Distinct(one, ResolvedOf)
  BY <1>2, EmittedKeys
<1> HIDE DEF one, two
<1>10. /\ one \o Restated("working") \in Seq(EventSet) /\ Distinct(one \o Restated("working"), ResolvedOf)
       /\ Keys(one \o Restated("working"), ResolvedOf) = {q}
  BY <1>8, <1>9, EmittedKeys
<1>11. \/ Replied(By, "failed") /\ out' = out
       \/ /\ Replied(By, "ok")
          /\ \E e \in Seq(EventSet) : /\ out' = out \o e /\ Distinct(e, ResolvedOf)
                                      /\ Keys(e, ResolvedOf) = {q}
  BY <1>7, <1>9, <1>10
<1> QED BY <1>1, <1>3, <1>5, <1>6, <1>11, AnsweringKeepsLedger

LEMMA OpenCodeRepliedKeepsLedger ==
  ASSUME LocalTyped, Ledger, OpenCodeReplied
  PROVE  Ledger'
<1>1. /\ mail # << >> /\ mail' = Tail(mail) /\ commands' = commands /\ Letter.of \in Requests
  <2>1. TakesMail({"replied"})
    BY DEF OpenCodeReplied, OpenCodeTakesMail
  <2>2. commands' = commands
    BY <2>1 DEF TakesMail
  <2> QED BY <2>1, <2>2, LetterTaken
<1>2. /\ call' = call /\ agent' = agent /\ Thins(mail, mail', AskedOf)
      /\ Thins(commands, commands', AnswererOf)
  BY <1>1, MailThins, CommandsThin DEF OpenCodeReplied
<1> DEFINE one == <<Event("resolved", None, Letter.of)>>
           e == one \o Restated("working")
<1>3. one \in Seq(EventSet) /\ Keys(one, ResolvedOf) = {Letter.of} /\ Distinct(one, ResolvedOf)
      /\ Plain(Restated("working"))
  BY <1>1, EmittedKeys, PlainFacts
<1> HIDE DEF one
<1>4. e \in Seq(EventSet) /\ Keys(e, ResolvedOf) = {Letter.of} /\ Distinct(e, ResolvedOf)
  BY <1>3, EmittedKeys
<1>5. \/ /\ Letter.of \in state.pending /\ state' = [state EXCEPT !.pending = @ \ {Letter.of}]
         /\ out' = out \o e
      \/ state' = state /\ out' = out
  BY DEF OpenCodeReplied, Emit, one
<1> HIDE DEF e
<1>6. CASE /\ Letter.of \in state.pending /\ state' = [state EXCEPT !.pending = @ \ {Letter.of}]
           /\ out' = out \o e
  <2>1. state'.pending = state.pending \ {Letter.of}
    BY <1>6, FieldsTyped DEF StateSet
  <2> QED BY <1>2, <1>4, <1>6, <2>1, RetractingKeepsLedger
<1>7. CASE state' = state /\ out' = out
  <2>1. << >> \in Seq(EventSet) /\ Keys(<< >>, ResolvedOf) = {} /\ Distinct(<< >>, ResolvedOf)
    BY EmittedKeys, PlainShapes
  <2>2. out \o << >> = out
    BY FieldsTyped
  <2> QED BY <1>2, <1>7, <2>1, <2>2, RetractingKeepsLedger
<1> QED BY <1>5, <1>6, <1>7

LEMMA RetractedKeys ==
  ASSUME LocalTyped
  PROVE  /\ Retracted \in Seq(EventSet) /\ Distinct(Retracted, ResolvedOf)
         /\ Keys(Retracted, ResolvedOf) \subseteq state.pending
<1>1. /\ Retracted \in Seq(EventSet)
      /\ \A i \in DOMAIN Retracted : Retracted[i].what = "resolved" /\ Retracted[i].of \in state.pending
      /\ \A i, j \in DOMAIN Retracted : Retracted[i].of = Retracted[j].of => i = j
  BY RetractedOnce
<1>2. \A i \in DOMAIN Retracted : ResolvedOf[Retracted[i]] = Retracted[i].of
  BY <1>1, SeqsTyped DEF ResolvedOf
<1> QED BY <1>1, <1>2 DEF Distinct, Keys

LEMMA RetractionsKeepLedger ==
  ASSUME LocalTyped, Ledger, AcpCancelTurn \/ AcpPromptDone
  PROVE  Ledger'
<1>1. CASE AcpCancelTurn
  <2>1. TakesCommand(Cancels)
    BY <1>1 DEF AcpCancelTurn, AcpTakesCommand
  <2>2. By \in Cancels /\ Thins(commands, commands', AnswererOf)
    BY <2>1, CommandTaken, CommandsThin DEF Calls
  <2>3. mail' = mail
    BY <1>1 DEF AcpCancelTurn
  <2>4. \A t \in Answers : call'[t] = call[t]
    <3>1. call' = call \/ call' = [call EXCEPT ![By].at = "ok"]
            \/ call' = [call EXCEPT ![By].at = "failed"]
      BY <1>1 DEF AcpCancelTurn, Replied
    <3>2. By \notin Answers
      BY <2>2, ThreadsAssumption
    <3> QED BY <3>1, <3>2, FieldsTyped DEF Calls
  <2>5. agent' = agent \/ agent' = [agent EXCEPT !.interrupted = @ \/ agent.turns # <<>>,
                                    !.open = @ \ state.pending]
    BY <1>1 DEF AcpCancelTurn
  <2>6. agent'.stream = agent.stream /\ agent'.asked = agent.asked
    BY <2>5, FieldsTyped DEF AgentSet
  <2>7. CASE out' = out \o Retracted /\ state' = [state EXCEPT !.pending = {}]
    <3>1. state'.pending = {}
      BY <2>7, FieldsTyped DEF StateSet
    <3>2. Keys(Retracted, ResolvedOf) \subseteq state.pending /\ Retracted \in Seq(EventSet)
          /\ Distinct(Retracted, ResolvedOf)
      BY RetractedKeys
    <3> HIDE DEF Retracted
    <3> QED BY <2>2, <2>3, <2>4, <2>6, <2>7, <3>1, <3>2, MailThins, RetractingKeepsLedger
  <2>8. CASE out' = out /\ state' = state
    <3>1. << >> \in Seq(EventSet) /\ Keys(<< >>, ResolvedOf) = {} /\ Distinct(<< >>, ResolvedOf)
      BY EmittedKeys, PlainShapes
    <3>2. out' = out \o << >>
      BY <2>8, FieldsTyped
    <3>3. state'.pending \subseteq state.pending \ {}
      BY <2>8
    <3> QED BY <2>2, <2>3, <2>4, <2>6, <3>1, <3>2, <3>3, MailThins, RetractingKeepsLedger
  <2> QED BY <1>1, <2>7, <2>8 DEF AcpCancelTurn, Emit
<1>2. CASE AcpPromptDone
  <2>1. TakesMail({"done"})
    BY <1>2 DEF AcpPromptDone, AcpTakesMail
  <2>2. mail # << >> /\ mail' = Tail(mail) /\ Letter.of \in Results /\ commands' = commands
    <3>1. commands' = commands
      BY <2>1 DEF TakesMail
    <3> QED BY <2>1, <3>1, LetterTaken
  <2>3. Thins(mail, mail', AskedOf) /\ Thins(commands, commands', AnswererOf)
    BY <2>2, MailThins, CommandsThin
  <2>4. call' = call /\ agent' = agent /\ state'.pending = {}
    BY <1>2, FieldsTyped DEF AcpPromptDone, StateSet
  <2>5. Plain(RunEnds(flow.run, Letter.of)) /\ Plain(IdleUnlessClosed)
    BY <2>2, PlainFacts, FieldsTyped
  <2> DEFINE ends == RunEnds(flow.run, Letter.of)
             e == Retracted \o ends \o IdleUnlessClosed
  <2>6. out' = out \o e
    BY <1>2 DEF AcpPromptDone, Emit
  <2>7. Retracted \in Seq(EventSet) /\ Distinct(Retracted, ResolvedOf)
        /\ Keys(Retracted, ResolvedOf) \subseteq state.pending
    BY RetractedKeys
  <2>8. Retracted \o ends \in Seq(EventSet) /\ Distinct(Retracted \o ends, ResolvedOf)
        /\ Keys(Retracted \o ends, ResolvedOf) \subseteq state.pending
    BY <2>5, <2>7, EmittedKeys
  <2>9. e \in Seq(EventSet) /\ Distinct(e, ResolvedOf) /\ Keys(e, ResolvedOf) \subseteq state.pending
    BY <2>5, <2>8, EmittedKeys
  <2> HIDE DEF e
  <2> QED BY <2>3, <2>4, <2>6, <2>9, RetractingKeepsLedger
<1> QED BY <1>1, <1>2

(* A session starts with no request at all.                                 *)
LEMMA LocalInitSound == LocalInit => LocalTyped /\ Ledger
<1> SUFFICES ASSUME LocalInit PROVE LocalTyped /\ Ledger
  OBVIOUS
<1> USE DEF LocalInit
<1>1. kind \in {"codex", "acp", "opencode"} \cap Kinds
  BY KindsAssumption
<1>2. state \in StateSet
  BY ParkedSets DEF StateSet, Models
<1>3. commands \in Seq(CommandSet) /\ mail \in Seq(Letters) /\ out \in Seq(EventSet)
  BY SeqsTyped
<1>4. flow \in FlowSet
  BY FlowSetters DEF FlowSet, NoFlow
<1>5. call \in [Calls -> CallSet]
  BY DEF CallSet
<1>6. agent \in AgentSet
  BY SeqsTyped DEF AgentSet
<1>7. LocalTyped
  BY <1>1, <1>2, <1>3, <1>4, <1>5, <1>6 DEF LocalTyped
<1>8. /\ Keys(mail, AskedOf) = {} /\ Distinct(mail, AskedOf)
      /\ Keys(agent.stream, AskedOf) = {} /\ Distinct(agent.stream, AskedOf)
      /\ Keys(commands, AnswererOf) = {} /\ Distinct(commands, AnswererOf)
      /\ Keys(out, ResolvedOf) = {} /\ Distinct(out, ResolvedOf)
  BY NoKeys
<1>9. \A t \in Answers : call[t].at = "idle"
  BY DEF Calls
<1>10. Holders = {} /\ Asking = {} /\ Resolved = {} /\ state.pending = {}
  BY <1>8, <1>9 DEF Holders, Asking, Resolved
<1> HIDE DEF LocalInit
<1>11. Held = {}
  BY <1>10 DEF Held
<1>12. Ledger
  BY <1>8, <1>9, <1>10, <1>11 DEF Ledger, AskedOnce, QueuedOnce, OnePlace, ResolvedOnce
<1> QED BY <1>7, <1>12

-----------------------------------------------------------------------------
(* The types of a Claude session's state.                                   *)

Inputs == {i \in [kind : Claude!Lines \cup Claude!Commands, of : Calls \cup Requests \cup {None}] :
             /\ i.kind \in {"request", "withdrawn"} => i.of \in Requests
             /\ i.kind = "user" => i.of \in Sends
             /\ i.kind = "answer" => i.of \in Answers
             /\ i.kind = "interrupt" => i.of \in Cancels
             /\ i.kind = "setModel" => i.of \in Sends \cup Selects}
PlainInputs == {i \in Inputs : i.kind \notin {"request", "answer"}}
PlainEvents == {e \in EventSet : e.what # "resolved"}
ClaudeStates == [closed : BOOLEAN, announced : BOOLEAN, closeEmitted : BOOLEAN,
                 active : Sends \cup {None}, pending : SUBSET Requests, selection : Models]
ClaudeFlows == [run : Sends \cup {None}, cancel : BOOLEAN, open : BOOLEAN]
ClaudeStages == {"idle", "checked", "posted", "storing", "clearing", "overdue", "late", "ok", "failed"}
ClaudeCalls == [at : ClaudeStages, of : Sends \cup Requests \cup {None}, decision : Decisions \cup {None}]
Providers == [alive : BOOLEAN, turns : Nat, asked : SUBSET Requests, open : SUBSET Requests,
              interrupted : BOOLEAN, model : Models, lines : Nat]

ClaudeRest ==
    /\ kind = "claude" /\ start \in {"waiting", "reported", "live", "failed"}
    /\ state \in ClaudeStates
    /\ driver \in {"handshake", "serving", "closing", "exited"} /\ flow \in ClaudeFlows
    /\ call \in [Calls -> ClaudeCalls]
    /\ stopper \in {"idle", "closing", "joining", "done"} /\ agent \in Providers
ClaudeTyped == ClaudeRest /\ mail \in Seq(Inputs) /\ out \in Seq(EventSet)

(* What ClaudeTyped says of each field, and of what steps build from them.  *)
LEMMA ClaudeFields ==
  ASSUME ClaudeTyped
  PROVE  /\ state \in ClaudeStates /\ flow \in ClaudeFlows /\ call \in [Calls -> ClaudeCalls]
         /\ agent \in Providers /\ mail \in Seq(Inputs) /\ out \in Seq(EventSet)
         /\ state.active \in Sends \cup {None} /\ state.pending \subseteq Requests
         /\ flow.run \in Sends \cup {None}
         /\ agent.asked \subseteq Requests /\ agent.open \subseteq Requests
         /\ agent.turns \in Nat /\ agent.lines \in Nat /\ agent.interrupted \in BOOLEAN
         /\ \A t \in Calls : call[t].of \in Sends \cup Requests \cup {None}
         /\ \A i \in DOMAIN out : out[i].run \in Sends \cup {None}
<1>1. \A i \in DOMAIN out : out[i] \in EventSet
  BY SeqsTyped DEF ClaudeTyped
<1>2. \A i \in DOMAIN out : out[i].run \in Sends \cup {None}
  BY <1>1 DEF EventSet
<1> QED BY <1>2 DEF ClaudeTyped, ClaudeRest, ClaudeStates, ClaudeFlows, ClaudeCalls, Providers

LEMMA ClaudeStateSetters ==
  ASSUME NEW s \in ClaudeStates
  PROVE  /\ \A a \in BOOLEAN : [s EXCEPT !.closed = a] \in ClaudeStates
         /\ \A a \in BOOLEAN : [s EXCEPT !.announced = a] \in ClaudeStates
         /\ \A a \in BOOLEAN, b \in BOOLEAN : [s EXCEPT !.closed = a, !.closeEmitted = b] \in ClaudeStates
         /\ \A a \in Sends \cup {None} : [s EXCEPT !.active = a] \in ClaudeStates
         /\ \A a \in Models : [s EXCEPT !.selection = a] \in ClaudeStates
         /\ \A a \in SUBSET Requests : [s EXCEPT !.pending = a] \in ClaudeStates
         /\ \A a \in Sends \cup {None}, b \in SUBSET Requests :
              [s EXCEPT !.active = a, !.pending = b] \in ClaudeStates
         /\ \A a : /\ [s EXCEPT !.closed = a].pending = s.pending
                      /\ [s EXCEPT !.announced = a].pending = s.pending
                   /\ [s EXCEPT !.active = a].pending = s.pending
                   /\ [s EXCEPT !.selection = a].pending = s.pending
                   /\ [s EXCEPT !.pending = a].pending = a
BY DEF ClaudeStates

LEMMA ClaudeShapes ==
  ASSUME NEW s \in ClaudeStates
  PROVE  /\ Claude!NoRun(s) \in ClaudeStates /\ Claude!NoRun(s).pending = {}
         /\ Claude!AfterClose(s) \in ClaudeStates /\ Claude!AfterClose(s).pending = s.pending
         /\ [Claude!NoRun(s) EXCEPT !.closed = TRUE] \in ClaudeStates
         /\ [Claude!NoRun(s) EXCEPT !.closed = TRUE].pending = {}
         /\ Claude!NoFlow \in ClaudeFlows /\ Claude!NoFlow.run = None
<1>1. Claude!NoRun(s) \in ClaudeStates /\ Claude!NoRun(s).pending = {}
  BY DEF ClaudeStates, Claude!NoRun
<1>2. Claude!AfterClose(s) \in ClaudeStates /\ Claude!AfterClose(s).pending = s.pending
  BY ClaudeStateSetters DEF ClaudeStates, Claude!AfterClose
<1>3. [Claude!NoRun(s) EXCEPT !.closed = TRUE] \in ClaudeStates
      /\ [Claude!NoRun(s) EXCEPT !.closed = TRUE].pending = {}
  BY DEF ClaudeStates, Claude!NoRun
<1>4. Claude!NoFlow \in ClaudeFlows /\ Claude!NoFlow.run = None
  BY DEF ClaudeFlows, Claude!NoFlow
<1> QED BY <1>1, <1>2, <1>3, <1>4

LEMMA ProviderShapes ==
  ASSUME NEW p \in Providers
  PROVE  /\ Claude!Dead(p) \in Providers /\ Claude!Dead(p).asked = p.asked
         /\ \A a \in BOOLEAN : [p EXCEPT !.interrupted = a] \in Providers
         /\ \A a \in Nat : [p EXCEPT !.turns = a] \in Providers
         /\ \A a \in Nat : [p EXCEPT !.lines = a] \in Providers
         /\ \A a \in Models : [p EXCEPT !.model = a] \in Providers
         /\ \A a \in SUBSET Requests : [p EXCEPT !.open = a] \in Providers
         /\ \A a \in SUBSET Requests, b \in Nat : [p EXCEPT !.open = a, !.lines = b] \in Providers
         /\ \A a \in SUBSET Requests, b \in BOOLEAN :
              [p EXCEPT !.open = a, !.interrupted = b] \in Providers
         /\ \A a \in SUBSET Requests, b \in SUBSET Requests, c \in Nat :
              [p EXCEPT !.asked = a, !.open = b, !.lines = c] \in Providers
         /\ \A a \in Nat, b \in SUBSET Requests, c \in BOOLEAN :
              [p EXCEPT !.turns = a, !.open = b, !.interrupted = c] \in Providers
         /\ \A a, b, c :
              /\ [p EXCEPT !.interrupted = a].asked = p.asked /\ [p EXCEPT !.turns = a].asked = p.asked
              /\ [p EXCEPT !.lines = a].asked = p.asked /\ [p EXCEPT !.model = a].asked = p.asked
              /\ [p EXCEPT !.open = a].asked = p.asked
              /\ [p EXCEPT !.open = a, !.lines = b].asked = p.asked
              /\ [p EXCEPT !.open = a, !.interrupted = b].asked = p.asked
              /\ [p EXCEPT !.turns = a, !.open = b, !.interrupted = c].asked = p.asked
              /\ [p EXCEPT !.asked = a, !.open = b, !.lines = c].asked = a
BY DEF Providers, Claude!Dead

LEMMA ClaudeCallSetters ==
  ASSUME call \in [Calls -> ClaudeCalls], NEW t \in Calls
  PROVE  /\ \A x \in ClaudeStages : [call EXCEPT ![t].at = x] \in [Calls -> ClaudeCalls]
         /\ \A x \in ClaudeStages, o \in Sends \cup Requests \cup {None} :
              [call EXCEPT ![t] = [@ EXCEPT !.of = o, !.at = x]] \in [Calls -> ClaudeCalls]
         /\ \A x \in ClaudeStages, o \in Sends \cup Requests \cup {None}, d \in Decisions :
              [call EXCEPT ![t] = [at |-> x, of |-> o, decision |-> d]] \in [Calls -> ClaudeCalls]
         /\ \A u \in Calls : u # t =>
              /\ \A x : [call EXCEPT ![t].at = x][u] = call[u]
              /\ \A x, o : [call EXCEPT ![t] = [@ EXCEPT !.of = o, !.at = x]][u] = call[u]
         /\ \A x : /\ [call EXCEPT ![t].at = x][t].at = x
                   /\ [call EXCEPT ![t].at = x][t].of = call[t].of
<1>1. \A x \in ClaudeStages : [call EXCEPT ![t].at = x] \in [Calls -> ClaudeCalls]
  BY DEF ClaudeCalls
<1>2. \A x \in ClaudeStages, o \in Sends \cup Requests \cup {None} :
              [call EXCEPT ![t] = [@ EXCEPT !.of = o, !.at = x]] \in [Calls -> ClaudeCalls]
  <2>1. \A x \in ClaudeStages, o \in Sends \cup Requests \cup {None} :
              [call[t] EXCEPT !.of = o, !.at = x] \in ClaudeCalls
    BY DEF ClaudeCalls
  <2> QED BY <2>1
<1>3. \A x \in ClaudeStages, o \in Sends \cup Requests \cup {None}, d \in Decisions :
              [call EXCEPT ![t] = [at |-> x, of |-> o, decision |-> d]] \in [Calls -> ClaudeCalls]
  <2>1. \A x \in ClaudeStages, o \in Sends \cup Requests \cup {None}, d \in Decisions :
              [at |-> x, of |-> o, decision |-> d] \in ClaudeCalls
    BY DEF ClaudeCalls
  <2> QED BY <2>1
<1>4. \A x : [call EXCEPT ![t].at = x][t].at = x /\ [call EXCEPT ![t].at = x][t].of = call[t].of
  BY DEF ClaudeCalls
<1> QED BY <1>1, <1>2, <1>3, <1>4

LEMMA InputsTyped ==
  /\ \A x, o : Claude!Input(x, o).kind = x /\ Claude!Input(x, o).of = o
  /\ \A t \in Sends : Claude!Input("user", t) \in PlainInputs
  /\ \A q \in Requests : Claude!Input("withdrawn", q) \in PlainInputs
  /\ \A q \in Requests : Claude!Input("request", q) \in Inputs
  /\ \A t \in Answers : Claude!Input("answer", t) \in Inputs
  /\ \A t \in Cancels : Claude!Input("interrupt", t) \in PlainInputs
  /\ \A t \in Sends \cup Selects : Claude!Input("setModel", t) \in PlainInputs
  /\ \A x \in {"delta", "assistant", "ok", "error", "aborted", "eof", "shutdown"} :
       Claude!Input(x, None) \in PlainInputs
  /\ PlainInputs \subseteq Inputs
BY DEF Claude!Input, PlainInputs, Inputs, Claude!Lines, Claude!Commands, Calls

LEMMA ClaudeEventsTyped ==
  /\ \A x \in {"created", "idle", "working", "waiting", "interrupted", "closed"} :
       Claude!Status(x) \in PlainEvents
  /\ \A r \in Sends \cup {None} : \A o \in Sends \cup Requests \cup {None} :
       \A x \in {"started", "delta", "requested", "messageDone", "completed", "failed", "cancelled"} :
         Claude!Event(x, r, o) \in PlainEvents
  /\ PlainEvents \subseteq EventSet
BY DEF Claude!Status, Claude!Event, PlainEvents, EventSet, Facts, Results

LEMMA ClaudeFacts ==
  ASSUME ClaudeTyped
  PROVE  /\ \A st : Claude!CloseFacts(st) \in Seq(PlainEvents)
         /\ Claude!StreamDone \in Seq(PlainEvents)
         /\ \A x \in {"completed", "failed", "cancelled"} : Claude!RunEnds(x) \in Seq(PlainEvents)
<1>1. \A st : Claude!CloseFacts(st) \in Seq(PlainEvents)
  BY ClaudeEventsTyped, SeqsTyped DEF Claude!CloseFacts
<1>2. Claude!StreamDone \in Seq(PlainEvents)
  BY ClaudeEventsTyped, SeqsTyped, ClaudeFields DEF Claude!StreamDone
<1>3. ASSUME NEW x \in {"completed", "failed", "cancelled"} PROVE Claude!RunEnds(x) \in Seq(PlainEvents)
  <2>1. Claude!Event(x, flow.run, None) \in PlainEvents
    BY ClaudeEventsTyped, ClaudeFields
  <2>2. <<Claude!Event(x, flow.run, None)>> \in Seq(PlainEvents) /\ << >> \in Seq(PlainEvents)
    BY <2>1, SeqsTyped
  <2>3. Claude!StreamDone \o <<Claude!Event(x, flow.run, None)>> \in Seq(PlainEvents)
    BY <1>2, <2>2, SeqsTyped
  <2> QED BY <2>2, <2>3 DEF Claude!RunEnds
<1> QED BY <1>1, <1>2, <1>3

LEMMA InputTaken ==
  ASSUME ClaudeTyped, NEW kinds, Claude!Takes(kinds)
  PROVE  /\ mail # << >> /\ Head(mail) \in Inputs /\ Tail(mail) \in Seq(Inputs)
         /\ Head(mail).kind \in kinds
         /\ Head(mail).kind \in {"request", "withdrawn"} => Claude!Of \in Requests
         /\ Head(mail).kind = "user" => Claude!Of \in Sends
         /\ Head(mail).kind = "answer" => Claude!Of \in Answers
         /\ Head(mail).kind = "interrupt" => Claude!Of \in Cancels
         /\ Head(mail).kind = "setModel" => Claude!Of \in Sends \cup Selects
<1>1. mail # << >> /\ Head(mail) \in Inputs /\ Tail(mail) \in Seq(Inputs) /\ Head(mail).kind \in kinds
  BY ClaudeFields, SeqsTyped DEF Claude!Takes
<1> QED BY <1>1 DEF Claude!Of, Inputs

-----------------------------------------------------------------------------
(* Where a request of a Claude session is.  Its queue carries both the      *)
(* requests and the answers.                                                *)

InputAsked == [i \in Inputs |-> IF i.kind = "request" THEN i.of ELSE None]
InputAnswers == [i \in Inputs |-> IF i.kind = "answer" THEN i.of ELSE None]

ClaudeAsking == Keys(mail, InputAsked)
ClaudeHolders == {t \in Answers : call[t].at = "checked"} \cup Keys(mail, InputAnswers)
ClaudeHeld == {call[t].of : t \in ClaudeHolders}

ClaudeQueuedOnce ==
    /\ Distinct(mail, InputAsked) /\ Distinct(mail, InputAnswers)
    /\ \A t \in Keys(mail, InputAnswers) : t \in Answers /\ call[t].at \in {"posted", "failed"}
    /\ \A t \in Answers : call[t].at # "storing"
ClaudeOnePlace ==
    /\ ClaudeAsking \cup state.pending \cup ClaudeHeld \cup Resolved \subseteq agent.asked
    /\ ClaudeAsking \cap (state.pending \cup ClaudeHeld \cup Resolved) = {}
    /\ state.pending \cap (ClaudeHeld \cup Resolved) = {} /\ ClaudeHeld \cap Resolved = {}
    /\ \A t, u \in ClaudeHolders : call[t].of = call[u].of => t = u

ClaudeLedger == ClaudeQueuedOnce /\ ClaudeOnePlace /\ ResolvedOnce

(* A quiet step of a Claude session.                                        *)
ClaudeQuiet ==
    /\ \/ mail' = mail \/ mail' = << >> \/ (mail # << >> /\ mail' = Tail(mail))
       \/ \E t \in Seq(PlainInputs) : mail' = mail \o t
    /\ \/ out' = out
       \/ \E e \in Seq(PlainEvents) : out' = out \o e
    /\ agent'.asked = agent.asked /\ state'.pending \subseteq state.pending
    /\ \A t \in Answers : \/ call'[t] = call[t]
                          \/ call'[t].at = "failed" /\ call'[t].of = call[t].of

(* What a quiet step emits and takes.                                       *)
LEMMA ClaudeEmits ==
  ASSUME ClaudeTyped, NEW e \in Seq(EventSet), out' = out \o e
  PROVE  /\ out' \in Seq(EventSet)
         /\ Resolved' = Resolved \cup Keys(e, ResolvedOf)
         /\ Distinct(out, ResolvedOf) /\ Distinct(e, ResolvedOf) /\ Resolved \cap Keys(e, ResolvedOf) = {}
              => Distinct(out', ResolvedOf)
<1>1. out \in Seq(EventSet)
  BY ClaudeFields
<1>2. /\ Keys(out \o e, ResolvedOf) = Keys(out, ResolvedOf) \cup Keys(e, ResolvedOf)
      /\ /\ Distinct(out, ResolvedOf) /\ Distinct(e, ResolvedOf)
         /\ Keys(out, ResolvedOf) \cap Keys(e, ResolvedOf) = {}
         => Distinct(out \o e, ResolvedOf)
  BY <1>1, KeysJoined
<1> QED BY <1>1, <1>2, SeqsTyped DEF Resolved

LEMMA PlainEventsOnly ==
  \A e \in Seq(PlainEvents) : Plain(e)
<1>1. ASSUME NEW e \in Seq(PlainEvents) PROVE Plain(e)
  <2>1. \A i \in DOMAIN e : e[i] \in PlainEvents
    BY SeqsTyped
  <2>2. e \in Seq(EventSet)
    BY ClaudeEventsTyped
  <2> QED BY <2>1, <2>2 DEF Plain, PlainEvents
<1> QED BY <1>1

LEMMA InputsThin ==
  ASSUME ClaudeTyped
  PROVE  \A F \in {InputAsked, InputAnswers} :
           /\ Thins(mail, mail, F) /\ Thins(mail, << >>, F)
           /\ mail # << >> => Thins(mail, Tail(mail), F)
           /\ \A t \in Seq(PlainInputs) : Thins(mail, mail \o t, F) /\ mail \o t \in Seq(Inputs)
<1> TAKE F \in {InputAsked, InputAnswers}
<1>1. mail \in Seq(Inputs)
  BY ClaudeFields
<1>2. ASSUME NEW t \in Seq(PlainInputs)
      PROVE  t \in Seq(Inputs) /\ \A i \in DOMAIN t : F[t[i]] = None
  <2>1. \A i \in DOMAIN t : t[i] \in PlainInputs
    BY SeqsTyped
  <2>2. t \in Seq(Inputs)
    BY InputsTyped
  <2> QED BY <2>1, <2>2 DEF PlainInputs, InputAsked, InputAnswers
<1> QED BY <1>1, <1>2, Thinning, SeqsTyped

(* A quiet step keeps the ledger of a Claude session.                       *)
LEMMA ClaudeQuietKeeps ==
  ASSUME ClaudeTyped, ClaudeLedger, ClaudeRest', ClaudeQuiet
  PROVE  ClaudeTyped' /\ ClaudeLedger'
<1>1. mail' \in Seq(Inputs) /\ Thins(mail, mail', InputAsked) /\ Thins(mail, mail', InputAnswers)
  <2>1. << >> \in Seq(Inputs) /\ (mail # << >> => Tail(mail) \in Seq(Inputs))
    BY ClaudeFields, SeqsTyped
  <2> QED BY <2>1, ClaudeFields, InputsThin DEF ClaudeQuiet
<1>2. /\ out' \in Seq(EventSet) /\ Resolved' = Resolved
      /\ (Distinct(out, ResolvedOf) => Distinct(out', ResolvedOf))
  <2>1. CASE out' = out
    BY <2>1, ClaudeFields DEF Resolved
  <2>2. ASSUME NEW e \in Seq(PlainEvents), out' = out \o e
        PROVE  /\ out' \in Seq(EventSet) /\ Resolved' = Resolved
               /\ (Distinct(out, ResolvedOf) => Distinct(out', ResolvedOf))
    <3>1. e \in Seq(EventSet) /\ Keys(e, ResolvedOf) = {} /\ Distinct(e, ResolvedOf)
      BY PlainEventsOnly, EmittedKeys
    <3> QED BY <2>2, <3>1, ClaudeEmits
  <2> QED BY <2>1, <2>2 DEF ClaudeQuiet
<1>3. ClaudeTyped'
  BY <1>1, <1>2 DEF ClaudeTyped
<1>4. /\ ClaudeQueuedOnce' /\ Keys(mail', InputAnswers) \subseteq Keys(mail, InputAnswers)
      /\ ClaudeAsking' \subseteq ClaudeAsking
  BY <1>1 DEF ClaudeLedger, ClaudeQueuedOnce, ClaudeQuiet, Thins, ClaudeAsking
<1>5. /\ ClaudeHolders' \subseteq ClaudeHolders /\ ClaudeHolders \subseteq Answers
      /\ \A t \in ClaudeHolders : call'[t].of = call[t].of
  BY <1>4 DEF ClaudeLedger, ClaudeQueuedOnce, ClaudeQuiet, ClaudeHolders
<1>6. ClaudeHeld' \subseteq ClaudeHeld
  BY <1>5 DEF ClaudeHeld
<1>7. ClaudeOnePlace'
  <2>1. \A t, u \in ClaudeHolders' : (call[t].of = call[u].of => t = u)'
    BY <1>5 DEF ClaudeLedger, ClaudeOnePlace
  <2> QED BY <1>2, <1>4, <1>6, <2>1 DEF ClaudeLedger, ClaudeOnePlace, ClaudeQuiet
<1>8. ResolvedOnce'
  BY <1>2 DEF ClaudeLedger, ResolvedOnce, ClaudeQuiet
<1> QED BY <1>3, <1>4, <1>7, <1>8 DEF ClaudeLedger

-----------------------------------------------------------------------------
(* The quiet steps of a Claude session.                                     *)
LEMMA ClaudeHandshakeAnswered ==
  ASSUME ClaudeTyped, Claude!HandshakeAnswered, kind' = kind
  PROVE  ClaudeRest' /\ ClaudeQuiet
<1>1. state' = state /\ mail' = mail /\ flow' = flow /\ call' = call /\ agent' = agent /\ out' = out
  BY DEF Claude!HandshakeAnswered
<1>2. ClaudeRest'
  BY <1>1, ClaudeFields DEF Claude!HandshakeAnswered, ClaudeRest, ClaudeTyped
<1>3. ClaudeQuiet
  BY <1>1 DEF ClaudeQuiet
<1> QED BY <1>2, <1>3

LEMMA ClaudeHandshakeFails ==
  ASSUME ClaudeTyped, Claude!HandshakeFails, kind' = kind
  PROVE  ClaudeRest' /\ ClaudeQuiet
<1>1. call' = call /\ out' = out
  BY DEF Claude!HandshakeFails, Claude!DriverExits
<1>2. state' = [Claude!NoRun(state) EXCEPT !.closed = TRUE]
  BY DEF Claude!HandshakeFails, Claude!DriverExits
<1>3. [Claude!NoRun(state) EXCEPT !.closed = TRUE] \in ClaudeStates
  BY ClaudeFields, ClaudeShapes
<1>4. [Claude!NoRun(state) EXCEPT !.closed = TRUE].pending \subseteq state.pending
  BY ClaudeFields, ClaudeShapes
<1>5. state' \in ClaudeStates /\ state'.pending \subseteq state.pending
  BY <1>2, <1>3, <1>4, ClaudeFields
<1>6. flow' = Claude!NoFlow
  BY DEF Claude!HandshakeFails, Claude!DriverExits
<1>7. Claude!NoFlow \in ClaudeFlows
  BY ClaudeFields, ClaudeShapes DEF ClaudeFlows
<1>8. flow' \in ClaudeFlows
  BY <1>6, <1>7, ClaudeFields
<1>9. agent' = Claude!Dead(agent)
  BY DEF Claude!HandshakeFails, Claude!DriverExits
<1>10. Claude!Dead(agent) \in Providers
  BY ClaudeFields, ProviderShapes DEF Models
<1>11. Claude!Dead(agent).asked = agent.asked
  BY ClaudeFields, ProviderShapes
<1>12. agent' \in Providers /\ agent'.asked = agent.asked
  BY <1>9, <1>10, <1>11, ClaudeFields
<1>13. mail' = << >>
  BY DEF Claude!HandshakeFails, Claude!DriverExits
<1>14. ClaudeRest'
  BY <1>1, <1>5, <1>8, <1>12, <1>13, ClaudeFields
     DEF Claude!HandshakeFails, Claude!DriverExits, ClaudeRest, ClaudeTyped
<1>15. ClaudeQuiet
  BY <1>1, <1>5, <1>8, <1>12, <1>13 DEF ClaudeQuiet
<1> QED BY <1>14, <1>15

LEMMA ClaudeAnnounce ==
  ASSUME ClaudeTyped, Claude!Announce, kind' = kind
  PROVE  ClaudeRest' /\ ClaudeQuiet
<1>1. mail' = mail /\ flow' = flow /\ call' = call /\ agent' = agent
  BY DEF Claude!Announce
<1>2. state' = [state EXCEPT !.announced = TRUE]
  BY DEF Claude!Announce
<1>3. [state EXCEPT !.announced = TRUE] \in ClaudeStates
  BY ClaudeFields, ClaudeStateSetters DEF Models
<1>4. [state EXCEPT !.announced = TRUE].pending \subseteq state.pending
  BY ClaudeFields, ClaudeStateSetters DEF ClaudeStates
<1>5. state' \in ClaudeStates /\ state'.pending \subseteq state.pending
  BY <1>2, <1>3, <1>4, ClaudeFields
<1>6. (<<Claude!Status("created"), Claude!Status("idle")>>) \in Seq(PlainEvents)
  BY ClaudeFacts, ClaudeFields, ClaudeEventsTyped, SeqsTyped
<1>7. out' = out \o <<Claude!Status("created"), Claude!Status("idle")>>
  BY DEF Claude!Announce, Claude!Emit
<1>8. out' = out \/ \E e \in Seq(PlainEvents) : out' = out \o e
  BY <1>6, <1>7
<1>9. ClaudeRest'
  BY <1>1, <1>5, <1>8, ClaudeFields DEF Claude!Announce, ClaudeRest, ClaudeTyped
<1>10. ClaudeQuiet
  BY <1>1, <1>5, <1>8 DEF ClaudeQuiet
<1> QED BY <1>9, <1>10

LEMMA ClaudeSend ==
  ASSUME ClaudeTyped, NEW t \in Sends, Claude!Send(t), kind' = kind
  PROVE  ClaudeRest' /\ ClaudeQuiet
<1>1. t \in Calls
  BY DEF Calls
<1>2. flow' = flow /\ agent' = agent /\ out' = out
  BY DEF Claude!Send, Claude!MayCall
<1>3. state' = state \/ state' = [state EXCEPT !.active = t]
  BY <1>1 DEF Claude!Send, Claude!MayCall
<1>4. [state EXCEPT !.active = t] \in ClaudeStates
  BY <1>1, ClaudeFields, ClaudeStateSetters DEF Models
<1>5. [state EXCEPT !.active = t].pending \subseteq state.pending
  BY <1>1, ClaudeFields, ClaudeStateSetters DEF ClaudeStates
<1>6. state' \in ClaudeStates /\ state'.pending \subseteq state.pending
  BY <1>3, <1>4, <1>5, ClaudeFields
<1>7. call' = [call EXCEPT ![t].at = "posted"] \/ call' = [call EXCEPT ![t].at = "failed"]
  BY <1>1 DEF Claude!Send, Claude!MayCall, Claude!Told
<1>8. /\ [call EXCEPT ![t].at = "posted"] \in [Calls -> ClaudeCalls]
      /\ [call EXCEPT ![t].at = "failed"] \in [Calls -> ClaudeCalls]
  BY <1>1, ClaudeFields, ClaudeCallSetters DEF ClaudeStages
<1>9. call' \in [Calls -> ClaudeCalls]
  BY <1>7, <1>8, ClaudeFields
<1>10. \A u \in Answers : call'[u] = call[u] \/ (call'[u].at = "failed" /\ call'[u].of = call[u].of)
  BY <1>1, <1>7, ClaudeFields, ThreadsAssumption DEF Calls, ClaudeCalls
<1>11. <<Claude!Input("user", t)>> \in Seq(PlainInputs)
  BY <1>1, InputsTyped, SeqsTyped
<1>12. mail' = mail \/ mail' = mail \o <<Claude!Input("user", t)>>
  BY DEF Claude!Send, Claude!MayCall, Claude!Posted
<1>13. mail' = mail \/ \E s \in Seq(PlainInputs) : mail' = mail \o s
  BY <1>11, <1>12
<1>14. ClaudeRest'
  BY <1>2, <1>6, <1>9, <1>10, <1>13, ClaudeFields DEF Claude!Send, Claude!MayCall, ClaudeRest, ClaudeTyped
<1>15. ClaudeQuiet
  BY <1>2, <1>6, <1>9, <1>10, <1>13 DEF ClaudeQuiet
<1> QED BY <1>14, <1>15

LEMMA ClaudeCancel ==
  ASSUME ClaudeTyped, NEW t \in Cancels, Claude!Cancel(t), kind' = kind
  PROVE  ClaudeRest' /\ ClaudeQuiet
<1>1. t \in Calls /\ t \notin Answers
  BY ThreadsAssumption DEF Calls
<1>2. state' = state /\ mail' = mail /\ flow' = flow /\ agent' = agent /\ out' = out
  BY DEF Claude!Cancel, Claude!MayCall
<1>3. PICK i \in DOMAIN out :
        \/ call' = [call EXCEPT ![t] = [@ EXCEPT !.of = out[i].run, !.at = "checked"]]
        \/ call' = [call EXCEPT ![t] = [@ EXCEPT !.of = out[i].run, !.at = "failed"]]
  BY DEF Claude!Cancel, Claude!MayCall
<1>4. out[i].run \in Sends \cup Requests \cup {None}
  BY <1>3, ClaudeFields
<1>5. /\ [call EXCEPT ![t] = [@ EXCEPT !.of = out[i].run, !.at = "checked"]] \in [Calls -> ClaudeCalls]
      /\ [call EXCEPT ![t] = [@ EXCEPT !.of = out[i].run, !.at = "failed"]] \in [Calls -> ClaudeCalls]
  BY <1>1, <1>4, ClaudeFields, ClaudeCallSetters DEF ClaudeStages
<1>6. call' \in [Calls -> ClaudeCalls]
  BY <1>3, <1>5
<1>7. \A u \in Answers : call'[u] = call[u]
  BY <1>1, <1>3, ClaudeFields DEF Calls
<1>8. ClaudeRest'
  BY <1>2, <1>6, <1>7, ClaudeFields DEF Claude!Cancel, Claude!MayCall, ClaudeRest, ClaudeTyped
<1>9. ClaudeQuiet
  BY <1>2, <1>6, <1>7 DEF ClaudeQuiet
<1> QED BY <1>8, <1>9

LEMMA ClaudeSelect ==
  ASSUME ClaudeTyped, NEW t \in Selects, Claude!Select(t), kind' = kind
  PROVE  ClaudeRest' /\ ClaudeQuiet
<1>1. t \in Calls /\ t \notin Answers
  BY ThreadsAssumption DEF Calls
<1>2. state' = state /\ mail' = mail /\ flow' = flow /\ agent' = agent /\ out' = out
  BY DEF Claude!Select, Claude!MayCall
<1>3. call' = [call EXCEPT ![t].at = "failed"] \/ call' = [call EXCEPT ![t].at = "checked"]
  BY <1>1 DEF Claude!Select, Claude!MayCall, Claude!Told
<1>4. /\ [call EXCEPT ![t].at = "failed"] \in [Calls -> ClaudeCalls]
      /\ [call EXCEPT ![t].at = "checked"] \in [Calls -> ClaudeCalls]
  BY <1>1, ClaudeFields, ClaudeCallSetters DEF ClaudeStages
<1>5. call' \in [Calls -> ClaudeCalls]
  BY <1>3, <1>4, ClaudeFields
<1>6. \A u \in Answers : call'[u] = call[u] \/ (call'[u].at = "failed" /\ call'[u].of = call[u].of)
  BY <1>1, <1>3, ClaudeFields, ThreadsAssumption DEF Calls, ClaudeCalls
<1>7. ClaudeRest'
  BY <1>2, <1>5, <1>6, ClaudeFields DEF Claude!Select, Claude!MayCall, ClaudeRest, ClaudeTyped
<1>8. ClaudeQuiet
  BY <1>2, <1>5, <1>6 DEF ClaudeQuiet
<1> QED BY <1>7, <1>8

LEMMA ClaudeGivesUp ==
  ASSUME ClaudeTyped, NEW t \in Calls, Claude!GivesUp(t), kind' = kind
  PROVE  ClaudeRest' /\ ClaudeQuiet
<1>1. state' = state /\ mail' = mail /\ flow' = flow /\ agent' = agent /\ out' = out
  BY DEF Claude!GivesUp
<1>2. call' = [call EXCEPT ![t].at = "failed"]
        \/ (t \in Sends /\ call' = [call EXCEPT ![t].at = "clearing"])
        \/ (t \in Sends /\ call' = [call EXCEPT ![t].at = "overdue"])
  BY DEF Claude!GivesUp, Claude!Told
<1>3. /\ [call EXCEPT ![t].at = "failed"] \in [Calls -> ClaudeCalls]
      /\ [call EXCEPT ![t].at = "clearing"] \in [Calls -> ClaudeCalls]
      /\ [call EXCEPT ![t].at = "overdue"] \in [Calls -> ClaudeCalls]
  BY ClaudeFields, ClaudeCallSetters DEF ClaudeStages
<1>4. call' \in [Calls -> ClaudeCalls]
  BY <1>2, <1>3, ClaudeFields
<1>5. \A u \in Answers : call'[u] = call[u] \/ (call'[u].at = "failed" /\ call'[u].of = call[u].of)
  BY <1>2, ClaudeFields, ThreadsAssumption DEF Calls, ClaudeCalls
<1>6. ClaudeRest'
  BY <1>1, <1>4, <1>5, ClaudeFields DEF Claude!GivesUp, ClaudeRest, ClaudeTyped
<1>7. ClaudeQuiet
  BY <1>1, <1>4, <1>5 DEF ClaudeQuiet
<1> QED BY <1>6, <1>7

LEMMA ClaudeClearReservation ==
  ASSUME ClaudeTyped, NEW t \in Calls, Claude!ClearReservation(t), kind' = kind
  PROVE  ClaudeRest' /\ ClaudeQuiet
<1>1. mail' = mail /\ flow' = flow /\ agent' = agent /\ out' = out
  BY DEF Claude!ClearReservation
<1>2. state' = [state EXCEPT !.active = None]
  BY DEF Claude!ClearReservation
<1>3. [state EXCEPT !.active = None] \in ClaudeStates
  BY ClaudeFields, ClaudeStateSetters DEF Models
<1>4. [state EXCEPT !.active = None].pending \subseteq state.pending
  BY ClaudeFields, ClaudeStateSetters DEF ClaudeStates
<1>5. state' \in ClaudeStates /\ state'.pending \subseteq state.pending
  BY <1>2, <1>3, <1>4, ClaudeFields
<1>6. t \in Sends /\ \/ call' = [call EXCEPT ![t].at = "failed"]
                       \/ call' = [call EXCEPT ![t].at = "late"]
  BY DEF Claude!ClearReservation, Claude!Told
<1>7. /\ [call EXCEPT ![t].at = "failed"] \in [Calls -> ClaudeCalls]
      /\ [call EXCEPT ![t].at = "late"] \in [Calls -> ClaudeCalls]
  BY ClaudeFields, ClaudeCallSetters DEF ClaudeStages
<1>8. call' \in [Calls -> ClaudeCalls]
  BY <1>6, <1>7, ClaudeFields
<1>9. \A u \in Answers : call'[u] = call[u] \/ (call'[u].at = "failed" /\ call'[u].of = call[u].of)
  BY <1>6, ClaudeFields, ThreadsAssumption DEF Calls, ClaudeCalls
<1>10. ClaudeRest'
  BY <1>1, <1>5, <1>8, <1>9, ClaudeFields DEF Claude!ClearReservation, ClaudeRest, ClaudeTyped
<1>11. ClaudeQuiet
  BY <1>1, <1>5, <1>8, <1>9 DEF ClaudeQuiet
<1> QED BY <1>10, <1>11

LEMMA ClaudeStoreSelection ==
  ASSUME ClaudeTyped, ClaudeLedger, NEW t \in Calls, Claude!StoreSelection(t), kind' = kind
  PROVE  ClaudeRest' /\ ClaudeQuiet
<1>1. t \notin Answers
  BY DEF Claude!StoreSelection, ClaudeLedger, ClaudeQueuedOnce
<1>2. mail' = mail /\ flow' = flow /\ agent' = agent /\ out' = out
  BY DEF Claude!StoreSelection
<1>3. state' = [state EXCEPT !.selection = "new"]
  BY <1>1 DEF Claude!StoreSelection
<1>4. [state EXCEPT !.selection = "new"] \in ClaudeStates
  BY <1>1, ClaudeFields, ClaudeStateSetters DEF Models
<1>5. [state EXCEPT !.selection = "new"].pending \subseteq state.pending
  BY <1>1, ClaudeFields, ClaudeStateSetters DEF ClaudeStates
<1>6. state' \in ClaudeStates /\ state'.pending \subseteq state.pending
  BY <1>3, <1>4, <1>5, ClaudeFields
<1>7. call' = [call EXCEPT ![t].at = "ok"]
  BY <1>1 DEF Claude!StoreSelection, Claude!Told
<1>8. [call EXCEPT ![t].at = "ok"] \in [Calls -> ClaudeCalls]
  BY <1>1, ClaudeFields, ClaudeCallSetters DEF ClaudeStages
<1>9. call' \in [Calls -> ClaudeCalls]
  BY <1>7, <1>8, ClaudeFields
<1>10. \A u \in Answers : call'[u] = call[u] \/ (call'[u].at = "failed" /\ call'[u].of = call[u].of)
  BY <1>1, <1>7, ClaudeFields, ThreadsAssumption DEF Calls, ClaudeCalls
<1>11. ClaudeRest'
  BY <1>2, <1>6, <1>9, <1>10, ClaudeFields DEF Claude!StoreSelection, ClaudeRest, ClaudeTyped
<1>12. ClaudeQuiet
  BY <1>2, <1>6, <1>9, <1>10 DEF ClaudeQuiet
<1> QED BY <1>11, <1>12

LEMMA ClaudeStopBegins ==
  ASSUME ClaudeTyped, Claude!StopBegins, kind' = kind
  PROVE  ClaudeRest' /\ ClaudeQuiet
<1>1. mail' = mail /\ flow' = flow /\ call' = call /\ agent' = agent /\ out' = out
  BY DEF Claude!StopBegins
<1>2. state' = [state EXCEPT !.closed = TRUE]
  BY DEF Claude!StopBegins
<1>3. [state EXCEPT !.closed = TRUE] \in ClaudeStates
  BY ClaudeFields, ClaudeStateSetters DEF Models
<1>4. [state EXCEPT !.closed = TRUE].pending \subseteq state.pending
  BY ClaudeFields, ClaudeStateSetters DEF ClaudeStates
<1>5. state' \in ClaudeStates /\ state'.pending \subseteq state.pending
  BY <1>2, <1>3, <1>4, ClaudeFields
<1>6. ClaudeRest'
  BY <1>1, <1>5, ClaudeFields DEF Claude!StopBegins, ClaudeRest, ClaudeTyped
<1>7. ClaudeQuiet
  BY <1>1, <1>5 DEF ClaudeQuiet
<1> QED BY <1>6, <1>7

LEMMA ClaudeStopKills ==
  ASSUME ClaudeTyped, Claude!StopKills, kind' = kind
  PROVE  ClaudeRest' /\ ClaudeQuiet
<1>1. state' = state /\ flow' = flow /\ call' = call /\ out' = out
  BY DEF Claude!StopKills
<1>2. agent' = Claude!Dead(agent)
  BY DEF Claude!StopKills
<1>3. Claude!Dead(agent) \in Providers
  BY ClaudeFields, ProviderShapes DEF Models
<1>4. Claude!Dead(agent).asked = agent.asked
  BY ClaudeFields, ProviderShapes
<1>5. agent' \in Providers /\ agent'.asked = agent.asked
  BY <1>2, <1>3, <1>4, ClaudeFields
<1>6. <<Claude!Input("shutdown", None)>> \o Claude!Eof \in Seq(PlainInputs)
  BY InputsTyped, SeqsTyped DEF Claude!Eof
<1>7. mail' = mail \/ mail' = mail \o (<<Claude!Input("shutdown", None)>> \o Claude!Eof)
  BY DEF Claude!StopKills, Claude!Posted
<1>8. mail' = mail \/ \E s \in Seq(PlainInputs) : mail' = mail \o s
  BY <1>6, <1>7
<1>9. ClaudeRest'
  BY <1>1, <1>5, <1>8, ClaudeFields DEF Claude!StopKills, ClaudeRest, ClaudeTyped
<1>10. ClaudeQuiet
  BY <1>1, <1>5, <1>8 DEF ClaudeQuiet
<1> QED BY <1>9, <1>10

LEMMA ClaudeStopFinishes ==
  ASSUME ClaudeTyped, Claude!StopFinishes, kind' = kind
  PROVE  ClaudeRest' /\ ClaudeQuiet
<1>1. mail' = mail /\ flow' = flow /\ call' = call /\ agent' = agent
  BY DEF Claude!StopFinishes
<1>2. state' = Claude!AfterClose(state)
  BY DEF Claude!StopFinishes
<1>3. Claude!AfterClose(state) \in ClaudeStates
  BY ClaudeFields, ClaudeShapes
<1>4. Claude!AfterClose(state).pending \subseteq state.pending
  BY ClaudeFields, ClaudeShapes
<1>5. state' \in ClaudeStates /\ state'.pending \subseteq state.pending
  BY <1>2, <1>3, <1>4, ClaudeFields
<1>6. (Claude!CloseFacts(state)) \in Seq(PlainEvents)
  BY ClaudeFacts, ClaudeFields, ClaudeEventsTyped, SeqsTyped
<1>7. out' = out \o Claude!CloseFacts(state)
  BY DEF Claude!StopFinishes, Claude!Emit
<1>8. out' = out \/ \E e \in Seq(PlainEvents) : out' = out \o e
  BY <1>6, <1>7
<1>9. ClaudeRest'
  BY <1>1, <1>5, <1>8, ClaudeFields DEF Claude!StopFinishes, ClaudeRest, ClaudeTyped
<1>10. ClaudeQuiet
  BY <1>1, <1>5, <1>8 DEF ClaudeQuiet
<1> QED BY <1>9, <1>10

LEMMA ClaudeOnUserMessage ==
  ASSUME ClaudeTyped, Claude!OnUserMessage, kind' = kind
  PROVE  ClaudeRest' /\ ClaudeQuiet
<1>1. Claude!Takes({"user"}) /\ mail' = Tail(mail)
  BY DEF Claude!OnUserMessage, Claude!Takes, Claude!NextInput
<1>2. mail # << >> /\ Head(mail).kind \in {"user"} /\ Claude!Of \in Sends
  BY <1>1, InputTaken
<1>3. Claude!Of \in Calls /\ Claude!Of \notin Answers
  BY <1>2, ThreadsAssumption DEF Calls
<1>4. state' = state \/ state' = [state EXCEPT !.active = None]
  BY <1>1, <1>2, <1>3 DEF Claude!OnUserMessage, Claude!Takes, Claude!NextInput
<1>5. [state EXCEPT !.active = None] \in ClaudeStates
  BY <1>1, <1>2, <1>3, ClaudeFields, ClaudeStateSetters DEF Models
<1>6. [state EXCEPT !.active = None].pending \subseteq state.pending
  BY <1>1, <1>2, <1>3, ClaudeFields, ClaudeStateSetters DEF ClaudeStates
<1>7. state' \in ClaudeStates /\ state'.pending \subseteq state.pending
  BY <1>4, <1>5, <1>6, ClaudeFields
<1>8. flow' = [Claude!NoFlow EXCEPT !.run = Claude!Of] \/ flow' = Claude!NoFlow
  BY <1>1, <1>2, <1>3 DEF Claude!OnUserMessage, Claude!Takes, Claude!NextInput
<1>9. [Claude!NoFlow EXCEPT !.run = Claude!Of] \in ClaudeFlows /\ Claude!NoFlow \in ClaudeFlows
  BY <1>1, <1>2, <1>3, ClaudeFields, ClaudeShapes DEF ClaudeFlows
<1>10. flow' \in ClaudeFlows
  BY <1>8, <1>9, ClaudeFields
<1>11. call' = call \/ call' = [call EXCEPT ![Claude!Of].at = "ok"]
         \/ call' = [call EXCEPT ![Claude!Of].at = "storing"]
         \/ call' = [call EXCEPT ![Claude!Of].at = "clearing"]
         \/ call' = [call EXCEPT ![Claude!Of].at = "failed"]
  BY <1>1, <1>2, <1>3 DEF Claude!OnUserMessage, Claude!Takes, Claude!NextInput, Claude!Replied
<1>12. /\ [call EXCEPT ![Claude!Of].at = "ok"] \in [Calls -> ClaudeCalls]
       /\ [call EXCEPT ![Claude!Of].at = "storing"] \in [Calls -> ClaudeCalls]
       /\ [call EXCEPT ![Claude!Of].at = "clearing"] \in [Calls -> ClaudeCalls]
       /\ [call EXCEPT ![Claude!Of].at = "failed"] \in [Calls -> ClaudeCalls]
  BY <1>1, <1>2, <1>3, ClaudeFields, ClaudeCallSetters DEF ClaudeStages
<1>13. call' \in [Calls -> ClaudeCalls]
  BY <1>11, <1>12, ClaudeFields
<1>14. \A u \in Answers : call'[u] = call[u] \/ (call'[u].at = "failed" /\ call'[u].of = call[u].of)
  BY <1>1, <1>2, <1>3, <1>11, ClaudeFields, ThreadsAssumption DEF Calls, ClaudeCalls
<1>15. agent' = agent \/ agent' = [agent EXCEPT !.turns = @ + 1]
  BY <1>1, <1>2, <1>3 DEF Claude!OnUserMessage, Claude!Takes, Claude!NextInput
<1>16. agent.turns + 1 \in Nat /\ agent.lines + 1 \in Nat
  BY ClaudeFields
<1>17. [agent EXCEPT !.turns = @ + 1] \in Providers
  BY <1>1, <1>2, <1>3, <1>16, ClaudeFields, ProviderShapes DEF Models
<1>18. [agent EXCEPT !.turns = @ + 1].asked = agent.asked
  BY <1>1, <1>2, <1>3, ClaudeFields, ProviderShapes DEF Providers
<1>19. agent' \in Providers /\ agent'.asked = agent.asked
  BY <1>15, <1>17, <1>18, ClaudeFields
<1>20. /\ (<<Claude!Event("started", Claude!Of, None), Claude!Status("working")>>) \in Seq(PlainEvents)
       /\ (<<Claude!Event("started", Claude!Of, None), Claude!Status("working")>>
            \o <<Claude!Event("failed", Claude!Of, None)>>) \in Seq(PlainEvents)
  BY <1>1, <1>2, <1>3, ClaudeFacts, ClaudeFields, ClaudeEventsTyped, SeqsTyped
<1>21. out' = out \o <<Claude!Event("started", Claude!Of, None), Claude!Status("working")>>
         \/ out' = out \o (<<Claude!Event("started", Claude!Of, None), Claude!Status("working")>>
         \o <<Claude!Event("failed", Claude!Of, None)>>)
  BY <1>1, <1>2, <1>3 DEF Claude!OnUserMessage, Claude!Takes, Claude!NextInput, Claude!Emit
<1>22. out' = out \/ \E e \in Seq(PlainEvents) : out' = out \o e
  BY <1>20, <1>21
<1>23. ClaudeRest'
  BY <1>7, <1>10, <1>13, <1>14, <1>19, <1>1, <1>2, <1>22, ClaudeFields
     DEF Claude!OnUserMessage, Claude!Takes, Claude!NextInput, ClaudeRest, ClaudeTyped
<1>24. ClaudeQuiet
  BY <1>7, <1>10, <1>13, <1>14, <1>19, <1>1, <1>2, <1>22 DEF ClaudeQuiet
<1> QED BY <1>23, <1>24

LEMMA ClaudeOnInterrupt ==
  ASSUME ClaudeTyped, Claude!OnInterrupt, kind' = kind
  PROVE  ClaudeRest' /\ ClaudeQuiet
<1>1. Claude!Takes({"interrupt"}) /\ mail' = Tail(mail)
  BY DEF Claude!OnInterrupt, Claude!Takes, Claude!NextInput
<1>2. mail # << >> /\ Head(mail).kind \in {"interrupt"} /\ Claude!Of \in Cancels
  BY <1>1, InputTaken
<1>3. Claude!Of \in Calls /\ Claude!Of \notin Answers
  BY <1>2, ThreadsAssumption DEF Calls
<1>4. state' = state /\ out' = out
  BY DEF Claude!OnInterrupt, Claude!Takes, Claude!NextInput
<1>5. flow' = flow \/ flow' = [flow EXCEPT !.cancel = TRUE]
  BY <1>1, <1>2, <1>3 DEF Claude!OnInterrupt, Claude!Takes, Claude!NextInput
<1>6. [flow EXCEPT !.cancel = TRUE] \in ClaudeFlows
  BY <1>1, <1>2, <1>3, ClaudeFields, ClaudeShapes DEF ClaudeFlows
<1>7. flow' \in ClaudeFlows
  BY <1>5, <1>6, ClaudeFields
<1>8. call' = call \/ call' = [call EXCEPT ![Claude!Of].at = "ok"]
        \/ call' = [call EXCEPT ![Claude!Of].at = "storing"]
        \/ call' = [call EXCEPT ![Claude!Of].at = "clearing"]
        \/ call' = [call EXCEPT ![Claude!Of].at = "failed"]
  BY <1>1, <1>2, <1>3 DEF Claude!OnInterrupt, Claude!Takes, Claude!NextInput, Claude!Replied
<1>9. /\ [call EXCEPT ![Claude!Of].at = "ok"] \in [Calls -> ClaudeCalls]
      /\ [call EXCEPT ![Claude!Of].at = "storing"] \in [Calls -> ClaudeCalls]
      /\ [call EXCEPT ![Claude!Of].at = "clearing"] \in [Calls -> ClaudeCalls]
      /\ [call EXCEPT ![Claude!Of].at = "failed"] \in [Calls -> ClaudeCalls]
  BY <1>1, <1>2, <1>3, ClaudeFields, ClaudeCallSetters DEF ClaudeStages
<1>10. call' \in [Calls -> ClaudeCalls]
  BY <1>8, <1>9, ClaudeFields
<1>11. \A u \in Answers : call'[u] = call[u] \/ (call'[u].at = "failed" /\ call'[u].of = call[u].of)
  BY <1>1, <1>2, <1>3, <1>8, ClaudeFields, ThreadsAssumption DEF Calls, ClaudeCalls
<1>12. agent' = agent \/ agent' = [agent EXCEPT !.interrupted = agent.turns > 0]
  BY <1>1, <1>2, <1>3 DEF Claude!OnInterrupt, Claude!Takes, Claude!NextInput
<1>13. (agent.turns > 0) \in BOOLEAN
  OBVIOUS
<1>14. [agent EXCEPT !.interrupted = agent.turns > 0] \in Providers
  BY <1>1, <1>2, <1>3, <1>13, ClaudeFields, ProviderShapes DEF Models
<1>15. [agent EXCEPT !.interrupted = agent.turns > 0].asked = agent.asked
  BY <1>1, <1>2, <1>3, ClaudeFields, ProviderShapes DEF Providers
<1>16. agent' \in Providers /\ agent'.asked = agent.asked
  BY <1>12, <1>14, <1>15, ClaudeFields
<1>17. ClaudeRest'
  BY <1>4, <1>7, <1>10, <1>11, <1>16, <1>1, <1>2, ClaudeFields
     DEF Claude!OnInterrupt, Claude!Takes, Claude!NextInput, ClaudeRest, ClaudeTyped
<1>18. ClaudeQuiet
  BY <1>4, <1>7, <1>10, <1>11, <1>16, <1>1, <1>2 DEF ClaudeQuiet
<1> QED BY <1>17, <1>18

LEMMA ClaudeOnSetModel ==
  ASSUME ClaudeTyped, Claude!OnSetModel, kind' = kind
  PROVE  ClaudeRest' /\ ClaudeQuiet
<1>1. Claude!Takes({"setModel"}) /\ mail' = Tail(mail)
  BY DEF Claude!OnSetModel, Claude!Takes, Claude!NextInput
<1>2. mail # << >> /\ Head(mail).kind \in {"setModel"} /\ Claude!Of \in Sends \cup Selects
  BY <1>1, InputTaken
<1>3. Claude!Of \in Calls /\ Claude!Of \notin Answers
  BY <1>2, ThreadsAssumption DEF Calls
<1>4. state' = state /\ flow' = flow /\ out' = out
  BY DEF Claude!OnSetModel, Claude!Takes, Claude!NextInput
<1>5. call' = call \/ call' = [call EXCEPT ![Claude!Of].at = "ok"]
        \/ call' = [call EXCEPT ![Claude!Of].at = "storing"]
        \/ call' = [call EXCEPT ![Claude!Of].at = "clearing"]
        \/ call' = [call EXCEPT ![Claude!Of].at = "failed"]
  BY <1>1, <1>2, <1>3 DEF Claude!OnSetModel, Claude!Takes, Claude!NextInput, Claude!Replied
<1>6. /\ [call EXCEPT ![Claude!Of].at = "ok"] \in [Calls -> ClaudeCalls]
      /\ [call EXCEPT ![Claude!Of].at = "storing"] \in [Calls -> ClaudeCalls]
      /\ [call EXCEPT ![Claude!Of].at = "clearing"] \in [Calls -> ClaudeCalls]
      /\ [call EXCEPT ![Claude!Of].at = "failed"] \in [Calls -> ClaudeCalls]
  BY <1>1, <1>2, <1>3, ClaudeFields, ClaudeCallSetters DEF ClaudeStages
<1>7. call' \in [Calls -> ClaudeCalls]
  BY <1>5, <1>6, ClaudeFields
<1>8. \A u \in Answers : call'[u] = call[u] \/ (call'[u].at = "failed" /\ call'[u].of = call[u].of)
  BY <1>1, <1>2, <1>3, <1>5, ClaudeFields, ThreadsAssumption DEF Calls, ClaudeCalls
<1>9. agent' = agent \/ agent' = [agent EXCEPT !.model = "new"]
  BY <1>1, <1>2, <1>3 DEF Claude!OnSetModel, Claude!Takes, Claude!NextInput
<1>10. [agent EXCEPT !.model = "new"] \in Providers
  BY <1>1, <1>2, <1>3, ClaudeFields, ProviderShapes DEF Models
<1>11. [agent EXCEPT !.model = "new"].asked = agent.asked
  BY <1>1, <1>2, <1>3, ClaudeFields, ProviderShapes DEF Providers
<1>12. agent' \in Providers /\ agent'.asked = agent.asked
  BY <1>9, <1>10, <1>11, ClaudeFields
<1>13. ClaudeRest'
  BY <1>4, <1>7, <1>8, <1>12, <1>1, <1>2, ClaudeFields
     DEF Claude!OnSetModel, Claude!Takes, Claude!NextInput, ClaudeRest, ClaudeTyped
<1>14. ClaudeQuiet
  BY <1>4, <1>7, <1>8, <1>12, <1>1, <1>2 DEF ClaudeQuiet
<1> QED BY <1>13, <1>14

LEMMA ClaudeOnMessage ==
  ASSUME ClaudeTyped, Claude!OnMessage, kind' = kind
  PROVE  ClaudeRest' /\ ClaudeQuiet
<1>1. Claude!Takes({"delta", "assistant"}) /\ mail' = Tail(mail)
  BY DEF Claude!OnMessage, Claude!Takes, Claude!NextInput
<1>2. mail # << >> /\ Head(mail).kind \in {"delta", "assistant"}
  BY <1>1, InputTaken
<1>3. state' = state /\ call' = call /\ agent' = agent
  BY DEF Claude!OnMessage, Claude!Takes, Claude!NextInput
<1>4. flow' = flow \/ flow' = [flow EXCEPT !.open = TRUE] \/ flow' = [flow EXCEPT !.open = FALSE]
  BY <1>1, <1>2 DEF Claude!OnMessage, Claude!Takes, Claude!NextInput
<1>5. [flow EXCEPT !.open = TRUE] \in ClaudeFlows /\ [flow EXCEPT !.open = FALSE] \in ClaudeFlows
  BY <1>1, <1>2, ClaudeFields, ClaudeShapes DEF ClaudeFlows
<1>6. flow' \in ClaudeFlows
  BY <1>4, <1>5, ClaudeFields
<1>7. /\ (<<Claude!Event("delta", flow.run, flow.run)>>) \in Seq(PlainEvents)
      /\ (Claude!StreamDone) \in Seq(PlainEvents)
  BY <1>1, <1>2, ClaudeFacts, ClaudeFields, ClaudeEventsTyped, SeqsTyped
<1>8. out' = out \/ out' = out \o <<Claude!Event("delta", flow.run, flow.run)>>
        \/ out' = out \o Claude!StreamDone
  BY <1>1, <1>2 DEF Claude!OnMessage, Claude!Takes, Claude!NextInput, Claude!Emit
<1>9. out' = out \/ \E e \in Seq(PlainEvents) : out' = out \o e
  BY <1>7, <1>8
<1>10. ClaudeRest'
  BY <1>3, <1>6, <1>1, <1>2, <1>9, ClaudeFields
     DEF Claude!OnMessage, Claude!Takes, Claude!NextInput, ClaudeRest, ClaudeTyped
<1>11. ClaudeQuiet
  BY <1>3, <1>6, <1>1, <1>2, <1>9 DEF ClaudeQuiet
<1> QED BY <1>10, <1>11

LEMMA ClaudeOnControlCancel ==
  ASSUME ClaudeTyped, Claude!OnControlCancel, kind' = kind
  PROVE  ClaudeRest' /\ ClaudeQuiet
<1>1. Claude!Takes({"withdrawn"}) /\ mail' = Tail(mail)
  BY DEF Claude!OnControlCancel, Claude!Takes, Claude!NextInput
<1>2. mail # << >> /\ Head(mail).kind \in {"withdrawn"} /\ Claude!Of \in Requests
  BY <1>1, InputTaken
<1>3. flow' = flow /\ call' = call /\ agent' = agent /\ out' = out
  BY DEF Claude!OnControlCancel, Claude!Takes, Claude!NextInput
<1>4. state' = [state EXCEPT !.pending = @ \ {Claude!Of}]
  BY <1>1, <1>2 DEF Claude!OnControlCancel, Claude!Takes, Claude!NextInput
<1>5. state.pending \ {Claude!Of} \in SUBSET Requests
  BY ClaudeFields
<1>6. [state EXCEPT !.pending = @ \ {Claude!Of}] \in ClaudeStates
  BY <1>1, <1>2, <1>5, ClaudeFields, ClaudeStateSetters DEF Models
<1>7. [state EXCEPT !.pending = @ \ {Claude!Of}].pending \subseteq state.pending
  BY <1>1, <1>2, ClaudeFields, ClaudeStateSetters DEF ClaudeStates
<1>8. state' \in ClaudeStates /\ state'.pending \subseteq state.pending
  BY <1>4, <1>6, <1>7, ClaudeFields
<1>9. ClaudeRest'
  BY <1>3, <1>8, <1>1, <1>2, ClaudeFields
     DEF Claude!OnControlCancel, Claude!Takes, Claude!NextInput, ClaudeRest, ClaudeTyped
<1>10. ClaudeQuiet
  BY <1>3, <1>8, <1>1, <1>2 DEF ClaudeQuiet
<1> QED BY <1>9, <1>10

LEMMA ClaudeFinishRun ==
  ASSUME ClaudeTyped, Claude!FinishRun, kind' = kind
  PROVE  ClaudeRest' /\ ClaudeQuiet
<1>1. Claude!Takes({"ok", "error", "aborted"}) /\ mail' = Tail(mail)
  BY DEF Claude!FinishRun, Claude!Takes, Claude!NextInput
<1>2. mail # << >> /\ Head(mail).kind \in {"ok", "error", "aborted"}
  BY <1>1, InputTaken
<1>3. call' = call /\ agent' = agent
  BY DEF Claude!FinishRun, Claude!Takes, Claude!NextInput
<1>4. state' = state \/ state' = Claude!NoRun(state)
  BY <1>1, <1>2 DEF Claude!FinishRun, Claude!Takes, Claude!NextInput
<1>5. Claude!NoRun(state) \in ClaudeStates
  BY <1>1, <1>2, ClaudeFields, ClaudeShapes
<1>6. Claude!NoRun(state).pending \subseteq state.pending
  BY <1>1, <1>2, ClaudeFields, ClaudeShapes
<1>7. state' \in ClaudeStates /\ state'.pending \subseteq state.pending
  BY <1>4, <1>5, <1>6, ClaudeFields
<1>8. flow' = Claude!NoFlow
  BY <1>1, <1>2 DEF Claude!FinishRun, Claude!Takes, Claude!NextInput
<1>9. Claude!NoFlow \in ClaudeFlows
  BY <1>1, <1>2, ClaudeFields, ClaudeShapes DEF ClaudeFlows
<1>10. flow' \in ClaudeFlows
  BY <1>8, <1>9, ClaudeFields
<1>11. Claude!Outcome(Head(mail).kind) \in {"completed", "failed", "cancelled"}
  BY <1>2 DEF Claude!Outcome
<1>12. Claude!RunEnds(Claude!Outcome(Head(mail).kind)) \in Seq(PlainEvents)
  BY <1>11, ClaudeFacts
<1>13. (Claude!RunEnds(Claude!Outcome(Head(mail).kind)) \o IF flow = Claude!NoFlow
         \/ state.closed THEN << >> ELSE <<Claude!Status("idle")>>) \in Seq(PlainEvents)
  BY <1>1, <1>2, <1>11, <1>12, ClaudeFacts, ClaudeFields, ClaudeEventsTyped, SeqsTyped
<1>14. out' = out \o (Claude!RunEnds(Claude!Outcome(Head(mail).kind)) \o IF flow = Claude!NoFlow
         \/ state.closed THEN << >> ELSE <<Claude!Status("idle")>>)
  BY <1>1, <1>2, <1>11, <1>12 DEF Claude!FinishRun, Claude!Takes, Claude!NextInput, Claude!Emit
<1>15. out' = out \/ \E e \in Seq(PlainEvents) : out' = out \o e
  BY <1>13, <1>14
<1>16. ClaudeRest'
  BY <1>3, <1>7, <1>10, <1>1, <1>2, <1>15, ClaudeFields
     DEF Claude!FinishRun, Claude!Takes, Claude!NextInput, ClaudeRest, ClaudeTyped
<1>17. ClaudeQuiet
  BY <1>3, <1>7, <1>10, <1>1, <1>2, <1>15 DEF ClaudeQuiet
<1> QED BY <1>16, <1>17

LEMMA ClaudeEofTeardown ==
  ASSUME ClaudeTyped, Claude!EofTeardown, kind' = kind
  PROVE  ClaudeRest' /\ ClaudeQuiet
<1>1. Claude!Takes({"eof"}) /\ mail' = Tail(mail)
  BY DEF Claude!EofTeardown, Claude!Takes, Claude!NextInput
<1>2. mail # << >> /\ Head(mail).kind \in {"eof"}
  BY <1>1, InputTaken
<1>3. call' = call /\ agent' = agent
  BY DEF Claude!EofTeardown, Claude!Takes, Claude!NextInput
<1>4. state' = [Claude!NoRun(state) EXCEPT !.closed = TRUE]
  BY <1>1, <1>2 DEF Claude!EofTeardown, Claude!Takes, Claude!NextInput
<1>5. [Claude!NoRun(state) EXCEPT !.closed = TRUE] \in ClaudeStates
  BY <1>1, <1>2, ClaudeFields, ClaudeShapes
<1>6. [Claude!NoRun(state) EXCEPT !.closed = TRUE].pending \subseteq state.pending
  BY <1>1, <1>2, ClaudeFields, ClaudeShapes
<1>7. state' \in ClaudeStates /\ state'.pending \subseteq state.pending
  BY <1>4, <1>5, <1>6, ClaudeFields
<1>8. flow' = Claude!NoFlow
  BY <1>1, <1>2 DEF Claude!EofTeardown, Claude!Takes, Claude!NextInput
<1>9. Claude!NoFlow \in ClaudeFlows
  BY <1>1, <1>2, ClaudeFields, ClaudeShapes DEF ClaudeFlows
<1>10. flow' \in ClaudeFlows
  BY <1>8, <1>9, ClaudeFields
<1>11. /\ (Claude!RunEnds("cancelled")) \in Seq(PlainEvents)
       /\ (Claude!RunEnds("failed") \o <<Claude!Status("interrupted")>>) \in Seq(PlainEvents)
  BY <1>1, <1>2, ClaudeFacts, ClaudeFields, ClaudeEventsTyped, SeqsTyped
<1>12. out' = out \o Claude!RunEnds("cancelled")
         \/ out' = out \o (Claude!RunEnds("failed") \o <<Claude!Status("interrupted")>>)
  BY <1>1, <1>2 DEF Claude!EofTeardown, Claude!Takes, Claude!NextInput, Claude!Emit
<1>13. out' = out \/ \E e \in Seq(PlainEvents) : out' = out \o e
  BY <1>11, <1>12
<1>14. ClaudeRest'
  BY <1>3, <1>7, <1>10, <1>1, <1>2, <1>13, ClaudeFields
     DEF Claude!EofTeardown, Claude!Takes, Claude!NextInput, ClaudeRest, ClaudeTyped
<1>15. ClaudeQuiet
  BY <1>3, <1>7, <1>10, <1>1, <1>2, <1>13 DEF ClaudeQuiet
<1> QED BY <1>14, <1>15

LEMMA ClaudeDriverCloses ==
  ASSUME ClaudeTyped, Claude!DriverCloses, kind' = kind
  PROVE  ClaudeRest' /\ ClaudeQuiet
<1>1. call' = call /\ agent' = agent
  BY DEF Claude!DriverCloses, Claude!DriverExits
<1>2. state' = [Claude!NoRun(Claude!AfterClose(state)) EXCEPT !.closed = TRUE]
  BY DEF Claude!DriverCloses, Claude!DriverExits
<1>3. [Claude!NoRun(Claude!AfterClose(state)) EXCEPT !.closed = TRUE] \in ClaudeStates
  BY ClaudeFields, ClaudeShapes
<1>4. [Claude!NoRun(Claude!AfterClose(state)) EXCEPT !.closed = TRUE].pending \subseteq state.pending
  BY ClaudeFields, ClaudeShapes
<1>5. state' \in ClaudeStates /\ state'.pending \subseteq state.pending
  BY <1>2, <1>3, <1>4, ClaudeFields
<1>6. flow' = Claude!NoFlow
  BY DEF Claude!DriverCloses, Claude!DriverExits
<1>7. Claude!NoFlow \in ClaudeFlows
  BY ClaudeFields, ClaudeShapes DEF ClaudeFlows
<1>8. flow' \in ClaudeFlows
  BY <1>6, <1>7, ClaudeFields
<1>9. mail' = << >>
  BY DEF Claude!DriverCloses, Claude!DriverExits
<1>10. (Claude!CloseFacts(state)) \in Seq(PlainEvents)
  BY ClaudeFacts, ClaudeFields, ClaudeEventsTyped, SeqsTyped
<1>11. out' = out \o Claude!CloseFacts(state)
  BY DEF Claude!DriverCloses, Claude!DriverExits, Claude!Emit
<1>12. out' = out \/ \E e \in Seq(PlainEvents) : out' = out \o e
  BY <1>10, <1>11
<1>13. ClaudeRest'
  BY <1>1, <1>5, <1>8, <1>9, <1>12, ClaudeFields
     DEF Claude!DriverCloses, Claude!DriverExits, ClaudeRest, ClaudeTyped
<1>14. ClaudeQuiet
  BY <1>1, <1>5, <1>8, <1>9, <1>12 DEF ClaudeQuiet
<1> QED BY <1>13, <1>14

LEMMA ClaudeOnShutdown ==
  ASSUME ClaudeTyped, Claude!OnShutdown, kind' = kind
  PROVE  ClaudeRest' /\ ClaudeQuiet
<1>1. call' = call /\ agent' = agent
  BY DEF Claude!OnShutdown, Claude!DriverExits
<1>2. state' = [Claude!NoRun(Claude!AfterClose(state)) EXCEPT !.closed = TRUE]
  BY DEF Claude!OnShutdown, Claude!DriverExits
<1>3. [Claude!NoRun(Claude!AfterClose(state)) EXCEPT !.closed = TRUE] \in ClaudeStates
  BY ClaudeFields, ClaudeShapes
<1>4. [Claude!NoRun(Claude!AfterClose(state)) EXCEPT !.closed = TRUE].pending \subseteq state.pending
  BY ClaudeFields, ClaudeShapes
<1>5. state' \in ClaudeStates /\ state'.pending \subseteq state.pending
  BY <1>2, <1>3, <1>4, ClaudeFields
<1>6. flow' = Claude!NoFlow
  BY DEF Claude!OnShutdown, Claude!DriverExits
<1>7. Claude!NoFlow \in ClaudeFlows
  BY ClaudeFields, ClaudeShapes DEF ClaudeFlows
<1>8. flow' \in ClaudeFlows
  BY <1>6, <1>7, ClaudeFields
<1>9. mail' = << >>
  BY DEF Claude!OnShutdown, Claude!DriverExits
<1>10. (Claude!RunEnds("cancelled") \o Claude!CloseFacts(state)) \in Seq(PlainEvents)
  BY ClaudeFacts, ClaudeFields, ClaudeEventsTyped, SeqsTyped
<1>11. out' = out \o (Claude!RunEnds("cancelled") \o Claude!CloseFacts(state))
  BY DEF Claude!OnShutdown, Claude!DriverExits, Claude!Emit
<1>12. out' = out \/ \E e \in Seq(PlainEvents) : out' = out \o e
  BY <1>10, <1>11
<1>13. ClaudeRest'
  BY <1>1, <1>5, <1>8, <1>9, <1>12, ClaudeFields
     DEF Claude!OnShutdown, Claude!DriverExits, ClaudeRest, ClaudeTyped
<1>14. ClaudeQuiet
  BY <1>1, <1>5, <1>8, <1>9, <1>12 DEF ClaudeQuiet
<1> QED BY <1>13, <1>14

LEMMA ClaudeTalks ==
  ASSUME ClaudeTyped, Claude!Talks, kind' = kind
  PROVE  ClaudeRest' /\ ClaudeQuiet
<1>1. state' = state /\ flow' = flow /\ call' = call /\ out' = out
  BY DEF Claude!Talks, Claude!MayTalk, Claude!Says, Claude!Working
<1>2. agent' = [agent EXCEPT !.lines = @ + 1]
  BY DEF Claude!Talks, Claude!MayTalk, Claude!Says, Claude!Working
<1>3. agent.turns + 1 \in Nat /\ agent.lines + 1 \in Nat
  BY ClaudeFields
<1>4. [agent EXCEPT !.lines = @ + 1] \in Providers
  BY <1>3, ClaudeFields, ProviderShapes DEF Models
<1>5. [agent EXCEPT !.lines = @ + 1].asked = agent.asked
  BY ClaudeFields, ProviderShapes DEF Providers
<1>6. agent' \in Providers /\ agent'.asked = agent.asked
  BY <1>2, <1>4, <1>5, ClaudeFields
<1>7. /\ <<Claude!Input("delta", None)>> \in Seq(PlainInputs)
      /\ <<Claude!Input("assistant", None)>> \in Seq(PlainInputs)
  BY InputsTyped, SeqsTyped
<1>8. mail' = mail \/ mail' = mail \o <<Claude!Input("delta", None)>>
        \/ mail' = mail \o <<Claude!Input("assistant", None)>>
  BY DEF Claude!Talks, Claude!MayTalk, Claude!Says, Claude!Working, Claude!Posted
<1>9. mail' = mail \/ \E s \in Seq(PlainInputs) : mail' = mail \o s
  BY <1>7, <1>8
<1>10. ClaudeRest'
  BY <1>1, <1>6, <1>9, ClaudeFields
     DEF Claude!Talks, Claude!MayTalk, Claude!Says, Claude!Working, ClaudeRest, ClaudeTyped
<1>11. ClaudeQuiet
  BY <1>1, <1>6, <1>9 DEF ClaudeQuiet
<1> QED BY <1>10, <1>11

LEMMA ClaudeWithdraws ==
  ASSUME ClaudeTyped, Claude!Withdraws, kind' = kind
  PROVE  ClaudeRest' /\ ClaudeQuiet
<1>1. state' = state /\ flow' = flow /\ call' = call /\ out' = out
  BY DEF Claude!Withdraws, Claude!MayTalk, Claude!Says, Claude!Working
<1>2. PICK q \in agent.open : /\ Claude!Posted(<<Claude!Input("withdrawn", q)>>)
        /\ agent' = [agent EXCEPT !.open = @ \ {q}, !.lines = @ + 1]
  BY DEF Claude!Withdraws, Claude!MayTalk, Claude!Says, Claude!Working
<1>3. agent' = [agent EXCEPT !.open = @ \ {q}, !.lines = @ + 1]
  BY <1>2 DEF Claude!Withdraws, Claude!MayTalk, Claude!Says, Claude!Working
<1>4. agent.turns + 1 \in Nat /\ agent.lines + 1 \in Nat
  BY ClaudeFields
<1>5. agent.open \ {q} \in SUBSET Requests
  BY ClaudeFields
<1>6. [agent EXCEPT !.open = @ \ {q}, !.lines = @ + 1] \in Providers
  BY <1>4, <1>5, ClaudeFields, ProviderShapes DEF Models
<1>7. [agent EXCEPT !.open = @ \ {q}, !.lines = @ + 1].asked = agent.asked
  BY ClaudeFields, ProviderShapes DEF Providers
<1>8. agent' \in Providers /\ agent'.asked = agent.asked
  BY <1>3, <1>6, <1>7, ClaudeFields
<1>9. <<Claude!Input("withdrawn", q)>> \in Seq(PlainInputs)
  BY InputsTyped, SeqsTyped, ClaudeFields
<1>10. mail' = mail \/ mail' = mail \o <<Claude!Input("withdrawn", q)>>
  BY <1>2 DEF Claude!Withdraws, Claude!MayTalk, Claude!Says, Claude!Working, Claude!Posted
<1>11. mail' = mail \/ \E s \in Seq(PlainInputs) : mail' = mail \o s
  BY <1>9, <1>10
<1>12. ClaudeRest'
  BY <1>1, <1>8, <1>11, ClaudeFields
     DEF Claude!Withdraws, Claude!MayTalk, Claude!Says, Claude!Working, ClaudeRest, ClaudeTyped
<1>13. ClaudeQuiet
  BY <1>1, <1>8, <1>11 DEF ClaudeQuiet
<1> QED BY <1>12, <1>13

LEMMA ClaudeEndsTurn ==
  ASSUME ClaudeTyped, Claude!EndsTurn, kind' = kind
  PROVE  ClaudeRest' /\ ClaudeQuiet
<1>1. agent.turns - 1 \in Nat
  BY ClaudeFields DEF Claude!EndsTurn, Claude!Says, Claude!Working
<1>2. state' = state /\ flow' = flow /\ call' = call /\ out' = out
  BY DEF Claude!EndsTurn, Claude!Says, Claude!Working
<1>3. agent' = [agent EXCEPT !.turns = @ - 1, !.open = {}, !.interrupted = FALSE]
  BY <1>1 DEF Claude!EndsTurn, Claude!Says, Claude!Working
<1>4. agent.turns + 1 \in Nat /\ agent.lines + 1 \in Nat
  BY ClaudeFields
<1>5. [agent EXCEPT !.turns = @ - 1, !.open = {}, !.interrupted = FALSE] \in Providers
  BY <1>1, <1>4, ClaudeFields, ProviderShapes DEF Models
<1>6. [agent EXCEPT !.turns = @ - 1, !.open = {}, !.interrupted = FALSE].asked = agent.asked
  BY <1>1, ClaudeFields, ProviderShapes DEF Providers
<1>7. agent' \in Providers /\ agent'.asked = agent.asked
  BY <1>3, <1>5, <1>6, ClaudeFields
<1>8. /\ <<Claude!Input("ok", None)>> \in Seq(PlainInputs)
      /\ <<Claude!Input("error", None)>> \in Seq(PlainInputs)
      /\ <<Claude!Input("aborted", None)>> \in Seq(PlainInputs)
  BY <1>1, InputsTyped, SeqsTyped
<1>9. mail' = mail \/ mail' = mail \o <<Claude!Input("ok", None)>>
        \/ mail' = mail \o <<Claude!Input("error", None)>>
        \/ mail' = mail \o <<Claude!Input("aborted", None)>>
  BY DEF Claude!EndsTurn, Claude!Says, Claude!Working, Claude!Posted
<1>10. mail' = mail \/ \E s \in Seq(PlainInputs) : mail' = mail \o s
  BY <1>8, <1>9
<1>11. ClaudeRest'
  BY <1>2, <1>7, <1>10, ClaudeFields
     DEF Claude!EndsTurn, Claude!Says, Claude!Working, ClaudeRest, ClaudeTyped
<1>12. ClaudeQuiet
  BY <1>2, <1>7, <1>10 DEF ClaudeQuiet
<1> QED BY <1>11, <1>12

LEMMA ClaudeDies ==
  ASSUME ClaudeTyped, Claude!Dies, kind' = kind
  PROVE  ClaudeRest' /\ ClaudeQuiet
<1>1. state' = state /\ flow' = flow /\ call' = call /\ out' = out
  BY DEF Claude!Dies, Claude!Says
<1>2. agent' = Claude!Dead(agent)
  BY DEF Claude!Dies, Claude!Says
<1>3. Claude!Dead(agent) \in Providers
  BY ClaudeFields, ProviderShapes DEF Models
<1>4. Claude!Dead(agent).asked = agent.asked
  BY ClaudeFields, ProviderShapes
<1>5. agent' \in Providers /\ agent'.asked = agent.asked
  BY <1>2, <1>3, <1>4, ClaudeFields
<1>6. <<Claude!Input("eof", None)>> \in Seq(PlainInputs)
  BY InputsTyped, SeqsTyped
<1>7. mail' = mail \/ mail' = mail \o <<Claude!Input("eof", None)>>
  BY DEF Claude!Dies, Claude!Says, Claude!Posted
<1>8. mail' = mail \/ \E s \in Seq(PlainInputs) : mail' = mail \o s
  BY <1>6, <1>7
<1>9. ClaudeRest'
  BY <1>1, <1>5, <1>8, ClaudeFields DEF Claude!Dies, Claude!Says, ClaudeRest, ClaudeTyped
<1>10. ClaudeQuiet
  BY <1>1, <1>5, <1>8 DEF ClaudeQuiet
<1> QED BY <1>9, <1>10

-----------------------------------------------------------------------------
(* The steps of a Claude session that move a request: a host takes a parked *)
(* one, its answer is queued, the agent asks, the driver parks or answers.  *)
LEMMA ClaudeHoldersAre ==
  ASSUME ClaudeTyped, ClaudeLedger
  PROVE  /\ ClaudeHolders \subseteq Answers
         /\ \A t \in Keys(mail, InputAnswers) : call[t].at \in {"posted", "failed"}
         /\ ClaudeHeld \subseteq Requests /\ Resolved \subseteq Requests
         /\ ClaudeAsking \subseteq Requests
         /\ None \notin ClaudeHeld \cup Resolved \cup ClaudeAsking \cup agent.asked
<1>1. agent.asked \subseteq Requests
  BY ClaudeFields
<1> QED BY <1>1, NoneAssumption DEF ClaudeLedger, ClaudeQueuedOnce, ClaudeOnePlace, ClaudeHolders

LEMMA InputsAppended ==
  ASSUME ClaudeTyped, NEW i \in Inputs
  PROVE  /\ mail \o <<i>> \in Seq(Inputs)
         /\ \A F \in {InputAsked, InputAnswers} :
              /\ Keys(mail \o <<i>>, F) = Keys(mail, F) \cup Key(F, i)
              /\ Distinct(mail, F) /\ F[i] \notin Keys(mail, F) => Distinct(mail \o <<i>>, F)
<1>1. mail \in Seq(Inputs) /\ <<i>> \in Seq(Inputs)
  BY ClaudeFields, SeqsTyped
<1> QED BY <1>1, KeysConcat, SeqsTyped

LEMMA ClaudeAnswerKeeps ==
  ASSUME ClaudeTyped, ClaudeLedger, NEW t \in Answers, Claude!Answer(t), kind' = kind
  PROVE  ClaudeTyped' /\ ClaudeLedger'
<1>1. PICK q \in Requests, decision \in Decisions :
         \/ /\ ~state.closed /\ q \in state.pending
            /\ call' = [call EXCEPT ![t] = [at |-> "checked", of |-> q, decision |-> decision]]
            /\ state' = [state EXCEPT !.pending = @ \ {q}]
         \/ /\ state.closed \/ q \notin state.pending
            /\ call' = [call EXCEPT ![t] = [at |-> "failed", of |-> q, decision |-> decision]]
            /\ UNCHANGED state
  BY DEF Claude!Answer
<1>2. /\ call[t].at = "idle" /\ mail' = mail /\ agent' = agent /\ out' = out
      /\ t \in Calls /\ call \in [Calls -> ClaudeCalls] /\ state \in ClaudeStates
  BY ClaudeFields DEF Claude!Answer, Claude!MayCall, Calls
<1>3. ClaudeTyped'
  <2>1. /\ [call EXCEPT ![t] = [at |-> "checked", of |-> q, decision |-> decision]]
             \in [Calls -> ClaudeCalls]
        /\ [call EXCEPT ![t] = [at |-> "failed", of |-> q, decision |-> decision]]
             \in [Calls -> ClaudeCalls]
    BY <1>2, ClaudeCallSetters DEF ClaudeStages
  <2>2. state.pending \ {q} \in SUBSET Requests
    BY ClaudeFields
  <2>3. [state EXCEPT !.pending = @ \ {q}] \in ClaudeStates
    BY <1>2, <2>2, ClaudeStateSetters
  <2>4. call' \in [Calls -> ClaudeCalls] /\ state' \in ClaudeStates
    BY <1>1, <1>2, <2>1, <2>3
  <2> QED BY <1>2, <2>4, ClaudeFields DEF ClaudeTyped, ClaudeRest, Claude!Answer
<1>4. ClaudeAsking' = ClaudeAsking /\ Resolved' = Resolved /\ Distinct(out', ResolvedOf)
  BY <1>2 DEF ClaudeLedger, ClaudeAsking, Resolved, ResolvedOnce
<1>5. t \notin ClaudeHolders /\ t \notin Keys(mail, InputAnswers)
  BY <1>2, ClaudeHoldersAre DEF ClaudeHolders
<1>6. \A u \in Calls : u # t => call'[u] = call[u]
  BY <1>1, <1>2
<1>7. CASE /\ q \in state.pending
           /\ call' = [call EXCEPT ![t] = [at |-> "checked", of |-> q, decision |-> decision]]
           /\ state' = [state EXCEPT !.pending = @ \ {q}]
  <2>1. call'[t].at = "checked" /\ call'[t].of = q /\ state'.pending = state.pending \ {q}
    BY <1>2, <1>7 DEF ClaudeStates
  <2>2. ClaudeHolders' = ClaudeHolders \cup {t} /\ \A u \in ClaudeHolders : call'[u].of = call[u].of
    BY <1>2, <1>5, <1>6, <2>1, ClaudeHoldersAre DEF ClaudeHolders, Calls
  <2>3. ClaudeHeld' = ClaudeHeld \cup {q}
    BY <2>1, <2>2 DEF ClaudeHeld
  <2>4. q \notin ClaudeHeld /\ q \notin Resolved /\ q \notin ClaudeAsking /\ q \in agent.asked
    BY <1>7 DEF ClaudeLedger, ClaudeOnePlace
  <2>5. \A u, v \in ClaudeHolders' : (call[u].of = call[v].of => u = v)'
    <3>1. \A u \in ClaudeHolders : call[u].of # q
      BY <2>4 DEF ClaudeHeld
    <3> QED BY <2>1, <2>2, <3>1 DEF ClaudeLedger, ClaudeOnePlace
  <2>6. ClaudeOnePlace'
    BY <1>2, <1>4, <2>1, <2>3, <2>4, <2>5 DEF ClaudeLedger, ClaudeOnePlace
  <2>7. ClaudeQueuedOnce' /\ ResolvedOnce'
    BY <1>2, <1>4, <1>5, <1>6, <2>1 DEF ClaudeLedger, ClaudeQueuedOnce, ResolvedOnce, Calls
  <2> QED BY <1>3, <2>6, <2>7 DEF ClaudeLedger
<1>8. CASE /\ call' = [call EXCEPT ![t] = [at |-> "failed", of |-> q, decision |-> decision]]
           /\ UNCHANGED state
  <2>1. call'[t].at = "failed"
    BY <1>2, <1>8
  <2>2. ClaudeHolders' = ClaudeHolders /\ \A u \in ClaudeHolders : call'[u].of = call[u].of
    BY <1>2, <1>5, <1>6, <2>1, ClaudeHoldersAre DEF ClaudeHolders, Calls
  <2>3. ClaudeHeld' = ClaudeHeld
    BY <2>2 DEF ClaudeHeld
  <2>4. ClaudeOnePlace'
    BY <1>2, <1>4, <1>8, <2>2, <2>3 DEF ClaudeLedger, ClaudeOnePlace
  <2>5. ClaudeQueuedOnce' /\ ResolvedOnce'
    BY <1>2, <1>4, <1>5, <1>6, <2>1 DEF ClaudeLedger, ClaudeQueuedOnce, ResolvedOnce, Calls
  <2> QED BY <1>3, <2>4, <2>5 DEF ClaudeLedger
<1> QED BY <1>1, <1>7, <1>8

LEMMA ClaudePostCommandKeeps ==
  ASSUME ClaudeTyped, ClaudeLedger, NEW t \in Calls, Claude!PostCommand(t), kind' = kind
  PROVE  ClaudeTyped' /\ ClaudeLedger'
<1> DEFINE i == Claude!Input(Claude!Command(t), t)
<1>1. /\ call[t].at = "checked" /\ state' = state /\ agent' = agent /\ out' = out
      /\ call \in [Calls -> ClaudeCalls] /\ mail \in Seq(Inputs)
  BY ClaudeFields DEF Claude!PostCommand
<1>2. mail' = mail \/ mail' = mail \o <<i>>
  BY DEF Claude!PostCommand, Claude!Posted
<1>3. call' = [call EXCEPT ![t].at = "posted"] \/ call' = [call EXCEPT ![t].at = "failed"]
  BY DEF Claude!PostCommand, Claude!Told
<1>4. /\ \A u \in Calls : u # t => call'[u] = call[u]
      /\ call'[t].of = call[t].of /\ call'[t].at \in {"posted", "failed"}
  BY <1>1, <1>3 DEF ClaudeCalls
<1>5. i \in Inputs /\ InputAsked[i] = None
      /\ InputAnswers[i] = IF t \in Answers THEN t ELSE None
  <2>1. CASE t \in Answers
    <3>1. i \in Inputs /\ i.kind = "answer" /\ i.of = t
      BY <2>1, InputsTyped DEF Claude!Command
    <3> HIDE DEF i
    <3> QED BY <2>1, <3>1 DEF InputAsked, InputAnswers
  <2>2. CASE t \notin Answers
    <3>1. i \in Inputs /\ i.kind \in {"interrupt", "setModel"}
      BY <2>2, InputsTyped DEF Claude!Command, Calls
    <3> HIDE DEF i
    <3> QED BY <2>2, <3>1 DEF InputAsked, InputAnswers
  <2> QED BY <2>1, <2>2
<1> HIDE DEF i
<1>6. /\ t \notin Keys(mail, InputAnswers) /\ None \notin Keys(mail, InputAsked)
      /\ None \notin Keys(mail, InputAnswers)
  BY <1>1, ClaudeHoldersAre DEF Keys
<1>7. /\ mail' \in Seq(Inputs) /\ Keys(mail', InputAsked) = Keys(mail, InputAsked)
      /\ Distinct(mail', InputAsked)
      /\ Keys(mail', InputAnswers) \subseteq Keys(mail, InputAnswers) \cup ({t} \cap Answers)
      /\ Distinct(mail', InputAnswers)
  <2>1. CASE mail' = mail
    BY <1>1, <2>1 DEF ClaudeLedger, ClaudeQueuedOnce
  <2>2. CASE mail' = mail \o <<i>>
    <3>1. /\ mail' \in Seq(Inputs)
          /\ Keys(mail', InputAsked) = Keys(mail, InputAsked) \cup Key(InputAsked, i)
          /\ (Distinct(mail, InputAsked) /\ InputAsked[i] \notin Keys(mail, InputAsked)
               => Distinct(mail', InputAsked))
          /\ Keys(mail', InputAnswers) = Keys(mail, InputAnswers) \cup Key(InputAnswers, i)
          /\ (Distinct(mail, InputAnswers) /\ InputAnswers[i] \notin Keys(mail, InputAnswers)
                => Distinct(mail', InputAnswers))
      BY <1>5, <2>2, InputsAppended
    <3> QED BY <1>5, <1>6, <3>1 DEF ClaudeLedger, ClaudeQueuedOnce, Key
  <2> QED BY <1>2, <2>1, <2>2
<1>8. ClaudeTyped'
  <2>1. /\ [call EXCEPT ![t].at = "posted"] \in [Calls -> ClaudeCalls]
        /\ [call EXCEPT ![t].at = "failed"] \in [Calls -> ClaudeCalls]
    BY <1>1, ClaudeCallSetters DEF ClaudeStages
  <2> QED BY <1>1, <1>3, <1>7, <2>1, ClaudeFields DEF ClaudeTyped, ClaudeRest, Claude!PostCommand
<1>9. ClaudeQueuedOnce'
  BY <1>4, <1>7 DEF ClaudeLedger, ClaudeQueuedOnce, Calls
<1>10. /\ ClaudeHolders' \subseteq ClaudeHolders
       /\ \A u \in ClaudeHolders : u \in Answers /\ call'[u].of = call[u].of
  BY <1>1, <1>4, <1>7, ClaudeHoldersAre DEF ClaudeHolders, Calls
<1>11. ClaudeHeld' \subseteq ClaudeHeld /\ ClaudeAsking' = ClaudeAsking /\ Resolved' = Resolved
  BY <1>1, <1>7, <1>10 DEF ClaudeHeld, ClaudeAsking, Resolved
<1>12. ClaudeOnePlace'
  <2>1. \A u, v \in ClaudeHolders' : (call[u].of = call[v].of => u = v)'
    BY <1>10 DEF ClaudeLedger, ClaudeOnePlace
  <2> QED BY <1>1, <1>11, <2>1 DEF ClaudeLedger, ClaudeOnePlace
<1>13. ResolvedOnce'
  BY <1>1, <1>4, <1>11 DEF ClaudeLedger, ResolvedOnce, Calls
<1> QED BY <1>8, <1>9, <1>12, <1>13 DEF ClaudeLedger

LEMMA ClaudeAsksKeeps ==
  ASSUME ClaudeTyped, ClaudeLedger, Claude!Asks, kind' = kind
  PROVE  ClaudeTyped' /\ ClaudeLedger'
<1>1. PICK q \in Requests \ agent.asked :
         /\ Claude!Posted(<<Claude!Input("request", q)>>)
         /\ agent' = [agent EXCEPT !.asked = @ \cup {q}, !.open = @ \cup {q}, !.lines = @ + 1]
  BY DEF Claude!Asks, Claude!Says
<1> DEFINE i == Claude!Input("request", q)
<1>2. state' = state /\ call' = call /\ out' = out /\ agent \in Providers
  BY ClaudeFields DEF Claude!Asks, Claude!Says
<1>3. i \in Inputs /\ InputAsked[i] = q /\ InputAnswers[i] = None /\ q # None
  <2>1. i \in Inputs /\ i.kind = "request" /\ i.of = q
    BY InputsTyped
  <2> HIDE DEF i
  <2> QED BY <2>1, NoneAssumption DEF InputAsked, InputAnswers
<1>4. mail' = mail \/ mail' = mail \o <<i>>
  BY <1>1 DEF Claude!Posted
<1> HIDE DEF i
<1>5. q \notin ClaudeAsking /\ q \notin state.pending /\ q \notin ClaudeHeld /\ q \notin Resolved
  BY DEF ClaudeLedger, ClaudeOnePlace
<1>6. None \notin Keys(mail, InputAnswers)
  BY DEF Keys
<1>7. /\ mail' \in Seq(Inputs) /\ Keys(mail', InputAsked) \subseteq Keys(mail, InputAsked) \cup {q}
      /\ Distinct(mail', InputAsked)
      /\ Keys(mail', InputAnswers) = Keys(mail, InputAnswers) /\ Distinct(mail', InputAnswers)
  <2>1. CASE mail' = mail
    BY <2>1, ClaudeFields DEF ClaudeLedger, ClaudeQueuedOnce
  <2>2. CASE mail' = mail \o <<i>>
    <3>1. /\ mail' \in Seq(Inputs)
          /\ Keys(mail', InputAsked) = Keys(mail, InputAsked) \cup Key(InputAsked, i)
          /\ (Distinct(mail, InputAsked) /\ InputAsked[i] \notin Keys(mail, InputAsked)
               => Distinct(mail', InputAsked))
          /\ Keys(mail', InputAnswers) = Keys(mail, InputAnswers) \cup Key(InputAnswers, i)
          /\ (Distinct(mail, InputAnswers) /\ InputAnswers[i] \notin Keys(mail, InputAnswers)
                => Distinct(mail', InputAnswers))
      BY <1>3, <2>2, InputsAppended
    <3> QED BY <1>3, <1>5, <1>6, <3>1 DEF ClaudeLedger, ClaudeQueuedOnce, ClaudeAsking, Key
  <2> QED BY <1>4, <2>1, <2>2
<1>8. agent' \in Providers /\ agent'.asked = agent.asked \cup {q}
  <2>1. /\ agent.asked \cup {q} \in SUBSET Requests /\ agent.open \cup {q} \in SUBSET Requests
        /\ agent.lines + 1 \in Nat
    BY ClaudeFields
  <2>2. [agent EXCEPT !.asked = @ \cup {q}, !.open = @ \cup {q}, !.lines = @ + 1] \in Providers
    BY <1>2, <2>1, ProviderShapes
  <2>3. agent'.asked = agent.asked \cup {q}
    BY <1>1, <1>2 DEF Providers
  <2> QED BY <1>1, <2>2, <2>3
<1>9. ClaudeTyped'
  BY <1>2, <1>7, <1>8, ClaudeFields DEF ClaudeTyped, ClaudeRest, Claude!Asks, Claude!Says
<1>10. ClaudeQueuedOnce' /\ ResolvedOnce'
  BY <1>2, <1>7 DEF ClaudeLedger, ClaudeQueuedOnce, ResolvedOnce, Resolved
<1>11. /\ ClaudeHolders' = ClaudeHolders /\ ClaudeHeld' = ClaudeHeld /\ Resolved' = Resolved
       /\ ClaudeAsking' \subseteq ClaudeAsking \cup {q}
  BY <1>2, <1>7 DEF ClaudeHolders, ClaudeHeld, Resolved, ClaudeAsking
<1>12. ClaudeOnePlace'
  BY <1>2, <1>5, <1>8, <1>11 DEF ClaudeLedger, ClaudeOnePlace
<1> QED BY <1>9, <1>10, <1>12 DEF ClaudeLedger

LEMMA HeadInput ==
  ASSUME ClaudeTyped, mail # << >>
  PROVE  \A F \in {InputAsked, InputAnswers} :
           /\ Keys(mail, F) = Keys(Tail(mail), F) \cup Key(F, Head(mail))
           /\ Distinct(mail, F) => Distinct(Tail(mail), F) /\ F[Head(mail)] \notin Keys(Tail(mail), F)
<1>1. mail \in Seq(Inputs)
  BY ClaudeFields
<1> QED BY <1>1, KeysTail

LEMMA ClaudeOnControlRequestKeeps ==
  ASSUME ClaudeTyped, ClaudeLedger, Claude!OnControlRequest, kind' = kind
  PROVE  ClaudeTyped' /\ ClaudeLedger'
<1> DEFINE q == Claude!Of
<1>1. Claude!Takes({"request"}) /\ mail' = Tail(mail)
  BY DEF Claude!OnControlRequest, Claude!NextInput
<1>2. /\ mail # << >> /\ Head(mail) \in Inputs /\ Tail(mail) \in Seq(Inputs)
      /\ Head(mail).kind = "request" /\ q \in Requests
  BY <1>1, InputTaken
<1>3. InputAsked[Head(mail)] = q /\ InputAnswers[Head(mail)] = None /\ q # None
  BY <1>2, NoneAssumption DEF InputAsked, InputAnswers, Claude!Of
<1> HIDE DEF q
<1>4. /\ q \in ClaudeAsking /\ q \notin ClaudeAsking' /\ ClaudeAsking' \subseteq ClaudeAsking
      /\ Distinct(mail', InputAsked) /\ Distinct(mail', InputAnswers)
      /\ Keys(mail', InputAnswers) = Keys(mail, InputAnswers)
  <2>1. /\ Keys(mail, InputAsked) = Keys(Tail(mail), InputAsked) \cup Key(InputAsked, Head(mail))
        /\ (Distinct(mail, InputAsked) => Distinct(Tail(mail), InputAsked)
              /\ InputAsked[Head(mail)] \notin Keys(Tail(mail), InputAsked))
        /\ Keys(mail, InputAnswers) = Keys(Tail(mail), InputAnswers) \cup Key(InputAnswers, Head(mail))
        /\ (Distinct(mail, InputAnswers) => Distinct(Tail(mail), InputAnswers))
    BY <1>2, HeadInput
  <2> QED BY <1>1, <1>3, <2>1 DEF ClaudeLedger, ClaudeQueuedOnce, ClaudeAsking, Key
<1>5. call' = call
  BY DEF Claude!OnControlRequest
<1>6. \/ /\ state' = [state EXCEPT !.pending = @ \cup {q}] /\ agent' = agent
         /\ out' = out \o <<Claude!Status("waiting"), Claude!Event("requested", flow.run, q)>>
      \/ agent' = [agent EXCEPT !.open = @ \ {q}] /\ state' = state /\ out' = out
  BY DEF Claude!OnControlRequest, Claude!Emit, q
<1>7. /\ state' \in ClaudeStates /\ state'.pending \subseteq state.pending \cup {q}
      /\ agent' \in Providers /\ agent'.asked = agent.asked
  <2>1. state.pending \cup {q} \in SUBSET Requests /\ agent.open \ {q} \in SUBSET Requests
    BY <1>2, ClaudeFields DEF q
  <2>2. /\ [state EXCEPT !.pending = @ \cup {q}] \in ClaudeStates
        /\ [agent EXCEPT !.open = @ \ {q}] \in Providers
    BY <2>1, ClaudeFields, ClaudeStateSetters, ProviderShapes
  <2>3. [state EXCEPT !.pending = @ \cup {q}].pending = state.pending \cup {q}
        /\ [agent EXCEPT !.open = @ \ {q}].asked = agent.asked
    BY ClaudeFields DEF ClaudeStates, Providers
  <2> QED BY <1>6, <2>2, <2>3, ClaudeFields
<1>8. /\ out' \in Seq(EventSet) /\ Resolved' = Resolved
      /\ (Distinct(out, ResolvedOf) => Distinct(out', ResolvedOf))
  <2> DEFINE e == <<Claude!Status("waiting"), Claude!Event("requested", flow.run, q)>>
  <2>1. Claude!Status("waiting") \in PlainEvents /\ Claude!Event("requested", flow.run, q) \in PlainEvents
    BY <1>2, ClaudeEventsTyped, ClaudeFields DEF q
  <2>2. e \in Seq(PlainEvents)
    BY <2>1, SeqsTyped
  <2>3. e \in Seq(EventSet) /\ Keys(e, ResolvedOf) = {} /\ Distinct(e, ResolvedOf)
    BY <2>2, PlainEventsOnly, EmittedKeys
  <2> HIDE DEF e
  <2>4. CASE out' = out \o e
    BY <2>3, <2>4, ClaudeEmits
  <2>5. CASE out' = out
    BY <2>5, ClaudeFields DEF Resolved
  <2> USE DEF e
  <2> QED BY <1>6, <2>4, <2>5
<1>9. ClaudeTyped'
  BY <1>1, <1>2, <1>5, <1>7, <1>8, ClaudeFields
     DEF ClaudeTyped, ClaudeRest, Claude!OnControlRequest, Claude!NextInput
<1>10. ClaudeQueuedOnce' /\ ResolvedOnce'
  BY <1>4, <1>5, <1>8 DEF ClaudeLedger, ClaudeQueuedOnce, ResolvedOnce
<1>11. ClaudeHolders' = ClaudeHolders /\ ClaudeHeld' = ClaudeHeld
  BY <1>4, <1>5 DEF ClaudeHolders, ClaudeHeld
<1>12. ClaudeOnePlace'
  BY <1>4, <1>5, <1>7, <1>8, <1>11 DEF ClaudeLedger, ClaudeOnePlace
<1> QED BY <1>9, <1>10, <1>12 DEF ClaudeLedger

LEMMA ClaudeOnAnswerKeeps ==
  ASSUME ClaudeTyped, ClaudeLedger, Claude!OnAnswer, kind' = kind
  PROVE  ClaudeTyped' /\ ClaudeLedger'
<1> DEFINE t == Claude!Of
           q == call[t].of
<1>1. Claude!Takes({"answer"}) /\ mail' = Tail(mail)
  BY DEF Claude!OnAnswer, Claude!NextInput
<1>2. /\ mail # << >> /\ Head(mail) \in Inputs /\ Tail(mail) \in Seq(Inputs)
      /\ Head(mail).kind = "answer" /\ t \in Answers /\ t \in Calls
  BY <1>1, InputTaken DEF Calls
<1>3. InputAsked[Head(mail)] = None /\ InputAnswers[Head(mail)] = t /\ t # None
  BY <1>2, NoneAssumption DEF InputAsked, InputAnswers, Claude!Of
<1> HIDE DEF t
<1>4. /\ t \in Keys(mail, InputAnswers) /\ t \notin Keys(mail', InputAnswers)
      /\ Keys(mail, InputAnswers) = Keys(mail', InputAnswers) \cup {t}
      /\ Distinct(mail', InputAsked) /\ Distinct(mail', InputAnswers)
      /\ ClaudeAsking' = ClaudeAsking
  <2>1. /\ Keys(mail, InputAsked) = Keys(Tail(mail), InputAsked) \cup Key(InputAsked, Head(mail))
        /\ (Distinct(mail, InputAsked) => Distinct(Tail(mail), InputAsked))
        /\ Keys(mail, InputAnswers) = Keys(Tail(mail), InputAnswers) \cup Key(InputAnswers, Head(mail))
        /\ (Distinct(mail, InputAnswers) => Distinct(Tail(mail), InputAnswers)
              /\ InputAnswers[Head(mail)] \notin Keys(Tail(mail), InputAnswers))
    BY <1>2, HeadInput
  <2> QED BY <1>1, <1>3, <2>1 DEF ClaudeLedger, ClaudeQueuedOnce, ClaudeAsking, Key
<1>5. t \in ClaudeHolders /\ q \in ClaudeHeld /\ q \in Requests /\ call[t].at \in {"posted", "failed"}
  BY <1>4, ClaudeHoldersAre DEF ClaudeHolders, ClaudeHeld
<1> DEFINE e == <<Claude!Event("resolved", None, q), Claude!Status("working")>>
<1>6. \/ /\ out' = out \o e
         /\ call' = IF call[t].at = "posted" THEN [call EXCEPT ![t].at = "ok"] ELSE call
      \/ /\ out' = out
         /\ call' = IF call[t].at = "posted" THEN [call EXCEPT ![t].at = "failed"] ELSE call
  <2>1. t \notin Selects /\ t \notin Sends
    BY <1>2, ThreadsAssumption
  <2>2. /\ Claude!Replied(t, TRUE) => call' = IF call[t].at
             = "posted" THEN [call EXCEPT ![t].at = "ok"] ELSE call
        /\ Claude!Replied(t, FALSE)
             => call' = IF call[t].at = "posted" THEN [call EXCEPT ![t].at = "failed"] ELSE call
    BY <2>1 DEF Claude!Replied
  <2>3. \/ out' = out \o e /\ Claude!Replied(t, TRUE)
        \/ out' = out /\ Claude!Replied(t, FALSE)
    BY DEF Claude!OnAnswer, Claude!Emit, t
  <2> QED BY <2>2, <2>3
<1>7. e \in Seq(EventSet) /\ Keys(e, ResolvedOf) = {q} /\ Distinct(e, ResolvedOf)
  <2>1. e = <<Event("resolved", None, q), Status("working")>>
    BY DEF Claude!Event, Claude!Status, Event, Status
  <2> HIDE DEF e
  <2> QED BY <1>5, <2>1, EmittedKeys
<1> HIDE DEF e, q
<1>8. state' = state
  BY DEF Claude!OnAnswer
<1>9. agent' \in Providers /\ agent'.asked = agent.asked /\ flow' \in ClaudeFlows
  <2>1. PICK b \in BOOLEAN : agent' = agent \/ agent' = [agent EXCEPT !.open = @ \ {q}, !.interrupted = b]
    <3>1. (agent.interrupted \/ (call[t].decision = "cancel" /\ agent.turns > 0)) \in BOOLEAN
      OBVIOUS
    <3> QED BY <3>1 DEF Claude!OnAnswer, t, q
  <2>2. agent.open \ {q} \in SUBSET Requests
    BY ClaudeFields
  <2>3. [agent EXCEPT !.open = @ \ {q}, !.interrupted = b] \in Providers
    BY <2>2, ClaudeFields, ProviderShapes
  <2>4. [agent EXCEPT !.open = @ \ {q}, !.interrupted = b].asked = agent.asked
    BY ClaudeFields DEF Providers
  <2>5. flow' = flow \/ flow' = [flow EXCEPT !.cancel = TRUE]
    BY DEF Claude!OnAnswer
  <2>6. flow' \in ClaudeFlows
    BY <2>5, ClaudeFields DEF ClaudeFlows
  <2> QED BY <2>1, <2>3, <2>4, <2>6, ClaudeFields
<1>10. /\ call' \in [Calls -> ClaudeCalls]
       /\ \A u \in Calls : u # t => call'[u] = call[u]
       /\ call'[t].of = q /\ call'[t].at \in {"ok", "failed"}
       /\ out' = out => call'[t].at = "failed"
  <2>1. call \in [Calls -> ClaudeCalls]
    BY ClaudeFields
  <2>2. /\ [call EXCEPT ![t].at = "ok"] \in [Calls -> ClaudeCalls]
        /\ [call EXCEPT ![t].at = "failed"] \in [Calls -> ClaudeCalls]
    BY <1>2, <2>1, ClaudeCallSetters DEF ClaudeStages
  <2>3. call' \in [Calls -> ClaudeCalls]
    BY <1>6, <2>1, <2>2
  <2>4. \A u \in Calls : u # t => call'[u] = call[u]
    BY <1>6, <2>1
  <2>5. call'[t].of = q /\ call'[t].at \in {"ok", "failed"}
    BY <1>2, <1>5, <1>6, <2>1 DEF ClaudeCalls, q
  <2>6. out' = out => call'[t].at = "failed"
    <3>1. out' = out => out' # out \o e
      <4>1. out \in Seq(EventSet) /\ Len(e) > 0
        BY <1>7, ClaudeFields DEF e
      <4> QED BY <1>7, <4>1
    <3> QED BY <1>2, <1>5, <1>6, <2>1, <3>1 DEF ClaudeCalls
  <2> QED BY <2>3, <2>4, <2>5, <2>6
<1>11. out' \in Seq(EventSet)
  BY <1>6, <1>7, ClaudeEmits, ClaudeFields
<1>12. ClaudeTyped'
  BY <1>1, <1>2, <1>8, <1>9, <1>10, <1>11, ClaudeFields
     DEF ClaudeTyped, ClaudeRest, Claude!OnAnswer, Claude!NextInput
<1>13. ClaudeQueuedOnce'
  BY <1>2, <1>4, <1>10 DEF ClaudeLedger, ClaudeQueuedOnce, Calls
<1>14. ClaudeHolders' = ClaudeHolders \ {t} /\ \A u \in ClaudeHolders' : u \in Answers
         /\ call'[u].of = call[u].of
  BY <1>2, <1>4, <1>10, ClaudeHoldersAre DEF ClaudeHolders, Calls
<1>15. ClaudeHeld' = ClaudeHeld \ {q}
  BY <1>5, <1>14 DEF ClaudeLedger, ClaudeOnePlace, ClaudeHeld, q
<1>16. \A u, v \in ClaudeHolders' : (call[u].of = call[v].of => u = v)'
  BY <1>14 DEF ClaudeLedger, ClaudeOnePlace
<1>17. q \notin Resolved /\ q \notin ClaudeAsking /\ q \notin state.pending /\ q \in agent.asked
  BY <1>5 DEF ClaudeLedger, ClaudeOnePlace
<1>18. /\ Resolved' \subseteq Resolved \cup {q} /\ Resolved \subseteq Resolved'
       /\ Distinct(out', ResolvedOf)
       /\ out' = out \/ q \in Resolved'
  <2>1. CASE out' = out
    BY <2>1 DEF Resolved, ClaudeLedger, ResolvedOnce
  <2>2. CASE out' = out \o e
    <3>1. /\ Resolved' = Resolved \cup {q}
          /\ Distinct(out, ResolvedOf) /\ Resolved \cap {q} = {} => Distinct(out', ResolvedOf)
      BY <1>7, <2>2, ClaudeEmits
    <3> QED BY <1>17, <3>1 DEF ClaudeLedger, ResolvedOnce
  <2> QED BY <1>6, <2>1, <2>2
<1>19. ClaudeOnePlace'
  BY <1>4, <1>8, <1>9, <1>15, <1>16, <1>17, <1>18 DEF ClaudeLedger, ClaudeOnePlace
<1>20. ResolvedOnce'
  <2>1. ASSUME NEW u \in Answers, u # t, call'[u].at = "ok"
        PROVE  call'[u].of = call[u].of /\ call[u].at = "ok" /\ call[u].of \in Resolved /\ call[u].of # q
    BY <1>10, <1>17, <2>1 DEF ClaudeLedger, ResolvedOnce, Calls
  <2>2. ASSUME call'[t].at = "ok" PROVE q \in Resolved'
    <3>1. CASE out' = out
      BY <1>10, <2>2, <3>1, <1>5
    <3> QED BY <1>18, <3>1
  <2>3. ASSUME NEW u \in Answers, call'[u].at = "ok"
        PROVE  /\ call'[u].of \in Resolved'
               /\ \A v \in Answers \ {u} : call'[v].at = "ok" => call'[v].of # call'[u].of
    <3>1. CASE u = t
      BY <1>10, <2>1, <2>2, <2>3, <3>1
    <3>2. CASE u # t
      <4>1. call'[u].of = call[u].of /\ call[u].at = "ok" /\ call[u].of \in Resolved /\ call[u].of # q
        BY <2>1, <2>3, <3>2
      <4>2. ASSUME NEW v \in Answers \ {u}, call'[v].at = "ok" PROVE call'[v].of # call'[u].of
        <5>1. CASE v = t
          BY <1>10, <4>1, <5>1
        <5>2. CASE v # t
          BY <2>1, <4>1, <4>2, <5>2 DEF ClaudeLedger, ResolvedOnce
        <5> QED BY <5>1, <5>2
      <4> QED BY <1>18, <4>1, <4>2
    <3> QED BY <3>1, <3>2
  <2> QED BY <1>18, <2>3 DEF ResolvedOnce
<1> QED BY <1>12, <1>13, <1>19, <1>20 DEF ClaudeLedger

(* A Claude session starts with no request at all.                          *)
LEMMA ClaudeInitSound == Claude!Init /\ kind = "claude" => ClaudeTyped /\ ClaudeLedger
<1> SUFFICES ASSUME Claude!Init, kind = "claude" PROVE ClaudeTyped /\ ClaudeLedger
  OBVIOUS
<1>1. mail = << >> /\ out = << >> /\ state.pending = {} /\ \A t \in Calls : call[t].at = "idle"
  BY DEF Claude!Init, Claude!Calls, Calls
<1>2. mail \in Seq(Inputs) /\ out \in Seq(EventSet)
  BY <1>1, SeqsTyped
<1>3. state \in ClaudeStates /\ flow \in ClaudeFlows /\ agent \in Providers
  BY DEF Claude!Init, Claude!NoFlow, ClaudeStates, ClaudeFlows, Providers, Models
<1>4. call \in [Calls -> ClaudeCalls]
  BY DEF Claude!Init, Claude!Calls, Calls, ClaudeCalls, ClaudeStages
<1>5. ClaudeTyped
  BY <1>2, <1>3, <1>4 DEF ClaudeTyped, ClaudeRest, Claude!Init
<1>6. /\ Keys(mail, InputAsked) = {} /\ Distinct(mail, InputAsked)
      /\ Keys(mail, InputAnswers) = {} /\ Distinct(mail, InputAnswers)
      /\ Keys(out, ResolvedOf) = {} /\ Distinct(out, ResolvedOf)
  BY <1>1, NoKeys
<1>7. ClaudeHolders = {} /\ ClaudeAsking = {} /\ Resolved = {}
  BY <1>1, <1>6 DEF ClaudeHolders, ClaudeAsking, Resolved, Calls
<1>8. ClaudeHeld = {}
  BY <1>7 DEF ClaudeHeld
<1>9. ClaudeLedger
  BY <1>1, <1>6, <1>7, <1>8 DEF ClaudeLedger, ClaudeQueuedOnce, ClaudeOnePlace, ResolvedOnce, Calls
<1> QED BY <1>5, <1>9

(* A step of the adapter or its agent.                                      *)
LEMMA LocalStepSound ==
  ASSUME LocalTyped, Ledger, StartStep \/ HostStep \/ StopStep \/ DriverStep \/ AgentStep
  PROVE  LocalTyped' /\ Ledger'
<1>1. CASE StartStep
  BY <1>1, HandshakeAnsweredQuiet, HandshakeFailsQuiet, StartExpiresQuiet, AnnounceQuiet, QuietKeepsLedger
     DEF StartStep
<1>2. CASE HostStep
  <2>1. ASSUME NEW t \in Calls, CallStep(t) PROVE LocalTyped' /\ Ledger'
    BY <2>1, PostCommandTyped, PostCommandKeepsLedger, GivesUpQuiet, ClearPromptStartingQuiet,
       QuietKeepsLedger
       DEF CallStep
  <2>2. ASSUME NEW t \in Answers, Answer(t) PROVE LocalTyped' /\ Ledger'
    BY <2>2, AnswerTyped, AnswerKeepsLedger
  <2>3. ASSUME NEW t \in Sends, Send(t) PROVE LocalTyped' /\ Ledger'
    BY <2>3, SendQuiet, QuietKeepsLedger
  <2>4. ASSUME NEW t \in Cancels, Cancel(t) PROVE LocalTyped' /\ Ledger'
    BY <2>4, CancelQuiet, QuietKeepsLedger
  <2>5. ASSUME NEW t \in Selects, Select(t) PROVE LocalTyped' /\ Ledger'
    BY <2>5, SelectQuiet, QuietKeepsLedger
  <2>6. CASE StopBegins
    BY <2>6, StopBeginsQuiet, QuietKeepsLedger
  <2> QED BY <1>2, <2>1, <2>2, <2>3, <2>4, <2>5, <2>6 DEF HostStep
<1>3. CASE StopStep
  BY <1>3, ReaderCancelledQuiet, StopKillsQuiet, StopFinishesQuiet, QuietKeepsLedger DEF StopStep
<1>4. CASE TeardownStep
  BY <1>4, OnShutdownQuiet, OnClosedQuiet, ReapsQuiet, InterruptsQuiet, DriverClosesQuiet,
     QuietKeepsLedger
     DEF TeardownStep
<1>5. CASE CodexStep
  <2>1. CASE CodexAnswer \/ CodexServerRequest
    BY <2>1, CodexAnswerTyped, CodexServerRequestTyped, AnswersKeepLedger, RequestsKeepLedger
  <2> QED BY <1>5, <2>1, CodexStartTurnQuiet, CodexTurnAcceptedQuiet, CodexTurnRefusedQuiet,
     CodexInterruptQuiet,
             CodexOrphanNotifiedQuiet, CodexNoiseQuiet, CodexDeltaQuiet, CodexTurnCompletedQuiet,
               QuietKeepsLedger
          DEF CodexStep
<1>6. CASE AcpStep
  <2>1. CASE AcpAnswer \/ AcpPermission
    BY <2>1, AcpAnswerTyped, AcpPermissionTyped, AnswersKeepLedger, RequestsKeepLedger
  <2>2. CASE AcpCancelTurn \/ AcpPromptDone
    BY <2>2, AcpCancelTurnTyped, AcpPromptDoneTyped, RetractionsKeepLedger
  <2> QED BY <1>6, <2>1, <2>2, AcpPromptQuiet, AcpSetModelQuiet, AcpConfigAnsweredQuiet, AcpUpdateQuiet,
             QuietKeepsLedger DEF AcpStep
<1>7. CASE OpenCodeStep
  <2>1. CASE OpenCodeAnswer \/ OpenCodePermission
    BY <2>1, OpenCodeAnswerTyped, OpenCodePermissionTyped, AnswersKeepLedger, RequestsKeepLedger
  <2>2. CASE OpenCodeReplied
    BY <2>2, OpenCodeRepliedTyped, OpenCodeRepliedKeepsLedger
  <2> QED BY <1>7, <2>1, <2>2, OpenCodeStartPromptQuiet, OpenCodeAbortQuiet, OpenCodePartQuiet,
             OpenCodeStatusQuiet, OpenCodePromptDoneQuiet, QuietKeepsLedger DEF OpenCodeStep
<1>8. CASE AgentStep
  <2>1. CASE AgentAsks
    BY <2>1, AgentAsksTyped, AgentAsksKeepsLedger
  <2>2. CASE EventArrives
    BY <2>2, EventArrivesTyped, EventArrivesKeepsLedger
  <2> QED BY <1>8, <2>1, <2>2, AgentTalksQuiet, AgentIsAnsweredQuiet, AgentStatesQuiet, AgentEndsQuiet,
             AgentAcceptsQuiet, AgentConfiguresQuiet, AgentLeavesQuiet, QuietKeepsLedger DEF AgentStep
<1> QED BY <1>1, <1>2, <1>3, <1>4, <1>5, <1>6, <1>7, <1>8 DEF DriverStep

(* A step of a Claude session.                                              *)
LEMMA ClaudeStepSound ==
  ASSUME ClaudeTyped, ClaudeLedger, Claude!Next, kind' = kind
  PROVE  ClaudeTyped' /\ ClaudeLedger'
<1>1. CASE Claude!StartStep
  BY <1>1, ClaudeHandshakeAnswered, ClaudeHandshakeFails, ClaudeAnnounce, ClaudeQuietKeeps
     DEF Claude!StartStep
<1>2. ASSUME NEW t \in Sends, Claude!Send(t) PROVE ClaudeTyped' /\ ClaudeLedger'
  BY <1>2, ClaudeSend, ClaudeQuietKeeps
<1>3. ASSUME NEW t \in Answers, Claude!Answer(t) PROVE ClaudeTyped' /\ ClaudeLedger'
  BY <1>3, ClaudeAnswerKeeps
<1>4. ASSUME NEW t \in Cancels, Claude!Cancel(t) PROVE ClaudeTyped' /\ ClaudeLedger'
  BY <1>4, ClaudeCancel, ClaudeQuietKeeps
<1>5. ASSUME NEW t \in Selects, Claude!Select(t) PROVE ClaudeTyped' /\ ClaudeLedger'
  BY <1>5, ClaudeSelect, ClaudeQuietKeeps
<1>6. ASSUME NEW t \in Calls, Claude!CallStep(t) PROVE ClaudeTyped' /\ ClaudeLedger'
  BY <1>6, ClaudePostCommandKeeps, ClaudeGivesUp, ClaudeClearReservation, ClaudeStoreSelection,
     ClaudeQuietKeeps
     DEF Claude!CallStep
<1>7. CASE Claude!StopBegins \/ Claude!StopStep
  BY <1>7, ClaudeStopBegins, ClaudeStopKills, ClaudeStopFinishes, ClaudeQuietKeeps DEF Claude!StopStep
<1>8. CASE Claude!DriverStep
  <2>1. CASE Claude!OnAnswer \/ Claude!OnControlRequest
    BY <2>1, ClaudeOnAnswerKeeps, ClaudeOnControlRequestKeeps
  <2> QED BY <1>8, <2>1, ClaudeOnUserMessage, ClaudeOnInterrupt, ClaudeOnSetModel, ClaudeOnMessage,
             ClaudeOnControlCancel, ClaudeFinishRun, ClaudeEofTeardown, ClaudeDriverCloses,
               ClaudeOnShutdown,
             ClaudeQuietKeeps DEF Claude!DriverStep
<1>9. CASE Claude!ProviderStep
  BY <1>9, ClaudeTalks, ClaudeAsksKeeps, ClaudeWithdraws, ClaudeEndsTurn, ClaudeDies, ClaudeQuietKeeps
     DEF Claude!ProviderStep
<1>10. Claude!Calls = Calls
  BY DEF Claude!Calls, Calls
<1> QED BY <1>1, <1>2, <1>3, <1>4, <1>5, <1>6, <1>7, <1>8, <1>9, <1>10 DEF Claude!Next

(* What the ledgers say of resolved requests is that the first answer won.  *)
LEMMA ResolvedAnswers ==
  ASSUME out \in Seq(EventSet), ResolvedOnce
  PROVE  FirstAnswerWins
<1>1. \A i \in DOMAIN out : out[i] \in EventSet
  BY SeqsTyped
<1>2. \A i \in At({"resolved"}) : i \in DOMAIN out /\ ResolvedOf[out[i]] = out[i].of /\ out[i].of # None
  <2>1. \A e \in EventSet : e.what = "resolved" => e.of # None
    BY NoneAssumption DEF EventSet
  <2> QED BY <1>1, <2>1 DEF At, ResolvedOf
<1>3. ASSUME NEW i \in At({"resolved"}), NEW j \in At({"resolved"}), out[i].of = out[j].of
      PROVE  i = j
  BY <1>2, <1>3 DEF ResolvedOnce, Distinct
<1>4. ASSUME NEW q \in Resolved PROVE \E i \in At({"resolved"}) : out[i].of = q
  <2>1. PICK i \in DOMAIN out : q = ResolvedOf[out[i]] /\ q # None
    BY <1>4 DEF Resolved, Keys
  <2>2. out[i].what = "resolved" /\ out[i].of = q
    BY <1>1, <2>1 DEF ResolvedOf
  <2> QED BY <2>2 DEF At
<1> QED BY <1>3, <1>4 DEF ResolvedOnce, FirstAnswerWins

(* In every session, of whatever adapter, every request is in one place.    *)
RequestsInOnePlace ==
    \/ LocalTyped /\ Ledger
    \/ ClaudeTyped /\ ClaudeLedger

(* The first answer wins, in a session of any adapter, however many hosts   *)
(* answer and however their answers, the agent's other clients, the end of  *)
(* the run, a stop or the agent's death interleave: a request is resolved   *)
(* once, and the one host told that its answer counted is the one whose     *)
(* answer resolved it.                                                      *)
THEOREM FirstAnswerAlwaysWins == Spec => []FirstAnswerWins
<1>1. Init => RequestsInOnePlace
  BY LocalInitSound, ClaudeInitSound DEF Init, RequestsInOnePlace
<1>2. RequestsInOnePlace /\ [Next]_vars => RequestsInOnePlace'
  <2> SUFFICES ASSUME RequestsInOnePlace, [Next]_vars PROVE RequestsInOnePlace'
    OBVIOUS
  <2>1. LocalTyped => kind # "claude"
    BY DEF LocalTyped
  <2>2. ClaudeTyped => kind = "claude"
    BY DEF ClaudeTyped, ClaudeRest
  <2>3. CASE Next /\ kind # "claude"
    BY <2>2, <2>3, LocalStepSound DEF Next, RequestsInOnePlace
  <2>4. CASE Next /\ kind = "claude"
    BY <2>1, <2>4, ClaudeStepSound DEF Next, RequestsInOnePlace
  <2>5. CASE UNCHANGED vars
    <3>1. /\ kind' = kind /\ start' = start /\ state' = state /\ commands' = commands /\ mail' = mail
          /\ driver' = driver /\ flow' = flow /\ call' = call /\ stopper' = stopper /\ agent' = agent
          /\ out' = out
      BY <2>5 DEF vars
    <3>2. LocalTyped' = LocalTyped /\ ClaudeTyped' = ClaudeTyped
      BY <3>1 DEF LocalTyped, ClaudeTyped, ClaudeRest
    <3>3. Asking' = Asking /\ Holders' = Holders /\ Held' = Held /\ Resolved' = Resolved
      BY <3>1 DEF Asking, Holders, Held, Resolved
    <3>4. ClaudeAsking' = ClaudeAsking /\ ClaudeHolders' = ClaudeHolders /\ ClaudeHeld' = ClaudeHeld
      BY <3>1 DEF ClaudeAsking, ClaudeHolders, ClaudeHeld
    <3>5. Ledger' = Ledger
      BY <3>1, <3>3 DEF Ledger, AskedOnce, QueuedOnce, OnePlace, ResolvedOnce
    <3>6. ClaudeLedger' = ClaudeLedger
      BY <3>1, <3>3, <3>4 DEF ClaudeLedger, ClaudeQueuedOnce, ClaudeOnePlace, ResolvedOnce
    <3> QED BY <3>2, <3>5, <3>6 DEF RequestsInOnePlace
  <2> QED BY <2>3, <2>4, <2>5
<1>3. RequestsInOnePlace => FirstAnswerWins
  <2>1. ASSUME LocalTyped, Ledger PROVE FirstAnswerWins
    BY <2>1, ResolvedAnswers, FieldsTyped DEF Ledger
  <2>2. ASSUME ClaudeTyped, ClaudeLedger PROVE FirstAnswerWins
    BY <2>2, ResolvedAnswers, ClaudeFields DEF ClaudeLedger
  <2> QED BY <2>1, <2>2 DEF RequestsInOnePlace
<1> QED BY <1>1, <1>2, <1>3, PTL DEF Spec

====
