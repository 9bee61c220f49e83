----------------------- MODULE RuntimeLifecycleProofs -----------------------
(***************************************************************************)
(* Proofs for every number of runtimes, processes and sessions: types, no  *)
(* double attach, the projection follows the log, the sweep settles.       *)
(***************************************************************************)
EXTENDS RuntimeLifecycle, TLAPS

-----------------------------------------------------------------------------
(* What a log tells after one more fact: that fact if it is a status, and   *)
(* what it told before if it is not (project_session_event).                *)
LEMMA TellsAppend ==
    ASSUME NEW l \in Seq(Facts), NEW f \in Facts, NEW st \in Statuses, Tells(l, st)
    PROVE  Tells(Append(l, f), IF f \in Statuses THEN f ELSE st)
<1> DEFINE m == Append(l, f)
           n == Len(l)
<1>1. /\ n \in Nat /\ DOMAIN l = 1 .. n /\ DOMAIN m = 1 .. (n + 1)
      /\ m[n + 1] = f /\ \A i \in 1 .. n : m[i] = l[i]
  OBVIOUS
<1>2. CASE f \in Statuses
  <2>1. n + 1 \in DOMAIN m /\ m[n + 1] = f /\ \A j \in DOMAIN m : ~(j > n + 1)
    BY <1>1
  <2> QED BY <2>1, <1>2 DEF Tells
<1>3. CASE f \notin Statuses
  <2>1. CASE st = "idle" /\ \A i \in DOMAIN l : l[i] \notin Statuses
    <3>1. \A i \in DOMAIN m : m[i] \notin Statuses
      BY <1>1, <1>3, <2>1
    <3> QED BY <3>1, <2>1, <1>3 DEF Tells
  <2>2. CASE \E i \in DOMAIN l : l[i] = st /\ \A j \in DOMAIN l : j > i => l[j] \notin Statuses
    <3>1. PICK i \in DOMAIN l : l[i] = st /\ \A j \in DOMAIN l : j > i => l[j] \notin Statuses
      BY <2>2
    <3>2. i \in DOMAIN m /\ m[i] = st /\ \A j \in DOMAIN m : j > i => m[j] \notin Statuses
      BY <3>1, <1>1, <1>3
    <3> QED BY <3>2, <1>3 DEF Tells
  <2> QED BY <2>1, <2>2 DEF Tells
<1> QED BY <1>2, <1>3

-----------------------------------------------------------------------------
(* The parts of the inductive invariant. *)

(* A runtime that works on sessions is past its sweep, and its process runs.*)
Active(r) == phase[r] \in {"resuming", "serving", "cursors", "marked"}
BusyIsActive ==
    \A r \in Runtimes :
        /\ job[r] # NoJob \/ live[r] # {} => Active(r)
        /\ Active(r) => ProcOf[r] \in up
        /\ phase[r] \in {"registered", "marking", "enumerating"} => ProcOf[r] \in up

(* What ended stays ended. *)
Finished(o) == o = NoOwner \/ phase[o] = "gone" \/ ProcOf[o] \notin up
SeenAreFinished ==
    \A r \in Runtimes :
        /\ \A o \in swept[r] : Finished(o)
        /\ \A c \in todo[r] : Finished(c.owner)

(* The session a job is on is owned like one that is attached. *)
JobOwnsRow ==
    \A r \in Runtimes :
        job[r] # NoJob => row[job[r].session].known /\ row[job[r].session].owner = r

(* Sessions the code writes to without looking at their row have one. *)
WrittenAreKnown ==
    /\ \A r \in Runtimes : \A s \in found[r] \cup live[r] : row[s].known
    /\ \A t \in tail : row[t[2]].known
    /\ \A s \in Sessions : ~row[s].known => row[s] = NoRow

(* Between the sweep's selection and its transaction, what it must mark is  *)
(* what it selected. *)
SweepSelected ==
    \A r \in Runtimes, s \in Sessions :
        phase[r] = "marking" /\ s \notin late /\ row[s].known
        /\ row[s].status \in InFlight /\ row[s].owner \in swept[r] => s \in found[r]

(* A live entry belongs to the owner of its row. *)
LiveOwnsRow == \A r \in Runtimes : \A s \in live[r] : row[s].known /\ row[s].owner = r

-----------------------------------------------------------------------------
(* What the store operators do to a row and a log. *)

LEMMA StatusesAreFacts == Statuses \subseteq Facts /\ InFlight \subseteq Statuses
BY DEF Statuses, Facts

LEMMA AppendEffect ==
    ASSUME log \in [Sessions -> Seq(Facts)], row \in [Sessions -> Row],
           NEW s \in Sessions, NEW f \in Facts, NEW o \in Runtimes, AppendFact(s, f, o)
    PROVE  /\ log' \in [Sessions -> Seq(Facts)] /\ row' \in [Sessions -> Row]
           /\ \A t \in Sessions \ {s} : row'[t] = row[t] /\ log'[t] = log[t]
           /\ log'[s] = Append(log[s], f)
           /\ row[s].known => /\ row'[s].known
                              /\ row'[s].status = IF f \in Statuses THEN f ELSE row[s].status
           /\ f # "created" => /\ row'[s].known = row[s].known
                               /\ row'[s].owner = row[s].owner
                               /\ ~row[s].known => row'[s] = row[s]
           /\ f = "created" => row'[s].known /\ row'[s].owner = o
<1>1. row[s] \in Row /\ Projected(row[s], f, o) \in Row
  BY DEF Projected, Upserted, Row, Owners
<1>2. row' = [row EXCEPT ![s] = Projected(row[s], f, o)] /\ log' = [log EXCEPT ![s] = Append(log[s], f)]
  BY DEF AppendFact
<1>3. row' \in [Sessions -> Row] /\ log' \in [Sessions -> Seq(Facts)]
  BY <1>1, <1>2
<1>4. row'[s] = Projected(row[s], f, o) /\ log'[s] = Append(log[s], f)
  BY <1>2
<1>5. "created" \notin Statuses
  BY DEF Statuses, InFlight
<1>6. \A t \in Sessions \ {s} : row'[t] = row[t] /\ log'[t] = log[t]
  BY <1>2
<1>7. row[s].known => row'[s].known /\ row'[s].status = IF f \in Statuses THEN f ELSE row[s].status
  BY <1>1, <1>4, <1>5 DEF Projected, Upserted, Row
<1>8. f # "created" => /\ row'[s].known = row[s].known
                       /\ row'[s].owner = row[s].owner
                       /\ ~row[s].known => row'[s] = row[s]
  BY <1>1, <1>4 DEF Projected, Row
<1>9. f = "created" => row'[s].known /\ row'[s].owner = o
  BY <1>1, <1>4 DEF Projected, Upserted, Row
<1> QED BY <1>3, <1>4, <1>6, <1>7, <1>8, <1>9

LEMMA InterruptEffect ==
    ASSUME log \in [Sessions -> Seq(Facts)], row \in [Sessions -> Row],
           NEW S \in SUBSET Sessions, NEW o \in Runtimes, AppendInterrupted(S, o)
    PROVE  /\ log' \in [Sessions -> Seq(Facts)] /\ row' \in [Sessions -> Row]
           /\ \A t \in Sessions \ S : row'[t] = row[t] /\ log'[t] = log[t]
           /\ \A t \in S : /\ log'[t] = Append(log[t], "interrupted")
                           /\ row'[t].known = row[t].known
                           /\ row'[t].owner = row[t].owner
                           /\ row[t].known => row'[t].status = "interrupted"
                           /\ ~row[t].known => row'[t] = row[t]
<1>1. "interrupted" \in Statuses /\ "interrupted" \in Facts
  BY DEF Statuses, Facts
<1>2. \A t \in Sessions : row[t] \in Row /\ Projected(row[t], "interrupted", o) \in Row
  BY <1>1 DEF Projected, Row
<1>3. \A t \in S : /\ row'[t] = Projected(row[t], "interrupted", o)
                  /\ log'[t] = Append(log[t], "interrupted")
  BY DEF AppendInterrupted
<1>4. row' \in [Sessions -> Row] /\ log' \in [Sessions -> Seq(Facts)]
  BY <1>1, <1>2 DEF AppendInterrupted
<1>5. \A t \in Sessions \ S : row'[t] = row[t] /\ log'[t] = log[t]
  BY DEF AppendInterrupted
<1>6. ASSUME NEW t \in S
      PROVE  /\ row'[t].known = row[t].known
             /\ row'[t].owner = row[t].owner
             /\ row[t].known => row'[t].status = "interrupted"
             /\ ~row[t].known => row'[t] = row[t]
  BY <1>1, <1>2, <1>3 DEF Projected, Row
<1> QED BY <1>3, <1>4, <1>5, <1>6

-----------------------------------------------------------------------------
(* Types. *)

LEMMA PumpFactsAreFacts == PumpFacts \subseteq Facts /\ "created" \notin PumpFacts
BY PumpAssumption

LEMMA OwnersTyped == \A r \in Runtimes : r \in Owners /\ NoOwner \in Owners /\ Dead(r) \subseteq Owners
BY DEF Owners, Dead

LEMMA InitTypeOK == Init => TypeOK
<1> SUFFICES ASSUME Init PROVE TypeOK
  OBVIOUS
<1>1. PICK old \in SUBSET Sessions :
        /\ row = [s \in Sessions |-> IF s \in old THEN LegacyRow ELSE NoRow]
        /\ log = [s \in Sessions |-> IF s \in old THEN <<"created", "working">> ELSE <<>>]
  BY DEF Init
<1>2. LegacyRow \in Row /\ NoRow \in Row
  BY DEF LegacyRow, NoRow, Row, Statuses, InFlight, Owners
<1>3. <<"created", "working">> \in Seq(Facts) /\ <<>> \in Seq(Facts)
  BY DEF Facts, Statuses, InFlight
<1>4. row \in [Sessions -> Row] /\ log \in [Sessions -> Seq(Facts)]
  BY <1>1, <1>2, <1>3
<1> QED BY <1>4 DEF Init, TypeOK, Jobs

(* Every step keeps the types. *)
LEMMA NextTypeOK == TypeOK /\ [Next]_vars => TypeOK'
<1> SUFFICES ASSUME TypeOK, [Next]_vars PROVE TypeOK'
  OBVIOUS
<1> USE DEF TypeOK
<1>j. NoJob \in Jobs /\ \A st \in JobSteps, s \in Sessions : Job(st, s) \in Jobs
  BY DEF Job, Jobs
<1>s. \A r \in Runtimes : job[r].step \in JobSteps => job[r].session \in Sessions
  BY DEF NoJob, JobSteps, Jobs
<1>c. {"claimed", "started", "working", "recorded"} = JobSteps /\ "created" \in Facts
      /\ "working" \in Facts /\ "interrupted" \in Facts /\ "closed" \in Facts
  BY DEF JobSteps, Facts, Statuses, InFlight
<1>1. ASSUME NEW r \in Runtimes, Open(r) PROVE TypeOK'
  BY <1>1 DEF Open
<1>2. ASSUME NEW r \in Runtimes, ReadOrphans(r) PROVE TypeOK'
  <2>1. InFlightOrphans(Dead(r)) \subseteq Sessions
    BY DEF InFlightOrphans
  <2> QED BY <1>2, <2>1, OwnersTyped DEF ReadOrphans
<1>3. ASSUME NEW r \in Runtimes, MarkOrphans(r) PROVE TypeOK'
  <2>1. row' \in [Sessions -> Row] /\ log' \in [Sessions -> Seq(Facts)]
    BY <1>3, InterruptEffect DEF MarkOrphans
  <2> QED BY <1>3, <2>1 DEF MarkOrphans
<1>4. ASSUME NEW r \in Runtimes, OpenFails(r) PROVE TypeOK'
  BY <1>4 DEF OpenFails, Forget
<1>5. ASSUME NEW r \in Runtimes, Enumerate(r) PROVE TypeOK'
  <2> DEFINE T == {t \in Orphans(Dead(r)) \cap Resumable : row[t].status = "interrupted" /\ row[t].cursor}
             C == {[session |-> s, owner |-> row[s].owner] : s \in T}
  <2>1. C \subseteq Candidate
    BY DEF Orphans, Candidate, Row
  <2>2. todo' = [todo EXCEPT ![r] = C] \/ todo' = todo
    BY <1>5 DEF Enumerate
  <2>3. todo' \in [Runtimes -> SUBSET Candidate]
    BY <2>1, <2>2
  <2> QED BY <1>5, <2>3 DEF Enumerate
<1>6. ASSUME NEW r \in Runtimes, NEW c \in todo[r], SkipCandidate(r, c) PROVE TypeOK'
  BY <1>6 DEF SkipCandidate
<1>7. ASSUME NEW r \in Runtimes, NEW c \in todo[r], Claim(r, c) PROVE TypeOK'
  <2>1. c.session \in Sessions
    BY DEF Candidate
  <2>2. todo' \in [Runtimes -> SUBSET Candidate]
    BY <1>7 DEF Claim
  <2>3. CASE ClaimSession(c.session, r) /\ job' = [job EXCEPT ![r] = Job("claimed", c.session)]
    <3>1. row' \in [Sessions -> Row] /\ log' = log
      BY <2>1, <2>3 DEF ClaimSession, Row, Owners
    <3>2. job' \in [Runtimes -> Jobs]
      BY <2>1, <2>3, <1>j, <1>c
    <3> QED BY <1>7, <2>2, <3>1, <3>2 DEF Claim
  <2>4. CASE UNCHANGED <<log, row, job>>
    BY <1>7, <2>2, <2>4 DEF Claim
  <2> QED BY <1>7, <2>3, <2>4 DEF Claim
<1>8. ASSUME NEW r \in Runtimes, StartAdapter(r) PROVE TypeOK'
  <2>1. job' \in [Runtimes -> Jobs]
    <3>1. job[r].session \in Sessions
      BY <1>8, <1>s, <1>c DEF StartAdapter
    <3> QED BY <1>8, <1>j, <1>c, <3>1 DEF StartAdapter
  <2> QED BY <1>8, <2>1 DEF StartAdapter
<1>9. ASSUME NEW r \in Runtimes, RecordWorking(r) PROVE TypeOK'
  <2>1. job[r].session \in Sessions
    BY <1>9, <1>s, <1>c DEF RecordWorking
  <2>2. job' \in [Runtimes -> Jobs]
    BY <1>9, <2>1, <1>j, <1>c DEF RecordWorking
  <2>3. row' \in [Sessions -> Row] /\ log' \in [Sessions -> Seq(Facts)]
    BY <1>9, <2>1, <1>c, AppendEffect DEF RecordWorking, storeVars
  <2> QED BY <1>9, <2>2, <2>3 DEF RecordWorking
<1>10. ASSUME NEW r \in Runtimes, Attach(r) PROVE TypeOK'
  <2>1. job[r].session \in Sessions
    BY <1>10, <1>s, <1>c DEF Attach
  <2>3. row' \in [Sessions -> Row] /\ log' \in [Sessions -> Seq(Facts)]
    BY <1>10, <2>1, <1>c, AppendEffect DEF Attach, storeVars
  <2>4. job' \in [Runtimes -> Jobs]
    BY <1>10, <1>j DEF Attach
  <2>5. live' = [live EXCEPT ![r] = live[r] \cup {job[r].session}] \/ live' = live
    BY <1>10 DEF Attach
  <2>6. live' \in [Runtimes -> SUBSET Sessions]
    BY <2>1, <2>5
  <2> QED BY <1>10, <2>3, <2>4, <2>6 DEF Attach
<1>11. ASSUME NEW r \in Runtimes, FinishOpen(r) PROVE TypeOK'
  BY <1>11 DEF FinishOpen
<1>12. ASSUME NEW r \in Runtimes, NEW s \in Sessions, CreateRow(r, s) PROVE TypeOK'
  <2>1. row' \in [Sessions -> Row] /\ log' = log
    BY <1>12 DEF CreateRow, RecordSession, Upserted, Row, Owners
  <2>2. job' \in [Runtimes -> Jobs]
    BY <1>12, <1>j, <1>c DEF CreateRow
  <2> QED BY <1>12, <2>1, <2>2 DEF CreateRow
<1>13. ASSUME NEW r \in Runtimes, CreateLive(r) PROVE TypeOK'
  <2>1. job[r].session \in Sessions
    BY <1>13, <1>s, <1>c DEF CreateLive
  <2>2. row' \in [Sessions -> Row] /\ log' \in [Sessions -> Seq(Facts)]
    BY <1>13, <2>1, <1>c, AppendEffect DEF CreateLive
  <2>3. live' \in [Runtimes -> SUBSET Sessions]
    BY <1>13, <2>1 DEF CreateLive
  <2>4. job' \in [Runtimes -> Jobs]
    BY <1>13, <1>j DEF CreateLive
  <2> QED BY <1>13, <2>2, <2>3, <2>4 DEF CreateLive
<1>14. ASSUME NEW r \in Runtimes, NEW s \in Sessions, NEW f \in PumpFacts, PumpFact(r, s, f) PROVE TypeOK'
  <2>1. row' \in [Sessions -> Row] /\ log' \in [Sessions -> Seq(Facts)]
    BY <1>14, PumpFactsAreFacts, AppendEffect DEF PumpFact
  <2> QED BY <1>14, <2>1 DEF PumpFact
<1>15. ASSUME NEW r \in Runtimes, NEW s \in Sessions, CloseLive(r, s) PROVE TypeOK'
  <2>1. row' \in [Sessions -> Row] /\ log' \in [Sessions -> Seq(Facts)]
    BY <1>15, <1>c, AppendEffect DEF CloseLive, storeVars
  <2> QED BY <1>15, <2>1 DEF CloseLive
<1>16. ASSUME NEW r \in Runtimes, NEW s \in Sessions, CloseKnown(r, s) PROVE TypeOK'
  <2>1. row' \in [Sessions -> Row] /\ log' \in [Sessions -> Seq(Facts)]
    BY <1>16, <1>c, AppendEffect DEF CloseKnown
  <2> QED BY <1>16, <2>1 DEF CloseKnown
<1>17. ASSUME NEW r \in Runtimes, ShutdownCursors(r) PROVE TypeOK'
  <2>1. row' \in [Sessions -> Row] /\ log' = log
    <3>1. PICK R \in SUBSET (live[r] \cap Resumable) : RecordCursors(R)
      BY <1>17 DEF ShutdownCursors
    <3>2. \A s \in Sessions : row[s] \in Row /\ [row[s] EXCEPT !.cursor = TRUE] \in Row
      BY DEF Row
    <3> QED BY <3>1, <3>2 DEF RecordCursors
  <2> QED BY <1>17, <2>1 DEF ShutdownCursors
<1>18. ASSUME NEW r \in Runtimes, ShutdownMark(r) PROVE TypeOK'
  <2>1. row' \in [Sessions -> Row] /\ log' \in [Sessions -> Seq(Facts)]
    <3>1. OwnInFlight(r) \subseteq Sessions
      BY DEF OwnInFlight
    <3>2. CASE MarkInterruptedOnShutdown(r) BY <3>1, <3>2, InterruptEffect DEF MarkInterruptedOnShutdown
    <3>3. CASE UNCHANGED storeVars BY <3>3 DEF storeVars
    <3> QED BY <1>18, <3>2, <3>3 DEF ShutdownMark
  <2> QED BY <1>18, <2>1 DEF ShutdownMark
<1>19. ASSUME NEW r \in Runtimes, Drop(r) PROVE TypeOK'
  <2>1. PICK busy \in SUBSET live[r] : tail' = tail \cup ({r} \X busy)
    BY <1>19 DEF Drop
  <2>2. tail' \subseteq (Runtimes \X Sessions)
    BY <2>1
  <2> QED BY <1>19, <2>2 DEF Drop, Forget
<1>20. ASSUME NEW r \in Runtimes, NEW s \in Sessions, NEW f \in PumpFacts, TailFact(r, s, f) PROVE TypeOK'
  <2>1. row' \in [Sessions -> Row] /\ log' \in [Sessions -> Seq(Facts)]
    BY <1>20, PumpFactsAreFacts, AppendEffect DEF TailFact
  <2> QED BY <1>20, <2>1 DEF TailFact
<1>21. ASSUME NEW p \in Processes, Crash(p) PROVE TypeOK'
  <2> DEFINE lost == {r \in Runtimes : ProcOf[r] = p}
  <2>1. job' = [r \in Runtimes |-> IF r \in lost THEN NoJob ELSE job[r]]
    BY <1>21 DEF Crash
  <2>2. job' \in [Runtimes -> Jobs]
    BY <2>1, <1>j
  <2>3. phase' \in [Runtimes -> {"unopened", "registered", "marking", "enumerating", "resuming",
                               "serving", "cursors", "marked", "gone"}]
    BY <1>21 DEF Crash
  <2>4. /\ live' \in [Runtimes -> SUBSET Sessions] /\ todo' \in [Runtimes -> SUBSET Candidate]
        /\ swept' \in [Runtimes -> SUBSET Owners] /\ found' \in [Runtimes -> SUBSET Sessions]
    BY <1>21 DEF Crash, Forget
  <2> QED BY <1>21, <2>2, <2>3, <2>4 DEF Crash
<1>22. CASE UNCHANGED vars
  BY <1>22 DEF vars
<1> QED
  BY <1>1, <1>2, <1>3, <1>4, <1>5, <1>6, <1>7, <1>8, <1>9, <1>10, <1>11, <1>12, <1>13, <1>14,
     <1>15, <1>16, <1>17, <1>18, <1>19, <1>20, <1>21, <1>22 DEF Next, OpenStep

(* Every variable keeps its type in every behaviour of the specification.   *)
THEOREM TypeInvariant == Spec => []TypeOK
BY InitTypeOK, NextTypeOK, PTL DEF Spec

-----------------------------------------------------------------------------
(* Who works is alive, and what a sweep saw dead stays dead.                *)

LEMMA InitPhases == Init => BusyIsActive /\ SeenAreFinished
BY DEF Init, BusyIsActive, SeenAreFinished, Active

LEMMA BusyStep == TypeOK /\ BusyIsActive /\ [Next]_vars => BusyIsActive'
<1> SUFFICES ASSUME TypeOK, BusyIsActive, [Next]_vars PROVE BusyIsActive'
  OBVIOUS
<1> USE DEF BusyIsActive, Active, TypeOK
<1>j. \A r \in Runtimes : job[r].step \in {"claimed", "started", "working", "recorded"} => job[r] # NoJob
  BY DEF NoJob
<1>1. ASSUME NEW r \in Runtimes, Open(r) PROVE BusyIsActive'
  BY <1>1 DEF Open
<1>2. ASSUME NEW r \in Runtimes, ReadOrphans(r) \/ MarkOrphans(r) PROVE BusyIsActive'
  BY <1>2 DEF ReadOrphans, MarkOrphans
<1>3. ASSUME NEW r \in Runtimes, OpenFails(r) PROVE BusyIsActive'
  BY <1>3 DEF OpenFails
<1>4. ASSUME NEW r \in Runtimes, Enumerate(r) PROVE BusyIsActive'
  BY <1>4 DEF Enumerate
<1>5. ASSUME NEW r \in Runtimes, NEW c \in todo[r], SkipCandidate(r, c) PROVE BusyIsActive'
  BY <1>5 DEF SkipCandidate
<1>6. ASSUME NEW r \in Runtimes, NEW c \in todo[r], Claim(r, c) PROVE BusyIsActive'
  BY <1>6 DEF Claim
<1>7. ASSUME NEW r \in Runtimes, StartAdapter(r) PROVE BusyIsActive'
  BY <1>7, <1>j DEF StartAdapter
<1>8. ASSUME NEW r \in Runtimes, RecordWorking(r) PROVE BusyIsActive'
  BY <1>8, <1>j DEF RecordWorking
<1>9. ASSUME NEW r \in Runtimes, Attach(r) PROVE BusyIsActive'
  BY <1>9, <1>j DEF Attach
<1>10. ASSUME NEW r \in Runtimes, FinishOpen(r) PROVE BusyIsActive'
  BY <1>10 DEF FinishOpen
<1>11. ASSUME NEW r \in Runtimes, NEW s \in Sessions, CreateRow(r, s) PROVE BusyIsActive'
  BY <1>11 DEF CreateRow, Serving
<1>12. ASSUME NEW r \in Runtimes, CreateLive(r) PROVE BusyIsActive'
  BY <1>12, <1>j DEF CreateLive
<1>13. ASSUME NEW r \in Runtimes, NEW s \in Sessions, NEW f \in PumpFacts, PumpFact(r, s, f) PROVE BusyIsActive'
  BY <1>13 DEF PumpFact
<1>14. ASSUME NEW r \in Runtimes, NEW s \in Sessions, CloseLive(r, s) \/ CloseKnown(r, s) PROVE BusyIsActive'
  BY <1>14 DEF CloseLive, CloseKnown
<1>15. ASSUME NEW r \in Runtimes, ShutdownCursors(r) \/ ShutdownMark(r) PROVE BusyIsActive'
  BY <1>15 DEF ShutdownCursors, ShutdownMark
<1>16. ASSUME NEW r \in Runtimes, Drop(r) PROVE BusyIsActive'
  BY <1>16 DEF Drop
<1>17. ASSUME NEW r \in Runtimes, NEW s \in Sessions, NEW f \in PumpFacts, TailFact(r, s, f) PROVE BusyIsActive'
  BY <1>17 DEF TailFact
<1>18. ASSUME NEW p \in Processes, Crash(p) PROVE BusyIsActive'
  <2>1. ASSUME NEW r \in Runtimes, ProcOf[r] = p
        PROVE  /\ job'[r] = NoJob /\ live'[r] = {}
               /\ phase'[r] \in {"unopened", "gone"}
    BY <1>18, <2>1 DEF Crash, Registered
  <2>2. ASSUME NEW r \in Runtimes, ProcOf[r] # p
        PROVE  /\ job'[r] = job[r] /\ live'[r] = live[r] /\ phase'[r] = phase[r]
               /\ ProcOf[r] \in up => ProcOf[r] \in up'
    BY <1>18, <2>2 DEF Crash, Registered
  <2> QED BY <2>1, <2>2
<1>19. CASE UNCHANGED vars
  BY <1>19 DEF vars
<1> QED
  BY <1>1, <1>2, <1>3, <1>4, <1>5, <1>6, <1>7, <1>8, <1>9, <1>10, <1>11, <1>12, <1>13, <1>14,
     <1>15, <1>16, <1>17, <1>18, <1>19 DEF Next, OpenStep

(* How a step may move what the sweeps remember: processes do not come      *)
(* back, no phase leaves "gone", and only the owners a runtime reads as     *)
(* dead enter its lists.                                                    *)
Settling ==
    /\ up' \subseteq up
    /\ \A q \in Runtimes :
         /\ phase[q] = "gone" => phase'[q] = "gone"
         /\ swept'[q] \subseteq swept[q] \cup Dead(q)
         /\ \A c \in todo'[q] : c \in todo[q] \/ c.owner \in Dead(q)

LEMMA StepSettling == TypeOK /\ [Next]_vars => Settling
<1> SUFFICES ASSUME TypeOK, [Next]_vars PROVE Settling
  OBVIOUS
<1> USE DEF TypeOK, Settling
<1>1. ASSUME NEW r \in Runtimes, Open(r) PROVE Settling
  BY <1>1 DEF Open
<1>2. ASSUME NEW r \in Runtimes, OpenFails(r) PROVE Settling
  BY <1>2 DEF OpenFails, Forget
<1>3. ASSUME NEW r \in Runtimes, ReadOrphans(r) PROVE Settling
  BY <1>3 DEF ReadOrphans
<1>4. ASSUME NEW r \in Runtimes, MarkOrphans(r) PROVE Settling
  BY <1>4 DEF MarkOrphans
<1>5. ASSUME NEW r \in Runtimes, Enumerate(r) PROVE Settling
  <2>1. \A c \in todo'[r] : c \in todo[r] \/ c.owner \in Dead(r)
    BY <1>5 DEF Enumerate, Orphans
  <2>2. \A q \in Runtimes \ {r} : todo'[q] = todo[q]
    BY <1>5 DEF Enumerate
  <2> QED BY <1>5, <2>1, <2>2 DEF Enumerate
<1>6. ASSUME NEW r \in Runtimes, NEW c \in todo[r], SkipCandidate(r, c) PROVE Settling
  BY <1>6 DEF SkipCandidate
<1>7. ASSUME NEW r \in Runtimes, NEW c \in todo[r], Claim(r, c) PROVE Settling
  BY <1>7 DEF Claim
<1>8. ASSUME NEW r \in Runtimes, StartAdapter(r) PROVE Settling
  BY <1>8 DEF StartAdapter
<1>9. ASSUME NEW r \in Runtimes, RecordWorking(r) PROVE Settling
  BY <1>9 DEF RecordWorking
<1>10. ASSUME NEW r \in Runtimes, Attach(r) PROVE Settling
  BY <1>10 DEF Attach
<1>11. ASSUME NEW r \in Runtimes, FinishOpen(r) PROVE Settling
  BY <1>11 DEF FinishOpen
<1>12. ASSUME NEW r \in Runtimes, NEW s \in Sessions, CreateRow(r, s) PROVE Settling
  BY <1>12 DEF CreateRow
<1>13. ASSUME NEW r \in Runtimes, CreateLive(r) PROVE Settling
  BY <1>13 DEF CreateLive
<1>14. ASSUME NEW r \in Runtimes, NEW s \in Sessions, NEW f \in PumpFacts, PumpFact(r, s, f) PROVE Settling
  BY <1>14 DEF PumpFact
<1>15. ASSUME NEW r \in Runtimes, NEW s \in Sessions, CloseLive(r, s) PROVE Settling
  BY <1>15 DEF CloseLive
<1>16. ASSUME NEW r \in Runtimes, NEW s \in Sessions, CloseKnown(r, s) PROVE Settling
  BY <1>16 DEF CloseKnown
<1>17. ASSUME NEW r \in Runtimes, ShutdownCursors(r) PROVE Settling
  BY <1>17 DEF ShutdownCursors
<1>18. ASSUME NEW r \in Runtimes, ShutdownMark(r) PROVE Settling
  BY <1>18 DEF ShutdownMark
<1>19. ASSUME NEW r \in Runtimes, Drop(r) PROVE Settling
  BY <1>19 DEF Drop, Forget
<1>20. ASSUME NEW r \in Runtimes, NEW s \in Sessions, NEW f \in PumpFacts, TailFact(r, s, f) PROVE Settling
  BY <1>20 DEF TailFact
<1>21. ASSUME NEW p \in Processes, Crash(p) PROVE Settling
  BY <1>21 DEF Crash, Forget, Registered
<1>22. CASE UNCHANGED vars
  BY <1>22 DEF vars
<1> QED
  BY <1>1, <1>2, <1>3, <1>4, <1>5, <1>6, <1>7, <1>8, <1>9, <1>10, <1>11, <1>12, <1>13, <1>14,
     <1>15, <1>16, <1>17, <1>18, <1>19, <1>20, <1>21, <1>22 DEF Next, OpenStep

(* What is finished stays finished. *)
LEMMA FinishedStays ==
    ASSUME Settling, NEW o \in Owners, Finished(o)
    PROVE  Finished(o)'
BY DEF Settling, Finished, Owners

LEMMA SeenStep == TypeOK /\ SeenAreFinished /\ [Next]_vars => SeenAreFinished'
<1> SUFFICES ASSUME TypeOK, SeenAreFinished, [Next]_vars, NEW r \in Runtimes
             PROVE  /\ \A o \in swept'[r] : Finished(o)'
                    /\ \A c \in todo'[r] : Finished(c.owner)'
  BY DEF SeenAreFinished
<1>0. Settling
  BY StepSettling
<1>1. \A o \in swept[r] : Finished(o)'
  BY <1>0, FinishedStays DEF TypeOK, SeenAreFinished
<1>2. \A c \in todo[r] : Finished(c.owner)'
  BY <1>0, FinishedStays DEF TypeOK, SeenAreFinished, Candidate
<1>3. \A o \in Dead(r) : Finished(o)'
  <2>1. ASSUME NEW o \in Dead(r) PROVE o \in Owners /\ Finished(o)
    BY DEF Dead, Finished, Owners
  <2> QED BY <1>0, <2>1, FinishedStays
<1> QED BY <1>0, <1>1, <1>2, <1>3 DEF Settling

-----------------------------------------------------------------------------
(* Who owns a row.  A job and a live entry are only ever gained from a row  *)
(* the runtime owns, and an owner only ever loses a row when finished.      *)

JobSession(q) == IF job[q] # NoJob THEN {job[q].session} ELSE {}

Gains ==
    \A q \in Runtimes :
        /\ live'[q] \subseteq live[q] \cup JobSession(q)
        /\ job'[q] # NoJob =>
             \/ job[q] # NoJob /\ job'[q].session = job[q].session
             \/ row'[job'[q].session].known /\ row'[job'[q].session].owner = q

RowsKept ==
    \A t \in Sessions :
        /\ row[t].known => row'[t].known /\ (row'[t].owner = row[t].owner \/ Finished(row[t].owner))
        /\ ~row'[t].known => row'[t] = row[t]

LEMMA JobTyped ==
    ASSUME TypeOK, NEW q \in Runtimes
    PROVE  /\ job[q].step \in JobSteps => job[q] # NoJob
           /\ job[q] # NoJob => job[q].session \in Sessions
BY DEF TypeOK, Jobs, NoJob, JobSteps

LEMMA StepGains == TypeOK /\ [Next]_vars => Gains
<1> SUFFICES ASSUME TypeOK, [Next]_vars PROVE Gains
  OBVIOUS
<1> USE DEF TypeOK, Gains, JobSession
<1>1. ASSUME NEW r \in Runtimes, Open(r) PROVE Gains
  BY <1>1 DEF Open
<1>2. ASSUME NEW r \in Runtimes, OpenFails(r) PROVE Gains
  BY <1>2 DEF OpenFails
<1>3. ASSUME NEW r \in Runtimes, ReadOrphans(r) PROVE Gains
  BY <1>3 DEF ReadOrphans
<1>4. ASSUME NEW r \in Runtimes, MarkOrphans(r) PROVE Gains
  BY <1>4 DEF MarkOrphans
<1>5. ASSUME NEW r \in Runtimes, Enumerate(r) PROVE Gains
  BY <1>5 DEF Enumerate
<1>6. ASSUME NEW r \in Runtimes, NEW c \in todo[r], SkipCandidate(r, c) PROVE Gains
  BY <1>6 DEF SkipCandidate
<1>7. ASSUME NEW r \in Runtimes, NEW c \in todo[r], Claim(r, c) PROVE Gains
  <2>1. CASE ClaimSession(c.session, r) /\ job' = [job EXCEPT ![r] = Job("claimed", c.session)] /\ ClaimLands(c.session, c.owner)
    <3>1. c.session \in Sessions
      BY DEF Candidate
    <3>2. row'[c.session].known /\ row'[c.session].owner = r
      BY <2>1, <3>1 DEF ClaimSession, ClaimLands, Row
    <3> QED BY <1>7, <2>1, <3>2 DEF Claim, Job
  <2> QED BY <1>7, <2>1 DEF Claim
<1>8. ASSUME NEW r \in Runtimes, StartAdapter(r) PROVE Gains
  <2>1. job[r] # NoJob /\ Job("started", job[r].session).session = job[r].session
    BY <1>8, JobTyped DEF StartAdapter, Job, JobSteps
  <2>2. job'[r] = Job("started", job[r].session) \/ job'[r] = NoJob
    BY <1>8 DEF StartAdapter
  <2>3. live' = live /\ \A q \in Runtimes \ {r} : job'[q] = job[q]
    BY <1>8 DEF StartAdapter
  <2> QED BY <2>1, <2>2, <2>3
<1>9. ASSUME NEW r \in Runtimes, RecordWorking(r) PROVE Gains
  <2>1. job[r] # NoJob /\ Job("working", job[r].session).session = job[r].session
    BY <1>9, JobTyped DEF RecordWorking, Job, JobSteps
  <2>2. job'[r] = Job("working", job[r].session) \/ job'[r] = NoJob
    BY <1>9 DEF RecordWorking
  <2>3. live' = live /\ \A q \in Runtimes \ {r} : job'[q] = job[q]
    BY <1>9 DEF RecordWorking
  <2> QED BY <2>1, <2>2, <2>3
<1>10. ASSUME NEW r \in Runtimes, Attach(r) PROVE Gains
  BY <1>10, JobTyped DEF Attach, JobSteps
<1>11. ASSUME NEW r \in Runtimes, FinishOpen(r) PROVE Gains
  BY <1>11 DEF FinishOpen
<1>12. ASSUME NEW r \in Runtimes, NEW s \in Sessions, CreateRow(r, s) PROVE Gains
  <2>1. row'[s].known /\ row'[s].owner = r
    BY <1>12 DEF CreateRow, RecordSession, Upserted, Row
  <2> QED BY <1>12, <2>1 DEF CreateRow, Job
<1>13. ASSUME NEW r \in Runtimes, CreateLive(r) PROVE Gains
  BY <1>13, JobTyped DEF CreateLive, JobSteps
<1>14. ASSUME NEW r \in Runtimes, NEW s \in Sessions, NEW f \in PumpFacts, PumpFact(r, s, f) PROVE Gains
  BY <1>14 DEF PumpFact
<1>15. ASSUME NEW r \in Runtimes, NEW s \in Sessions, CloseLive(r, s) PROVE Gains
  BY <1>15 DEF CloseLive
<1>16. ASSUME NEW r \in Runtimes, NEW s \in Sessions, CloseKnown(r, s) PROVE Gains
  BY <1>16 DEF CloseKnown
<1>17. ASSUME NEW r \in Runtimes, ShutdownCursors(r) PROVE Gains
  BY <1>17 DEF ShutdownCursors
<1>18. ASSUME NEW r \in Runtimes, ShutdownMark(r) PROVE Gains
  BY <1>18 DEF ShutdownMark
<1>19. ASSUME NEW r \in Runtimes, Drop(r) PROVE Gains
  BY <1>19 DEF Drop
<1>20. ASSUME NEW r \in Runtimes, NEW s \in Sessions, NEW f \in PumpFacts, TailFact(r, s, f) PROVE Gains
  BY <1>20 DEF TailFact
<1>21. ASSUME NEW p \in Processes, Crash(p) PROVE Gains
  BY <1>21 DEF Crash
<1>22. CASE UNCHANGED vars
  BY <1>22 DEF vars
<1> QED
  BY <1>1, <1>2, <1>3, <1>4, <1>5, <1>6, <1>7, <1>8, <1>9, <1>10, <1>11, <1>12, <1>13, <1>14,
     <1>15, <1>16, <1>17, <1>18, <1>19, <1>20, <1>21, <1>22 DEF Next, OpenStep

LEMMA StepRowsKept == TypeOK /\ SeenAreFinished /\ JobOwnsRow /\ [Next]_vars => RowsKept
<1> SUFFICES ASSUME TypeOK, SeenAreFinished, JobOwnsRow, [Next]_vars PROVE RowsKept
  OBVIOUS
<1> USE DEF TypeOK, RowsKept
<1>0. UNCHANGED row => RowsKept
  OBVIOUS
<1>c. /\ "working" \in Facts /\ "interrupted" \in Facts /\ "closed" \in Facts /\ "created" \in Facts
      /\ PumpFacts \subseteq Facts /\ "created" \notin PumpFacts
  BY PumpFactsAreFacts DEF Facts, Statuses, InFlight
<1>a. ASSUME NEW s \in Sessions, NEW f \in Facts, f # "created", NEW o \in Runtimes, AppendFact(s, f, o)
      PROVE  RowsKept
  <2>1. /\ row'[s].known = row[s].known /\ row'[s].owner = row[s].owner
        /\ ~row[s].known => row'[s] = row[s]
        /\ \A t \in Sessions \ {s} : row'[t] = row[t]
    BY <1>a, AppendEffect
  <2> QED BY <2>1
<1>b. ASSUME NEW S \in SUBSET Sessions, NEW o \in Runtimes, AppendInterrupted(S, o)
      PROVE  RowsKept
  BY <1>b, InterruptEffect
<1>1. ASSUME NEW r \in Runtimes, Open(r) PROVE RowsKept
  BY <1>1, <1>0 DEF Open
<1>2. ASSUME NEW r \in Runtimes, OpenFails(r) PROVE RowsKept
  BY <1>2, <1>0 DEF OpenFails
<1>3. ASSUME NEW r \in Runtimes, ReadOrphans(r) PROVE RowsKept
  BY <1>3, <1>0 DEF ReadOrphans
<1>4. ASSUME NEW r \in Runtimes, MarkOrphans(r) PROVE RowsKept
  BY <1>4, <1>b DEF MarkOrphans
<1>5. ASSUME NEW r \in Runtimes, Enumerate(r) PROVE RowsKept
  BY <1>5, <1>0 DEF Enumerate
<1>6. ASSUME NEW r \in Runtimes, NEW c \in todo[r], SkipCandidate(r, c) PROVE RowsKept
  BY <1>6, <1>0 DEF SkipCandidate
<1>7. ASSUME NEW r \in Runtimes, NEW c \in todo[r], Claim(r, c) PROVE RowsKept
  <2>1. CASE ClaimSession(c.session, r) /\ ClaimLands(c.session, c.owner)
    <3>1. c.session \in Sessions /\ Finished(c.owner)
      BY DEF Candidate, SeenAreFinished
    <3> QED BY <2>1, <3>1 DEF ClaimSession, ClaimLands, Row
  <2> QED BY <1>7, <2>1 DEF Claim
<1>8. ASSUME NEW r \in Runtimes, StartAdapter(r) PROVE RowsKept
  BY <1>8, <1>0 DEF StartAdapter
<1>9. ASSUME NEW r \in Runtimes, RecordWorking(r) PROVE RowsKept
  <2>1. job[r].session \in Sessions
    BY <1>9, JobTyped DEF RecordWorking, JobSteps
  <2> QED BY <1>9, <2>1, <1>0, <1>a, <1>c DEF RecordWorking, storeVars
<1>10. ASSUME NEW r \in Runtimes, Attach(r) PROVE RowsKept
  <2>1. job[r].session \in Sessions
    BY <1>10, JobTyped DEF Attach, JobSteps
  <2> QED BY <1>10, <2>1, <1>0, <1>a, <1>c DEF Attach, storeVars
<1>11. ASSUME NEW r \in Runtimes, FinishOpen(r) PROVE RowsKept
  BY <1>11, <1>0 DEF FinishOpen
<1>12. ASSUME NEW r \in Runtimes, NEW s \in Sessions, CreateRow(r, s) PROVE RowsKept
  BY <1>12 DEF CreateRow, RecordSession, Upserted, Row
<1>13. ASSUME NEW r \in Runtimes, CreateLive(r) PROVE RowsKept
  <2>1. job[r].session \in Sessions /\ row[job[r].session].owner = r
    BY <1>13, JobTyped DEF CreateLive, JobSteps, JobOwnsRow
  <2>2. ASSUME AppendFact(job[r].session, "created", r) PROVE RowsKept
    <3> DEFINE s == job[r].session
    <3>1. /\ row'[s].known /\ row'[s].owner = row[s].owner
          /\ \A t \in Sessions \ {s} : row'[t] = row[t]
      BY <2>1, <2>2, <1>c, AppendEffect
    <3> QED BY <2>1, <3>1
  <2> QED BY <1>13, <2>2, <1>0 DEF CreateLive
<1>14. ASSUME NEW r \in Runtimes, NEW s \in Sessions, NEW f \in PumpFacts, PumpFact(r, s, f) PROVE RowsKept
  BY <1>14, <1>a, <1>c DEF PumpFact
<1>15. ASSUME NEW r \in Runtimes, NEW s \in Sessions, CloseLive(r, s) PROVE RowsKept
  BY <1>15, <1>0, <1>a, <1>c DEF CloseLive, storeVars
<1>16. ASSUME NEW r \in Runtimes, NEW s \in Sessions, CloseKnown(r, s) PROVE RowsKept
  BY <1>16, <1>a, <1>c DEF CloseKnown
<1>17. ASSUME NEW r \in Runtimes, ShutdownCursors(r) PROVE RowsKept
  <2>1. PICK R \in SUBSET (live[r] \cap Resumable) : RecordCursors(R)
    BY <1>17 DEF ShutdownCursors
  <2> QED BY <2>1 DEF RecordCursors, Row
<1>18. ASSUME NEW r \in Runtimes, ShutdownMark(r) PROVE RowsKept
  <2>1. OwnInFlight(r) \subseteq Sessions
    BY DEF OwnInFlight
  <2>2. CASE MarkInterruptedOnShutdown(r) BY <1>18, <2>1, <2>2, <1>b DEF ShutdownMark, MarkInterruptedOnShutdown
  <2>3. CASE UNCHANGED storeVars BY <1>18, <2>3, <1>0 DEF ShutdownMark, storeVars
  <2> QED BY <1>18, <2>2, <2>3 DEF ShutdownMark
<1>19. ASSUME NEW r \in Runtimes, Drop(r) PROVE RowsKept
  BY <1>19, <1>0 DEF Drop
<1>20. ASSUME NEW r \in Runtimes, NEW s \in Sessions, NEW f \in PumpFacts, TailFact(r, s, f) PROVE RowsKept
  BY <1>20, <1>a, <1>c DEF TailFact
<1>21. ASSUME NEW p \in Processes, Crash(p) PROVE RowsKept
  BY <1>21, <1>0 DEF Crash
<1>22. CASE UNCHANGED vars
  BY <1>22, <1>0 DEF vars
<1> QED
  BY <1>1, <1>2, <1>3, <1>4, <1>5, <1>6, <1>7, <1>8, <1>9, <1>10, <1>11, <1>12, <1>13, <1>14,
     <1>15, <1>16, <1>17, <1>18, <1>19, <1>20, <1>21, <1>22 DEF Next, OpenStep

LEMMA BusyNotFinished ==
    ASSUME BusyIsActive, NEW q \in Runtimes, job[q] # NoJob \/ live[q] # {}
    PROVE  ~Finished(q)
BY OwnerAssumption DEF BusyIsActive, Active, Finished

LEMMA OwnStep ==
    TypeOK /\ BusyIsActive /\ SeenAreFinished /\ JobOwnsRow /\ LiveOwnsRow /\ [Next]_vars
      => JobOwnsRow' /\ LiveOwnsRow'
<1> SUFFICES ASSUME TypeOK, BusyIsActive, SeenAreFinished, JobOwnsRow, LiveOwnsRow, [Next]_vars
             PROVE  JobOwnsRow' /\ LiveOwnsRow'
  OBVIOUS
<1>1. Gains /\ RowsKept /\ TypeOK'
  BY StepGains, StepRowsKept, NextTypeOK
<1>2. ASSUME NEW q \in Runtimes, NEW t \in Sessions, job[q] # NoJob \/ live[q] # {},
             row[t].known, row[t].owner = q
      PROVE  row'[t].known /\ row'[t].owner = q
  BY <1>1, <1>2, BusyNotFinished DEF RowsKept
<1>3. ASSUME NEW q \in Runtimes, job[q] # NoJob
      PROVE  /\ row'[job[q].session].known
             /\ row'[job[q].session].owner = q
  BY <1>2, <1>3, JobTyped DEF JobOwnsRow
<1>4. ASSUME NEW q \in Runtimes, NEW t \in live[q]
      PROVE  row'[t].known /\ row'[t].owner = q
  BY <1>2, <1>4 DEF LiveOwnsRow, TypeOK
<1>5. JobOwnsRow'
  BY <1>1, <1>3 DEF JobOwnsRow, Gains
<1>6. LiveOwnsRow'
  BY <1>1, <1>3, <1>4 DEF LiveOwnsRow, Gains, JobSession
<1> QED BY <1>5, <1>6

LEMMA InitOwn == Init => JobOwnsRow /\ LiveOwnsRow
BY DEF Init, JobOwnsRow, LiveOwnsRow

Ownership == TypeOK /\ BusyIsActive /\ SeenAreFinished /\ JobOwnsRow /\ LiveOwnsRow

LEMMA OwnershipInvariant == Spec => []Ownership
<1>1. Init => Ownership
  BY InitTypeOK, InitPhases, InitOwn DEF Ownership
<1>2. Ownership /\ [Next]_vars => Ownership'
  BY NextTypeOK, BusyStep, SeenStep, OwnStep DEF Ownership
<1> QED BY <1>1, <1>2, PTL DEF Spec

(* A session driven by a runtime's adapter is owned by that runtime, for    *)
(* any number of runtimes opening, claiming, dropping and crashing.         *)
THEOREM DriverOwnership == Spec => []DriverOwnsRow
<1>1. Ownership => DriverOwnsRow
  BY JobTyped DEF Ownership, DriverOwnsRow, Attached, JobOwnsRow, LiveOwnsRow, JobSteps
<1> QED BY <1>1, OwnershipInvariant, PTL

(* Two runtimes sharing one store cannot double-attach one session.         *)
THEOREM NoDoubleAttach == Spec => []AtMostOneAttached
<1>1. DriverOwnsRow => AtMostOneAttached
  BY DEF DriverOwnsRow, AtMostOneAttached
<1> QED BY <1>1, DriverOwnership, PTL

-----------------------------------------------------------------------------
(* The projection.  Sessions written to have a row, so each fact and its    *)
(* projection land together.                                                *)

Remembers ==
    /\ \A q \in Runtimes : found'[q] \subseteq {t \in Sessions : t \in found[q] \/ row[t].known}
    /\ \A x \in tail' : x \in tail \/ x[2] \in live[x[1]]

LEMMA StepRemembers == TypeOK /\ [Next]_vars => Remembers
<1> SUFFICES ASSUME TypeOK, [Next]_vars PROVE Remembers
  OBVIOUS
<1> USE DEF TypeOK, Remembers
<1>1. ASSUME NEW r \in Runtimes, Open(r) PROVE Remembers
  BY <1>1 DEF Open
<1>2. ASSUME NEW r \in Runtimes, OpenFails(r) PROVE Remembers
  BY <1>2 DEF OpenFails, Forget
<1>3. ASSUME NEW r \in Runtimes, ReadOrphans(r) PROVE Remembers
  <2>1. InFlightOrphans(Dead(r)) \subseteq {t \in Sessions : row[t].known}
    BY DEF InFlightOrphans
  <2> QED BY <1>3, <2>1 DEF ReadOrphans
<1>4. ASSUME NEW r \in Runtimes, MarkOrphans(r) PROVE Remembers
  BY <1>4 DEF MarkOrphans
<1>5. ASSUME NEW r \in Runtimes, Enumerate(r) PROVE Remembers
  BY <1>5 DEF Enumerate
<1>6. ASSUME NEW r \in Runtimes, NEW c \in todo[r], SkipCandidate(r, c) PROVE Remembers
  BY <1>6 DEF SkipCandidate
<1>7. ASSUME NEW r \in Runtimes, NEW c \in todo[r], Claim(r, c) PROVE Remembers
  BY <1>7 DEF Claim
<1>8. ASSUME NEW r \in Runtimes, StartAdapter(r) PROVE Remembers
  BY <1>8 DEF StartAdapter
<1>9. ASSUME NEW r \in Runtimes, RecordWorking(r) PROVE Remembers
  BY <1>9 DEF RecordWorking
<1>10. ASSUME NEW r \in Runtimes, Attach(r) PROVE Remembers
  BY <1>10 DEF Attach
<1>11. ASSUME NEW r \in Runtimes, FinishOpen(r) PROVE Remembers
  BY <1>11 DEF FinishOpen
<1>12. ASSUME NEW r \in Runtimes, NEW s \in Sessions, CreateRow(r, s) PROVE Remembers
  BY <1>12 DEF CreateRow
<1>13. ASSUME NEW r \in Runtimes, CreateLive(r) PROVE Remembers
  BY <1>13 DEF CreateLive
<1>14. ASSUME NEW r \in Runtimes, NEW s \in Sessions, NEW f \in PumpFacts, PumpFact(r, s, f) PROVE Remembers
  BY <1>14 DEF PumpFact
<1>15. ASSUME NEW r \in Runtimes, NEW s \in Sessions, CloseLive(r, s) PROVE Remembers
  BY <1>15 DEF CloseLive
<1>16. ASSUME NEW r \in Runtimes, NEW s \in Sessions, CloseKnown(r, s) PROVE Remembers
  BY <1>16 DEF CloseKnown
<1>17. ASSUME NEW r \in Runtimes, ShutdownCursors(r) PROVE Remembers
  BY <1>17 DEF ShutdownCursors
<1>18. ASSUME NEW r \in Runtimes, ShutdownMark(r) PROVE Remembers
  BY <1>18 DEF ShutdownMark
<1>19. ASSUME NEW r \in Runtimes, Drop(r) PROVE Remembers
  <2>1. PICK busy \in SUBSET live[r] : tail' = tail \cup ({r} \X busy)
    BY <1>19 DEF Drop
  <2>2. \A x \in {r} \X busy : x[1] = r /\ x[2] \in live[r]
    OBVIOUS
  <2> QED BY <1>19, <2>1, <2>2 DEF Drop, Forget
<1>20. ASSUME NEW r \in Runtimes, NEW s \in Sessions, NEW f \in PumpFacts, TailFact(r, s, f) PROVE Remembers
  BY <1>20 DEF TailFact
<1>21. ASSUME NEW p \in Processes, Crash(p) PROVE Remembers
  BY <1>21 DEF Crash, Forget
<1>22. CASE UNCHANGED vars
  BY <1>22 DEF vars
<1> QED
  BY <1>1, <1>2, <1>3, <1>4, <1>5, <1>6, <1>7, <1>8, <1>9, <1>10, <1>11, <1>12, <1>13, <1>14,
     <1>15, <1>16, <1>17, <1>18, <1>19, <1>20, <1>21, <1>22 DEF Next, OpenStep

LEMMA InitKnown == Init => WrittenAreKnown /\ ProjectionFollowsLog /\ SweepSelected /\ SweptSettled
<1> SUFFICES ASSUME Init PROVE WrittenAreKnown /\ ProjectionFollowsLog /\ SweepSelected /\ SweptSettled
  OBVIOUS
<1>1. PICK old \in SUBSET Sessions :
        /\ row = [s \in Sessions |-> IF s \in old THEN LegacyRow ELSE NoRow]
        /\ log = [s \in Sessions |-> IF s \in old THEN <<"created", "working">> ELSE <<>>]
  BY DEF Init
<1>2. WrittenAreKnown
  BY <1>1 DEF Init, WrittenAreKnown, LegacyRow
<1>3. Tells(<<"created", "working">>, LegacyRow.status)
  <2> DEFINE l == <<"created", "working">>
  <2>1. 2 \in DOMAIN l /\ l[2] = "working" /\ \A j \in DOMAIN l : ~(j > 2)
    OBVIOUS
  <2> QED BY <2>1 DEF Tells, LegacyRow
<1>4. Tells(<<>>, NoRow.status)
  BY DEF Tells, NoRow
<1>5. ProjectionFollowsLog
  <2> SUFFICES ASSUME NEW s \in Sessions PROVE Tells(log[s], row[s].status)
    BY DEF ProjectionFollowsLog
  <2>1. CASE s \in old
    BY <1>1, <1>3, <2>1
  <2>2. CASE s \notin old
    BY <1>1, <1>4, <2>2
  <2> QED BY <2>1, <2>2
<1> QED BY <1>2, <1>5 DEF Init, SweepSelected, SweptSettled

LEMMA KnownStep ==
    TypeOK /\ SeenAreFinished /\ JobOwnsRow /\ WrittenAreKnown /\ [Next]_vars => WrittenAreKnown'
<1> SUFFICES ASSUME TypeOK, SeenAreFinished, JobOwnsRow, WrittenAreKnown, [Next]_vars
             PROVE  WrittenAreKnown'
  OBVIOUS
<1>1. Gains /\ RowsKept /\ Remembers /\ TypeOK'
  BY StepGains, StepRowsKept, StepRemembers, NextTypeOK
<1>2. \A t \in Sessions : row[t].known => row'[t].known
  BY <1>1 DEF RowsKept
<1>3. \A q \in Runtimes : \A t \in found'[q] : row'[t].known
  BY <1>1, <1>2 DEF Remembers, WrittenAreKnown
<1>4. \A q \in Runtimes : \A t \in live'[q] : row'[t].known
  <2>1. ASSUME NEW q \in Runtimes, NEW t \in live'[q] PROVE t \in Sessions /\ row[t].known
    <3>1. t \in live[q] \/ (job[q] # NoJob /\ t = job[q].session)
      BY <1>1 DEF Gains, JobSession
    <3>2. CASE t \in live[q]
      BY <3>2 DEF TypeOK, WrittenAreKnown
    <3>3. CASE job[q] # NoJob /\ t = job[q].session
      BY <3>3, JobTyped DEF JobOwnsRow
    <3> QED BY <3>1, <3>2, <3>3
  <2> QED BY <1>2, <2>1
<1>5. \A x \in tail' : row'[x[2]].known
  <2>1. ASSUME NEW x \in tail' PROVE x[1] \in Runtimes /\ x[2] \in Sessions
    BY <1>1 DEF TypeOK
  <2> QED BY <1>1, <1>2, <2>1 DEF Remembers, WrittenAreKnown
<1>6. \A t \in Sessions : ~row'[t].known => row'[t] = NoRow
  BY <1>1, <1>2 DEF RowsKept, WrittenAreKnown
<1> QED BY <1>3, <1>4, <1>5, <1>6 DEF WrittenAreKnown

(* In one step a session's log and status both stay, or one fact is         *)
(* appended and projected.                                                  *)
Projects ==
    \A t \in Sessions :
        \/ log'[t] = log[t] /\ row'[t].status = row[t].status
        \/ \E f \in Facts : /\ log'[t] = Append(log[t], f)
                            /\ row'[t].status = IF f \in Statuses THEN f ELSE row[t].status

LEMMA StepProjects ==
    TypeOK /\ JobOwnsRow /\ WrittenAreKnown /\ [Next]_vars => Projects
<1> SUFFICES ASSUME TypeOK, JobOwnsRow, WrittenAreKnown, [Next]_vars PROVE Projects
  OBVIOUS
<1> USE DEF TypeOK
<1>0. UNCHANGED <<log, row>> => Projects
  BY DEF Projects
<1>c. /\ "working" \in Facts /\ "interrupted" \in Facts /\ "closed" \in Facts /\ "created" \in Facts
      /\ PumpFacts \subseteq Facts /\ "interrupted" \in Statuses
  BY PumpFactsAreFacts DEF Facts, Statuses, InFlight
<1>a. ASSUME NEW s \in Sessions, NEW f \in Facts, NEW o \in Runtimes, AppendFact(s, f, o), row[s].known
      PROVE  Projects
  <2>1. /\ log'[s] = Append(log[s], f)
        /\ row'[s].status = IF f \in Statuses THEN f ELSE row[s].status
        /\ \A t \in Sessions \ {s} : row'[t] = row[t] /\ log'[t] = log[t]
    BY <1>a, AppendEffect
  <2> QED BY <2>1 DEF Projects
<1>b. ASSUME NEW S \in SUBSET Sessions, NEW o \in Runtimes, AppendInterrupted(S, o),
             \A t \in S : row[t].known
      PROVE  Projects
  <2>1. /\ \A t \in S : log'[t] = Append(log[t], "interrupted") /\ row'[t].status = "interrupted"
        /\ \A t \in Sessions \ S : row'[t] = row[t] /\ log'[t] = log[t]
    BY <1>b, InterruptEffect
  <2> QED BY <1>c, <2>1 DEF Projects
<1>j. \A r \in Runtimes : job[r].step \in JobSteps => job[r].session \in Sessions /\ row[job[r].session].known
  BY JobTyped DEF JobOwnsRow
<1>1. ASSUME NEW r \in Runtimes, Open(r) PROVE Projects
  BY <1>1, <1>0 DEF Open
<1>2. ASSUME NEW r \in Runtimes, OpenFails(r) PROVE Projects
  BY <1>2, <1>0 DEF OpenFails
<1>3. ASSUME NEW r \in Runtimes, ReadOrphans(r) PROVE Projects
  BY <1>3, <1>0 DEF ReadOrphans
<1>4. ASSUME NEW r \in Runtimes, MarkOrphans(r) PROVE Projects
  BY <1>4, <1>b DEF MarkOrphans, WrittenAreKnown
<1>5. ASSUME NEW r \in Runtimes, Enumerate(r) PROVE Projects
  BY <1>5, <1>0 DEF Enumerate
<1>6. ASSUME NEW r \in Runtimes, NEW c \in todo[r], SkipCandidate(r, c) PROVE Projects
  BY <1>6, <1>0 DEF SkipCandidate
<1>7. ASSUME NEW r \in Runtimes, NEW c \in todo[r], Claim(r, c) PROVE Projects
  <2>1. CASE ClaimSession(c.session, r)
    BY <2>1 DEF ClaimSession, Row, Projects
  <2> QED BY <1>7, <2>1, <1>0 DEF Claim
<1>8. ASSUME NEW r \in Runtimes, StartAdapter(r) PROVE Projects
  BY <1>8, <1>0 DEF StartAdapter
<1>9. ASSUME NEW r \in Runtimes, RecordWorking(r) PROVE Projects
  BY <1>9, <1>0, <1>a, <1>c, <1>j DEF RecordWorking, storeVars, JobSteps
<1>10. ASSUME NEW r \in Runtimes, Attach(r) PROVE Projects
  BY <1>10, <1>0, <1>a, <1>c, <1>j DEF Attach, storeVars, JobSteps
<1>11. ASSUME NEW r \in Runtimes, FinishOpen(r) PROVE Projects
  BY <1>11, <1>0 DEF FinishOpen
<1>12. ASSUME NEW r \in Runtimes, NEW s \in Sessions, CreateRow(r, s) PROVE Projects
  BY <1>12 DEF CreateRow, RecordSession, Upserted, Row, Projects
<1>13. ASSUME NEW r \in Runtimes, CreateLive(r) PROVE Projects
  BY <1>13, <1>0, <1>a, <1>c, <1>j DEF CreateLive, JobSteps
<1>14. ASSUME NEW r \in Runtimes, NEW s \in Sessions, NEW f \in PumpFacts, PumpFact(r, s, f) PROVE Projects
  BY <1>14, <1>a, <1>c DEF PumpFact, WrittenAreKnown
<1>15. ASSUME NEW r \in Runtimes, NEW s \in Sessions, CloseLive(r, s) PROVE Projects
  BY <1>15, <1>0, <1>a, <1>c DEF CloseLive, storeVars, WrittenAreKnown
<1>16. ASSUME NEW r \in Runtimes, NEW s \in Sessions, CloseKnown(r, s) PROVE Projects
  BY <1>16, <1>a, <1>c DEF CloseKnown
<1>17. ASSUME NEW r \in Runtimes, ShutdownCursors(r) PROVE Projects
  <2>1. PICK R \in SUBSET (live[r] \cap Resumable) : RecordCursors(R)
    BY <1>17 DEF ShutdownCursors
  <2>2. \A t \in Sessions : row'[t] = row[t] \/ row'[t] = [row[t] EXCEPT !.cursor = TRUE]
    BY <2>1 DEF RecordCursors
  <2>3. \A t \in Sessions : row'[t].status = row[t].status
    BY <2>2 DEF Row
  <2> QED BY <2>1, <2>3 DEF RecordCursors, Projects
<1>18. ASSUME NEW r \in Runtimes, ShutdownMark(r) PROVE Projects
  <2>1. OwnInFlight(r) \subseteq Sessions /\ \A t \in OwnInFlight(r) : row[t].known
    BY DEF OwnInFlight
  <2>2. CASE MarkInterruptedOnShutdown(r) BY <1>18, <2>1, <2>2, <1>b DEF ShutdownMark, MarkInterruptedOnShutdown
  <2>3. CASE UNCHANGED storeVars BY <1>18, <2>3, <1>0 DEF ShutdownMark, storeVars
  <2> QED BY <1>18, <2>2, <2>3 DEF ShutdownMark
<1>19. ASSUME NEW r \in Runtimes, Drop(r) PROVE Projects
  BY <1>19, <1>0 DEF Drop
<1>20. ASSUME NEW r \in Runtimes, NEW s \in Sessions, NEW f \in PumpFacts, TailFact(r, s, f) PROVE Projects
  <2>1. row[s].known
    BY <1>20 DEF TailFact, WrittenAreKnown
  <2> QED BY <1>20, <2>1, <1>a, <1>c DEF TailFact
<1>21. ASSUME NEW p \in Processes, Crash(p) PROVE Projects
  BY <1>21, <1>0 DEF Crash
<1>22. CASE UNCHANGED vars
  BY <1>22, <1>0 DEF vars
<1> QED
  BY <1>1, <1>2, <1>3, <1>4, <1>5, <1>6, <1>7, <1>8, <1>9, <1>10, <1>11, <1>12, <1>13, <1>14,
     <1>15, <1>16, <1>17, <1>18, <1>19, <1>20, <1>21, <1>22 DEF Next, OpenStep

LEMMA ProjectionStep ==
    TypeOK /\ JobOwnsRow /\ WrittenAreKnown /\ ProjectionFollowsLog /\ [Next]_vars
      => ProjectionFollowsLog'
<1> SUFFICES ASSUME TypeOK, JobOwnsRow, WrittenAreKnown, ProjectionFollowsLog, [Next]_vars,
                    NEW t \in Sessions
             PROVE  Tells(log'[t], row'[t].status)
  BY DEF ProjectionFollowsLog, Tells
<1>1. Projects
  BY StepProjects
<1>2. log[t] \in Seq(Facts) /\ row[t].status \in Statuses /\ Tells(log[t], row[t].status)
  BY DEF TypeOK, Row, ProjectionFollowsLog
<1>3. CASE log'[t] = log[t] /\ row'[t].status = row[t].status
  BY <1>2, <1>3
<1>4. ASSUME NEW f \in Facts, log'[t] = Append(log[t], f),
             row'[t].status = IF f \in Statuses THEN f ELSE row[t].status
      PROVE  Tells(log'[t], row'[t].status)
  BY <1>2, <1>4, TellsAppend
<1> QED BY <1>1, <1>3, <1>4 DEF Projects

Projection == Ownership /\ WrittenAreKnown /\ ProjectionFollowsLog

LEMMA ProjectionInvariant == Spec => []Projection
<1>1. Init => Projection
  BY InitTypeOK, InitPhases, InitOwn, InitKnown DEF Projection, Ownership
<1>2. Projection /\ [Next]_vars => Projection'
  BY NextTypeOK, BusyStep, SeenStep, OwnStep, KnownStep, ProjectionStep DEF Projection, Ownership
<1> QED BY <1>1, <1>2, PTL DEF Spec

(* Every session's row tells what its log tells.                            *)
THEOREM ProjectionTellsLog == Spec => []ProjectionFollowsLog
BY ProjectionInvariant, PTL DEF Projection

-----------------------------------------------------------------------------
(* The sweep.  A session only gets in flight by a runtime that is not       *)
(* finished, or by the last write of a dropped one.                         *)

Flying(t) == row[t].known /\ row[t].status \in InFlight

Takeoffs ==
    \A t \in Sessions :
        Flying(t)' /\ t \notin late' =>
            \/ Flying(t) /\ t \notin late /\ row'[t].owner = row[t].owner
            \/ ~Finished(row'[t].owner)

(* How a runtime gets to its marking and past it. *)
PastSweep(q) == phase[q] \in {"enumerating", "resuming", "serving", "cursors", "marked"}
SweepPhases ==
    \A q \in Runtimes :
        /\ phase'[q] = "marking" =>
             \/ phase[q] = "marking" /\ swept'[q] = swept[q] /\ found'[q] = found[q]
             \/ ReadOrphans(q)
        /\ PastSweep(q)' => swept'[q] = swept[q] /\ (PastSweep(q) \/ MarkOrphans(q))

LEMMA StepSweepPhases == TypeOK /\ BusyIsActive /\ [Next]_vars => SweepPhases
<1> SUFFICES ASSUME TypeOK, BusyIsActive, [Next]_vars PROVE SweepPhases
  OBVIOUS
<1> USE DEF TypeOK, SweepPhases, PastSweep
<1>1. ASSUME NEW r \in Runtimes, Open(r) PROVE SweepPhases
  BY <1>1 DEF Open
<1>2. ASSUME NEW r \in Runtimes, OpenFails(r) PROVE SweepPhases
  BY <1>2 DEF OpenFails, Forget
<1>3. ASSUME NEW r \in Runtimes, ReadOrphans(r) PROVE SweepPhases
  BY <1>3 DEF ReadOrphans
<1>4. ASSUME NEW r \in Runtimes, MarkOrphans(r) PROVE SweepPhases
  BY <1>4 DEF MarkOrphans
<1>5. ASSUME NEW r \in Runtimes, Enumerate(r) PROVE SweepPhases
  BY <1>5 DEF Enumerate
<1>6. ASSUME NEW r \in Runtimes, NEW c \in todo[r], SkipCandidate(r, c) PROVE SweepPhases
  BY <1>6 DEF SkipCandidate
<1>7. ASSUME NEW r \in Runtimes, NEW c \in todo[r], Claim(r, c) PROVE SweepPhases
  BY <1>7 DEF Claim
<1>8. ASSUME NEW r \in Runtimes, StartAdapter(r) PROVE SweepPhases
  BY <1>8 DEF StartAdapter
<1>9. ASSUME NEW r \in Runtimes, RecordWorking(r) PROVE SweepPhases
  BY <1>9 DEF RecordWorking
<1>10. ASSUME NEW r \in Runtimes, Attach(r) PROVE SweepPhases
  BY <1>10 DEF Attach
<1>11. ASSUME NEW r \in Runtimes, FinishOpen(r) PROVE SweepPhases
  BY <1>11 DEF FinishOpen
<1>12. ASSUME NEW r \in Runtimes, NEW s \in Sessions, CreateRow(r, s) PROVE SweepPhases
  BY <1>12 DEF CreateRow, Serving
<1>13. ASSUME NEW r \in Runtimes, CreateLive(r) PROVE SweepPhases
  BY <1>13 DEF CreateLive
<1>14. ASSUME NEW r \in Runtimes, NEW s \in Sessions, NEW f \in PumpFacts, PumpFact(r, s, f) PROVE SweepPhases
  BY <1>14 DEF PumpFact
<1>15. ASSUME NEW r \in Runtimes, NEW s \in Sessions, CloseLive(r, s) PROVE SweepPhases
  BY <1>15 DEF CloseLive
<1>16. ASSUME NEW r \in Runtimes, NEW s \in Sessions, CloseKnown(r, s) PROVE SweepPhases
  BY <1>16 DEF CloseKnown
<1>17. ASSUME NEW r \in Runtimes, ShutdownCursors(r) PROVE SweepPhases
  BY <1>17 DEF ShutdownCursors
<1>18. ASSUME NEW r \in Runtimes, ShutdownMark(r) PROVE SweepPhases
  BY <1>18 DEF ShutdownMark
<1>19. ASSUME NEW r \in Runtimes, Drop(r) PROVE SweepPhases
  BY <1>19 DEF Drop, Forget
<1>20. ASSUME NEW r \in Runtimes, NEW s \in Sessions, NEW f \in PumpFacts, TailFact(r, s, f) PROVE SweepPhases
  BY <1>20 DEF TailFact
<1>21. ASSUME NEW p \in Processes, Crash(p) PROVE SweepPhases
  BY <1>21 DEF Crash, Forget, Registered
<1>22. CASE UNCHANGED vars
  BY <1>22 DEF vars
<1> QED
  BY <1>1, <1>2, <1>3, <1>4, <1>5, <1>6, <1>7, <1>8, <1>9, <1>10, <1>11, <1>12, <1>13, <1>14,
     <1>15, <1>16, <1>17, <1>18, <1>19, <1>20, <1>21, <1>22 DEF Next, OpenStep

LEMMA StepTakeoffs ==
    TypeOK /\ BusyIsActive /\ JobOwnsRow /\ LiveOwnsRow /\ WrittenAreKnown /\ [Next]_vars => Takeoffs
<1> SUFFICES ASSUME TypeOK, BusyIsActive, JobOwnsRow, LiveOwnsRow, WrittenAreKnown, [Next]_vars
             PROVE  Takeoffs
  OBVIOUS
<1> USE DEF TypeOK
<1>0. row' = row /\ late' = late => Takeoffs
  BY DEF Takeoffs, Flying
<1>c. /\ "working" \in Facts /\ "interrupted" \in Facts /\ "closed" \in Facts /\ "created" \in Facts
      /\ PumpFacts \subseteq Facts /\ "created" \notin PumpFacts
      /\ "interrupted" \in Statuses /\ "closed" \in Statuses
      /\ "interrupted" \notin InFlight /\ "closed" \notin InFlight /\ "idle" \notin InFlight
      /\ "created" \notin Statuses
  BY PumpFactsAreFacts DEF Facts, Statuses, InFlight
<1>a. ASSUME NEW s \in Sessions, NEW f \in Facts, NEW o \in Runtimes, AppendFact(s, f, o), late' = late,
             f # "created", row[s].known,
             ~Finished(row[s].owner) \/ (f \in Statuses /\ f \notin InFlight)
      PROVE  Takeoffs
  <2>1. /\ row'[s].known /\ row'[s].owner = row[s].owner
        /\ row'[s].status = IF f \in Statuses THEN f ELSE row[s].status
        /\ \A t \in Sessions \ {s} : row'[t] = row[t]
    BY <1>a, AppendEffect
  <2> QED BY <1>a, <2>1 DEF Takeoffs, Flying
<1>b. ASSUME NEW S \in SUBSET Sessions, NEW o \in Runtimes, AppendInterrupted(S, o), late' = late
      PROVE  Takeoffs
  <2>1. /\ \A t \in S : row'[t].known = row[t].known /\ (row[t].known => row'[t].status = "interrupted")
        /\ \A t \in Sessions \ S : row'[t] = row[t]
    BY <1>b, InterruptEffect
  <2> QED BY <1>b, <1>c, <2>1 DEF Takeoffs, Flying
<1>j. ASSUME NEW r \in Runtimes, job[r].step \in JobSteps
      PROVE  /\ job[r].session \in Sessions /\ row[job[r].session].known
             /\ row[job[r].session].owner = r /\ ~Finished(r)
  BY <1>j, JobTyped, BusyNotFinished DEF JobOwnsRow
<1>l. ASSUME NEW r \in Runtimes, NEW s \in live[r]
      PROVE  s \in Sessions /\ row[s].known /\ row[s].owner = r /\ ~Finished(r)
  BY <1>l, BusyNotFinished DEF LiveOwnsRow
<1>1. ASSUME NEW r \in Runtimes, Open(r) PROVE Takeoffs
  BY <1>1, <1>0 DEF Open
<1>2. ASSUME NEW r \in Runtimes, OpenFails(r) PROVE Takeoffs
  BY <1>2, <1>0 DEF OpenFails
<1>3. ASSUME NEW r \in Runtimes, ReadOrphans(r) PROVE Takeoffs
  BY <1>3, <1>0 DEF ReadOrphans
<1>4. ASSUME NEW r \in Runtimes, MarkOrphans(r) PROVE Takeoffs
  BY <1>4, <1>b DEF MarkOrphans
<1>5. ASSUME NEW r \in Runtimes, Enumerate(r) PROVE Takeoffs
  BY <1>5, <1>0 DEF Enumerate
<1>6. ASSUME NEW r \in Runtimes, NEW c \in todo[r], SkipCandidate(r, c) PROVE Takeoffs
  BY <1>6, <1>0 DEF SkipCandidate
<1>7. ASSUME NEW r \in Runtimes, NEW c \in todo[r], Claim(r, c) PROVE Takeoffs
  <2>1. CASE ClaimSession(c.session, r) /\ ClaimLands(c.session, c.owner)
    <3>1. c.session \in Sessions /\ row'[c.session].owner = r
      BY <2>1 DEF Candidate, ClaimSession, Row
    <3>2. ~Finished(r)
      BY <1>7, OwnerAssumption DEF Claim, BusyIsActive, Active, Finished
    <3>3. \A t \in Sessions \ {c.session} : row'[t] = row[t]
      BY <2>1 DEF ClaimSession
    <3> QED BY <1>7, <3>1, <3>2, <3>3 DEF Takeoffs, Flying, Claim
  <2> QED BY <1>7, <2>1, <1>0 DEF Claim
<1>8. ASSUME NEW r \in Runtimes, StartAdapter(r) PROVE Takeoffs
  BY <1>8, <1>0 DEF StartAdapter
<1>9. ASSUME NEW r \in Runtimes, RecordWorking(r) PROVE Takeoffs
  BY <1>9, <1>0, <1>a, <1>c, <1>j DEF RecordWorking, storeVars, JobSteps
<1>10. ASSUME NEW r \in Runtimes, Attach(r) PROVE Takeoffs
  BY <1>10, <1>0, <1>a, <1>c, <1>j DEF Attach, storeVars, JobSteps
<1>11. ASSUME NEW r \in Runtimes, FinishOpen(r) PROVE Takeoffs
  BY <1>11, <1>0 DEF FinishOpen
<1>12. ASSUME NEW r \in Runtimes, NEW s \in Sessions, CreateRow(r, s) PROVE Takeoffs
  <2>1. row'[s].status = "idle" /\ \A t \in Sessions \ {s} : row'[t] = row[t]
    BY <1>12 DEF CreateRow, RecordSession, Upserted, Row, WrittenAreKnown, NoRow
  <2> QED BY <1>12, <1>c, <2>1 DEF Takeoffs, Flying, CreateRow
<1>13. ASSUME NEW r \in Runtimes, CreateLive(r) PROVE Takeoffs
  <2>1. /\ job[r].session \in Sessions /\ row[job[r].session].known
        /\ row[job[r].session].owner = r
    BY <1>13, <1>j DEF CreateLive, JobSteps
  <2>2. ASSUME AppendFact(job[r].session, "created", r) PROVE Takeoffs
    <3> DEFINE s == job[r].session
    <3>1. /\ row'[s].owner = r /\ row'[s].status = row[s].status
          /\ \A t \in Sessions \ {s} : row'[t] = row[t]
      BY <2>1, <2>2, <1>c, AppendEffect
    <3> QED BY <1>13, <2>1, <3>1 DEF Takeoffs, Flying, CreateLive
  <2> QED BY <1>13, <1>0, <2>2 DEF CreateLive
<1>14. ASSUME NEW r \in Runtimes, NEW s \in Sessions, NEW f \in PumpFacts, PumpFact(r, s, f) PROVE Takeoffs
  BY <1>14, <1>a, <1>c, <1>l DEF PumpFact
<1>15. ASSUME NEW r \in Runtimes, NEW s \in Sessions, CloseLive(r, s) PROVE Takeoffs
  BY <1>15, <1>0, <1>a, <1>c, <1>l DEF CloseLive, storeVars
<1>16. ASSUME NEW r \in Runtimes, NEW s \in Sessions, CloseKnown(r, s) PROVE Takeoffs
  BY <1>16, <1>a, <1>c DEF CloseKnown
<1>17. ASSUME NEW r \in Runtimes, ShutdownCursors(r) PROVE Takeoffs
  <2>1. PICK R \in SUBSET (live[r] \cap Resumable) : RecordCursors(R)
    BY <1>17 DEF ShutdownCursors
  <2>2. \A t \in Sessions : row'[t] = row[t] \/ row'[t] = [row[t] EXCEPT !.cursor = TRUE]
    BY <2>1 DEF RecordCursors
  <2>3. \A t \in Sessions : /\ row'[t].status = row[t].status /\ row'[t].known = row[t].known
                           /\ row'[t].owner = row[t].owner
    BY <2>2 DEF Row
  <2> QED BY <1>17, <2>3 DEF Takeoffs, Flying, ShutdownCursors
<1>18. ASSUME NEW r \in Runtimes, ShutdownMark(r) PROVE Takeoffs
  <2>1. OwnInFlight(r) \subseteq Sessions
    BY DEF OwnInFlight
  <2>2. CASE MarkInterruptedOnShutdown(r) BY <1>18, <2>1, <2>2, <1>b DEF ShutdownMark, MarkInterruptedOnShutdown
  <2>3. CASE UNCHANGED storeVars BY <1>18, <2>3, <1>0 DEF ShutdownMark, storeVars
  <2> QED BY <1>18, <2>2, <2>3 DEF ShutdownMark
<1>19. ASSUME NEW r \in Runtimes, Drop(r) PROVE Takeoffs
  BY <1>19, <1>0 DEF Drop
<1>20. ASSUME NEW r \in Runtimes, NEW s \in Sessions, NEW f \in PumpFacts, TailFact(r, s, f) PROVE Takeoffs
  <2>1. late' = late \cup {s} /\ \A t \in Sessions \ {s} : row'[t] = row[t]
    BY <1>20, <1>c, AppendEffect DEF TailFact
  <2> QED BY <2>1 DEF Takeoffs, Flying
<1>21. ASSUME NEW p \in Processes, Crash(p) PROVE Takeoffs
  BY <1>21, <1>0 DEF Crash
<1>22. CASE UNCHANGED vars
  BY <1>22, <1>0 DEF vars
<1> QED
  BY <1>1, <1>2, <1>3, <1>4, <1>5, <1>6, <1>7, <1>8, <1>9, <1>10, <1>11, <1>12, <1>13, <1>14,
     <1>15, <1>16, <1>17, <1>18, <1>19, <1>20, <1>21, <1>22 DEF Next, OpenStep

LEMMA SweepStep ==
    ASSUME Projection, SweepSelected, SweptSettled, [Next]_vars
    PROVE  SweepSelected' /\ SweptSettled'
<1> USE DEF Projection, Ownership
<1>1. Takeoffs /\ SweepPhases /\ SeenAreFinished' /\ TypeOK'
  BY StepTakeoffs, StepSweepPhases, SeenStep, NextTypeOK
<1>2. ASSUME NEW r \in Runtimes, NEW s \in Sessions, Flying(s)', s \notin late',
             row'[s].owner \in swept'[r]
      PROVE  Flying(s) /\ s \notin late /\ row'[s].owner = row[s].owner
  <2>2. CASE Flying(s) /\ s \notin late /\ row'[s].owner = row[s].owner
    BY <2>2
  <2>3. CASE ~Finished(row'[s].owner)
    <3>1. row'[s].owner \in Owners
      BY <1>1 DEF TypeOK, Row
    <3>2. CASE row'[s].owner \in swept[r]
      BY <2>3, <3>2 DEF SeenAreFinished
    <3>3. CASE row'[s].owner \notin swept[r]
      <4>1. row'[s].owner \in Dead(r)
        BY <1>2, <3>3, StepSettling DEF Settling
      <4> QED BY <2>3, <4>1 DEF Dead, Finished
    <3> QED BY <3>2, <3>3
  <2> QED BY <1>1, <1>2, <2>2, <2>3 DEF Takeoffs
<1>3. SweepSelected'
  <2> SUFFICES ASSUME NEW r \in Runtimes, NEW s \in Sessions, phase'[r] = "marking", s \notin late',
                      row'[s].known, row'[s].status \in InFlight, row'[s].owner \in swept'[r]
               PROVE  s \in found'[r]
    BY DEF SweepSelected
  <2>1. Flying(s) /\ s \notin late /\ row'[s].owner = row[s].owner
    BY <1>2 DEF Flying
  <2>2. CASE phase[r] = "marking" /\ swept'[r] = swept[r] /\ found'[r] = found[r]
    BY <2>1, <2>2 DEF SweepSelected, Flying
  <2>3. CASE ReadOrphans(r)
    <3>1. swept'[r] = Dead(r) /\ found'[r] = InFlightOrphans(Dead(r))
      BY <2>3 DEF ReadOrphans, TypeOK
    <3> QED BY <2>1, <3>1 DEF InFlightOrphans, Flying
  <2> QED BY <1>1, <2>2, <2>3 DEF SweepPhases
<1>4. SweptSettled'
  <2> SUFFICES ASSUME NEW r \in Runtimes, NEW s \in Sessions, PastSweep(r)', s \notin late',
                      Flying(s)', row'[s].owner \in swept'[r]
               PROVE  FALSE
    BY DEF SweptSettled, PastSweep, Flying
  <2>1. Flying(s) /\ s \notin late /\ row'[s].owner = row[s].owner
    BY <1>2
  <2>2. swept'[r] = swept[r]
    BY <1>1 DEF SweepPhases
  <2>3. CASE PastSweep(r)
    BY <2>1, <2>2, <2>3 DEF SweptSettled, PastSweep, Flying
  <2>4. CASE MarkOrphans(r)
    <3>1. s \in found[r]
      <4>1. phase[r] = "marking" /\ row[s].owner \in swept[r]
        BY <2>1, <2>2, <2>4 DEF MarkOrphans
      <4> QED BY <2>1, <4>1 DEF SweepSelected, Flying
    <3>2. row'[s].status = "interrupted"
      <4>1. found[r] \in SUBSET Sessions /\ AppendInterrupted(found[r], r) /\ row[s].known
        BY <2>1, <2>4 DEF MarkOrphans, TypeOK, Flying
      <4> QED BY <3>1, <4>1, InterruptEffect DEF TypeOK
    <3> QED BY <3>2 DEF Flying, InFlight
  <2> QED BY <1>1, <2>3, <2>4 DEF SweepPhases
<1> QED BY <1>3, <1>4

(* Past a runtime's startup sweep, no session is still in flight under an   *)
(* owner that the sweep read as dead, the last write of a dropped runtime   *)
(* aside.                                                                   *)
THEOREM SweepSettles == Spec => []SweptSettled
<1>1. Init => SweepSelected /\ SweptSettled
  BY InitKnown
<1>2. Projection /\ SweepSelected /\ SweptSettled /\ [Next]_vars => SweepSelected' /\ SweptSettled'
  BY SweepStep
<1> QED BY <1>1, <1>2, ProjectionInvariant, PTL DEF Spec
=============================================================================
