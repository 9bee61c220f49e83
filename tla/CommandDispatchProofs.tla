------------------------ MODULE CommandDispatchProofs ------------------------
(***************************************************************************)
(* Proofs about CommandDispatch: what the receipt log gives a host that    *)
(* sends its command again, and what the registration gives the winner of  *)
(* an approval, for any number of deliveries, commands and consumers, with *)
(* crashes and late acknowledgements.                                      *)
(***************************************************************************)
EXTENDS CommandDispatch, TLAPS

(* Retries need a log that can be read and written.                         *)
StoreWorks == StoreFails = FALSE

(* A delivery that is done has a receipt to show.                           *)
DoneHasReceipt == \A t \in Calls : call[t].at = "done" => call[t].got # None

(* The log holds one of its command, if the store works.                    *)
DoneIsRecorded == \A t \in Calls : call[t].at = "done" => receipts[CommandOf[t]] # None

(* What began before the adapter acts has changed nothing yet.              *)
Early == {"idle", "missed", "registered"}
EarlyIsQuiet == \A t \in Calls : call[t].at \in Early => t \notin effects

(* A receipt in the log was written by a delivery that is done.             *)
WriterIsDone ==
    \A c \in Commands : receipts[c] # None => call[receipts[c].by].at = "done"

(* t was told, or is about to be, that its answer was taken.                *)
Told(t) ==
    /\ CommandOf[t] \notin Starts
    /\ \/ call[t].at = "waiting"
       \/ call[t].at = "executed" /\ call[t].ok = TRUE
       \/ call[t].at = "done" /\ call[t].got.by = t /\ call[t].got.ok = TRUE

(* Only the winner is told, only the winner changed something, and both     *)
(* only once the adapter has let go of the request.                         *)
ToldIsWinner == \A t \in Calls : Told(t) => t = winner /\ ~pending
EffectIsWinner == \A t \in effects : CommandOf[t] \notin Starts => t = winner /\ ~pending

(* An answer on its way is somebody's.                                      *)
AnswerHasWinner == stream # "empty" => winner \in Calls

AnswerInv ==
    /\ TypeOK /\ DoneHasReceipt /\ WriterIsDone
    /\ ToldIsWinner /\ EffectIsWinner /\ AnswerHasWinner

RetryInv == DoneIsRecorded /\ EarlyIsQuiet /\ RetryIsQuiet

-----------------------------------------------------------------------------
(* A step of one delivery.                                                  *)

(* How a delivery's state is written: its fields, and that it is one.       *)
LEMMA PlaceChanged ==
    ASSUME NEW s \in CallState, NEW p \in Places
    PROVE  LET n == [s EXCEPT !.at = p]
           IN n \in CallState /\ n.at = p /\ n.ok = s.ok /\ n.retry = s.retry /\ n.got = s.got
BY DEF CallState

LEMMA ReceiptTaken ==
    ASSUME NEW s \in CallState, NEW p \in Places, NEW g \in Receipt \cup {None}
    PROVE  LET n == [s EXCEPT !.at = p, !.got = g]
           IN n \in CallState /\ n.at = p /\ n.ok = s.ok /\ n.retry = s.retry /\ n.got = g
BY DEF CallState

LEMMA RetryMarked ==
    ASSUME NEW s \in CallState, NEW q \in BOOLEAN
    PROVE  LET n == [s EXCEPT !.retry = q]
           IN n \in CallState /\ n.at = s.at /\ n.ok = s.ok /\ n.retry = q /\ n.got = s.got
BY DEF CallState

LEMMA MoveOne ==
    ASSUME NEW f \in [Calls -> CallState], NEW t \in Calls, NEW s \in CallState
    PROVE  /\ [f EXCEPT ![t] = s] \in [Calls -> CallState]
           /\ [f EXCEPT ![t] = s][t] = s
           /\ \A u \in Calls : u # t => [f EXCEPT ![t] = s][u] = f[u]
OBVIOUS

(* Only t's state changes: to p, keeping ok and got unless the step says so. *)
Moved(t, p, k, q, g) ==
    /\ call' \in [Calls -> CallState]
    /\ call'[t].at = p /\ call'[t].ok = k /\ call'[t].retry = q /\ call'[t].got = g
    /\ \A u \in Calls : u # t => call'[u] = call[u]

LEMMA LookupMoves ==
    ASSUME TypeOK, NEW t \in Calls, Lookup(t)
    PROVE  \E p \in {"done", "missed"}, g \in Receipt \cup {None} :
              /\ Moved(t, p, call[t].ok, Returned(CommandOf[t]), g)
              /\ p = "done" => g = receipts[CommandOf[t]] /\ g # None
              /\ p = "missed" => g = call[t].got /\ (receipts[CommandOf[t]] = None \/ StoreFails)
<1> DEFINE c == CommandOf[t]
           from == [call[t] EXCEPT !.retry = Returned(c)]
<1>1. c \in Commands /\ receipts[c] \in Receipt \cup {None} /\ call[t] \in CallState
      /\ call \in [Calls -> CallState] /\ Returned(c) \in BOOLEAN
  BY CommandsAssumption DEF TypeOK, Returned
<1>2. from \in CallState /\ from.at = call[t].at /\ from.ok = call[t].ok
      /\ from.retry = Returned(c) /\ from.got = call[t].got
  <2> HIDE DEF c
  <2> QED BY <1>1, RetryMarked
<1> HIDE DEF from
<1>3. CASE receipts[c] # None /\ call' = [call EXCEPT ![t] = [from EXCEPT !.at = "done", !.got = receipts[c]]]
  <2> DEFINE n == [from EXCEPT !.at = "done", !.got = receipts[c]]
  <2>1. n \in CallState /\ n.at = "done" /\ n.ok = from.ok /\ n.retry = from.retry /\ n.got = receipts[c]
    BY <1>1, <1>2, ReceiptTaken DEF Places
  <2> HIDE DEF n
  <2>2. Moved(t, "done", call[t].ok, Returned(c), receipts[c])
    BY <1>1, <1>2, <1>3, <2>1, MoveOne DEF Moved, n
  <2> QED BY <1>1, <1>3, <2>2
<1>4. CASE (receipts[c] = None \/ StoreFails) /\ call' = [call EXCEPT ![t] = [from EXCEPT !.at = "missed"]]
  <2> DEFINE n == [from EXCEPT !.at = "missed"]
  <2>1. n \in CallState /\ n.at = "missed" /\ n.ok = from.ok /\ n.retry = from.retry /\ n.got = from.got
    BY <1>1, <1>2, PlaceChanged DEF Places
  <2> HIDE DEF n
  <2>2. Moved(t, "missed", call[t].ok, Returned(c), call[t].got)
    BY <1>1, <1>2, <1>4, <2>1, MoveOne DEF Moved, n
  <2>3. call[t].got \in Receipt \cup {None}
    BY <1>1 DEF CallState
  <2> QED BY <1>4, <2>2, <2>3
<1> QED BY <1>3, <1>4 DEF Lookup, from

LEMMA PlaceMoves ==
    ASSUME TypeOK, NEW t \in Calls, NEW p \in Places, call' = [call EXCEPT ![t].at = p]
    PROVE  Moved(t, p, call[t].ok, call[t].retry, call[t].got)
<1> DEFINE n == [call[t] EXCEPT !.at = p]
<1>1. call[t] \in CallState /\ call \in [Calls -> CallState]
  BY DEF TypeOK
<1>2. n \in CallState /\ n.at = p /\ n.ok = call[t].ok /\ n.retry = call[t].retry /\ n.got = call[t].got
  BY <1>1, PlaceChanged
<1>3. call' = [call EXCEPT ![t] = n]
  OBVIOUS
<1> HIDE DEF n
<1> QED BY <1>1, <1>2, <1>3, MoveOne DEF Moved

LEMMA ExecutedMoves ==
    ASSUME TypeOK, NEW t \in Calls
    PROVE  /\ Executed(t, TRUE) => Moved(t, "executed", TRUE, call[t].retry, call[t].got)
           /\ Executed(t, FALSE) => Moved(t, "executed", FALSE, call[t].retry, call[t].got)
<1>1. call[t] \in CallState /\ call \in [Calls -> CallState] /\ "executed" \in Places
  BY DEF TypeOK, Places
<1>2. ASSUME Executed(t, TRUE)
      PROVE  Moved(t, "executed", TRUE, call[t].retry, call[t].got)
  <2> DEFINE n == [call[t] EXCEPT !.at = "executed", !.ok = TRUE]
  <2>1. /\ n \in CallState /\ n.at = "executed" /\ n.ok = TRUE
        /\ n.retry = call[t].retry /\ n.got = call[t].got
    BY <1>1 DEF CallState
  <2>2. call' = [call EXCEPT ![t] = n]
    BY <1>2 DEF Executed
  <2> HIDE DEF n
  <2> QED BY <1>1, <2>1, <2>2, MoveOne DEF Moved
<1>3. ASSUME Executed(t, FALSE)
      PROVE  Moved(t, "executed", FALSE, call[t].retry, call[t].got)
  <2> DEFINE n == [call[t] EXCEPT !.at = "executed", !.ok = FALSE]
  <2>1. /\ n \in CallState /\ n.at = "executed" /\ n.ok = FALSE
        /\ n.retry = call[t].retry /\ n.got = call[t].got
    BY <1>1 DEF CallState
  <2>2. call' = [call EXCEPT ![t] = n]
    BY <1>3 DEF Executed
  <2> HIDE DEF n
  <2> QED BY <1>1, <2>1, <2>2, MoveOne DEF Moved
<1> QED BY <1>2, <1>3

LEMMA RecordMoves ==
    ASSUME TypeOK, NEW t \in Calls, Record(t)
    PROVE  /\ Moved(t, "done", call[t].ok, call[t].retry, [by |-> t, ok |-> call[t].ok])
           /\ [by |-> t, ok |-> call[t].ok] \in Receipt
<1> DEFINE mine == [by |-> t, ok |-> call[t].ok]
           n == [call[t] EXCEPT !.at = "done", !.got = mine]
<1>1. call[t] \in CallState /\ call \in [Calls -> CallState]
  BY DEF TypeOK
<1>2. mine \in Receipt
  BY <1>1 DEF CallState, Receipt
<1>3. call' = [call EXCEPT ![t] = n]
  BY DEF Record
<1> HIDE DEF mine
<1>4. n \in CallState /\ n.at = "done" /\ n.ok = call[t].ok /\ n.retry = call[t].retry /\ n.got = mine
  BY <1>1, <1>2, ReceiptTaken DEF Places
<1> HIDE DEF n
<1>5. Moved(t, "done", call[t].ok, call[t].retry, mine)
  BY <1>1, <1>3, <1>4, MoveOne DEF Moved
<1> QED BY <1>2, <1>5 DEF mine

(* The driver changes at most the winner's state.                           *)
LEMMA DriverMoves ==
    ASSUME TypeOK, DriverAnswers
    PROVE  \/ call' = call
           \/ /\ winner \in Calls /\ call[winner].at = "waiting"
              /\ Moved(winner, "refused", call[winner].ok, call[winner].retry, call[winner].got)
<1>1. CASE winner \notin Calls
  BY <1>1 DEF DriverAnswers, TypeOK
<1>2. CASE winner \in Calls /\ call[winner].at = "waiting"
  <2>1. call' = call \/ call' = [call EXCEPT ![winner].at = "refused"]
    BY <1>2 DEF DriverAnswers
  <2> QED BY <1>2, <2>1, PlaceMoves DEF Places
<1>3. CASE winner \in Calls /\ call[winner].at # "waiting"
  <2>1. call[winner] \in CallState /\ call \in [Calls -> CallState]
    BY <1>3 DEF TypeOK
  <2>2. [call[winner] EXCEPT !.at = call[winner].at] = call[winner]
    BY <2>1 DEF CallState
  <2>3. call' = call \/ call' = [call EXCEPT ![winner] = [call[winner] EXCEPT !.at = call[winner].at]]
    BY <1>3 DEF DriverAnswers
  <2> QED BY <2>1, <2>2, <2>3
<1> QED BY <1>1, <1>2, <1>3

(* A crash loses the deliveries that are not finished, and only those.      *)
LEMMA CrashLoses ==
    ASSUME TypeOK, Crash
    PROVE  /\ call' \in [Calls -> CallState]
           /\ \A t \in Calls :
                  /\ call'[t].ok = call[t].ok /\ call'[t].retry = call[t].retry /\ call'[t].got = call[t].got
                  /\ \/ call'[t].at = call[t].at
                     \/ call'[t].at = "lost" /\ call[t].at \notin {"idle", "done", "lost"}
                  /\ call'[t].at \in {"idle", "done", "lost"}
<1>1. ASSUME NEW t \in Calls
      PROVE  LET n == [call[t] EXCEPT !.at = "lost"]
             IN n \in CallState /\ n.at = "lost" /\ n.ok = call[t].ok /\ n.retry = call[t].retry
                /\ n.got = call[t].got
  BY PlaceChanged DEF TypeOK, Places
<1>2. ASSUME NEW t \in Calls
      PROVE  /\ call'[t] \in CallState
             /\ \/ t \in Unfinished /\ call'[t] = [call[t] EXCEPT !.at = "lost"]
                \/ t \notin Unfinished /\ call'[t] = call[t]
  BY <1>1 DEF Crash, TypeOK
<1>3. call' \in [Calls -> CallState]
  BY <1>2 DEF Crash
<1> QED BY <1>1, <1>2, <1>3 DEF Unfinished

-----------------------------------------------------------------------------
(* The invariant, action by action.                                         *)

LEMMA InitHolds == Init => AnswerInv /\ RetryInv
<1> SUFFICES ASSUME Init PROVE AnswerInv /\ RetryInv
  OBVIOUS
<1>1. call \in [Calls -> CallState]
  BY DEF Init, CallState, Places
<1>2. \A t \in Calls : call[t].at = "idle" /\ call[t].retry = FALSE
  BY DEF Init
<1>3. TypeOK
  BY <1>1 DEF Init, TypeOK
<1>4. DoneHasReceipt /\ WriterIsDone /\ ToldIsWinner /\ EffectIsWinner /\ AnswerHasWinner
  BY <1>2, NoneAssumption, CommandsAssumption
     DEF Init, DoneHasReceipt, WriterIsDone, ToldIsWinner, Told, EffectIsWinner, AnswerHasWinner
<1>5. RetryInv
  BY <1>2 DEF Init, RetryInv, DoneIsRecorded, EarlyIsQuiet, RetryIsQuiet
<1> QED BY <1>3, <1>4, <1>5 DEF AnswerInv

LEMMA TypeStep == TypeOK /\ [Next]_vars => TypeOK'
<1> SUFFICES ASSUME TypeOK, [Next]_vars PROVE TypeOK'
  OBVIOUS
<1>1. ASSUME NEW t \in Calls, Lookup(t) PROVE TypeOK'
  BY <1>1, LookupMoves DEF Lookup, Moved, TypeOK, sessionVars
<1>2. ASSUME NEW t \in Calls, Record(t) PROVE TypeOK'
  <2>1. receipts' \in [Commands -> Receipt \cup {None}]
    BY <1>2, RecordMoves DEF Record, TypeOK
  <2>2. call' \in [Calls -> CallState]
    BY <1>2, RecordMoves DEF Moved
  <2> QED BY <1>2, <2>1, <2>2 DEF Record, TypeOK, sessionVars
<1>3. ASSUME NEW t \in Calls, RunStart(t) PROVE TypeOK'
  BY <1>3, ExecutedMoves DEF RunStart, Accepted, Moved, TypeOK
<1>4. ASSUME NEW t \in Calls, Register(t) PROVE TypeOK'
  BY <1>4, PlaceMoves, ConsumersAssumption DEF Register, Moved, TypeOK, Places
<1>5. ASSUME NEW t \in Calls, AdapterAnswer(t) PROVE TypeOK'
  BY <1>5, PlaceMoves DEF AdapterAnswer, Moved, TypeOK, Places
<1>6. ASSUME NEW t \in Calls, Acknowledged(t) PROVE TypeOK'
  BY <1>6, ExecutedMoves DEF Acknowledged, Accepted, Moved, TypeOK, sessionVars
<1>7. ASSUME NEW t \in Calls, AckExpires(t) PROVE TypeOK'
  BY <1>7, PlaceMoves DEF AckExpires, Moved, TypeOK, Places, sessionVars
<1>8. ASSUME NEW t \in Calls, Deregister(t) PROVE TypeOK'
  BY <1>8, ExecutedMoves DEF Deregister, Moved, TypeOK
<1>9. CASE DriverAnswers
  <2>1. call' \in [Calls -> CallState]
    BY <1>9, DriverMoves DEF Moved, TypeOK
  <2> QED BY <1>9, <2>1 DEF DriverAnswers, TypeOK
<1>10. CASE PumpStamps
  BY <1>10 DEF PumpStamps, TypeOK
<1>11. CASE RunEnds
  BY <1>11 DEF RunEnds, TypeOK
<1>12. CASE Crash
  BY <1>12, CrashLoses DEF Crash, TypeOK
<1>13. CASE Restart
  BY <1>13 DEF Restart, TypeOK, sessionVars
<1>14. CASE UNCHANGED vars
  BY <1>14 DEF vars, sessionVars, TypeOK
<1> QED BY <1>1, <1>2, <1>3, <1>4, <1>5, <1>6, <1>7, <1>8, <1>9, <1>10, <1>11, <1>12, <1>13, <1>14
        DEF Next, CallStep

(* Most steps leave the log, the finished deliveries and their receipts.    *)
Unrecorded ==
    /\ receipts' = receipts
    /\ \A t \in Calls : /\ call'[t].at = "done" <=> call[t].at = "done"
                        /\ call'[t].got = call[t].got

Recordless ==
    \/ \E t \in Calls : RunStart(t) \/ Register(t) \/ AdapterAnswer(t) \/ Acknowledged(t)
                         \/ AckExpires(t) \/ Deregister(t)
    \/ DriverAnswers \/ PumpStamps \/ RunEnds \/ Crash \/ Restart \/ UNCHANGED vars

LEMMA StepForms ==
    ASSUME [Next]_vars
    PROVE  Recordless \/ \E t \in Calls : Lookup(t) \/ Record(t)
BY DEF Next, CallStep, Recordless

LEMMA RecordlessSteps == TypeOK /\ Recordless => Unrecorded
<1> SUFFICES ASSUME TypeOK, Recordless PROVE Unrecorded
  OBVIOUS
<1>1. ASSUME NEW t \in Calls, RunStart(t) PROVE Unrecorded
  BY <1>1, ExecutedMoves DEF RunStart, Accepted, Moved, Unrecorded
<1>2. ASSUME NEW t \in Calls, Register(t) PROVE Unrecorded
  BY <1>2, PlaceMoves DEF Register, Moved, Unrecorded, Places
<1>3. ASSUME NEW t \in Calls, AdapterAnswer(t) PROVE Unrecorded
  BY <1>3, PlaceMoves DEF AdapterAnswer, Moved, Unrecorded, Places
<1>4. ASSUME NEW t \in Calls, Acknowledged(t) PROVE Unrecorded
  BY <1>4, ExecutedMoves DEF Acknowledged, Accepted, Moved, Unrecorded, sessionVars
<1>5. ASSUME NEW t \in Calls, AckExpires(t) PROVE Unrecorded
  BY <1>5, PlaceMoves DEF AckExpires, Moved, Unrecorded, Places, sessionVars
<1>6. ASSUME NEW t \in Calls, Deregister(t) PROVE Unrecorded
  BY <1>6, ExecutedMoves DEF Deregister, Moved, Unrecorded
<1>7. CASE DriverAnswers
  BY <1>7, DriverMoves DEF DriverAnswers, Moved, Unrecorded
<1>8. CASE PumpStamps
  BY <1>8 DEF PumpStamps, Unrecorded
<1>9. CASE RunEnds
  BY <1>9 DEF RunEnds, Unrecorded
<1>10. CASE Crash
  BY <1>10, CrashLoses DEF Crash, Unrecorded
<1>11. CASE Restart
  BY <1>11 DEF Restart, Unrecorded
<1>12. CASE UNCHANGED vars
  BY <1>12 DEF vars, Unrecorded
<1> QED BY <1>1, <1>2, <1>3, <1>4, <1>5, <1>6, <1>7, <1>8, <1>9, <1>10, <1>11, <1>12 DEF Recordless

(* What the log and the deliveries know of each other.                      *)
LEMMA RecordsStep ==
    ASSUME TypeOK, DoneHasReceipt, WriterIsDone, [Next]_vars
    PROVE  DoneHasReceipt' /\ WriterIsDone'
<1>1. CASE Unrecorded
  <2>1. \A c \in Commands : receipts[c] # None => receipts[c].by \in Calls
    BY DEF TypeOK, Receipt
  <2> QED BY <1>1, <2>1 DEF Unrecorded, DoneHasReceipt, WriterIsDone
<1>2. ASSUME NEW t \in Calls, Lookup(t)
      PROVE  DoneHasReceipt' /\ WriterIsDone'
  <2>1. \A c \in Commands : receipts[c] # None => receipts[c].by \in Calls
    BY DEF TypeOK, Receipt
  <2>2. call[t].at = "idle" /\ receipts' = receipts
    BY <1>2 DEF Lookup
  <2>3. \A u \in Calls : u # t => call'[u] = call[u]
    BY <1>2, LookupMoves DEF Moved
  <2>4. call'[t].at = "done" => call'[t].got # None
    BY <1>2, LookupMoves DEF Moved
  <2> QED BY <2>1, <2>2, <2>3, <2>4 DEF DoneHasReceipt, WriterIsDone
<1>3. ASSUME NEW t \in Calls, Record(t)
      PROVE  DoneHasReceipt' /\ WriterIsDone'
  <2> DEFINE c == CommandOf[t]
             mine == [by |-> t, ok |-> call[t].ok]
  <2>1. \A d \in Commands : receipts[d] # None => receipts[d].by \in Calls
    BY DEF TypeOK, Receipt
  <2>2. mine \in Receipt /\ mine # None /\ mine.by = t /\ c \in Commands
    BY <1>3, RecordMoves, NoneAssumption, CommandsAssumption
  <2>3. call'[t].at = "done" /\ call'[t].got = mine /\ \A u \in Calls : u # t => call'[u] = call[u]
    BY <1>3, RecordMoves DEF Moved
  <2> HIDE DEF mine
  <2>4. \/ receipts' = [receipts EXCEPT ![c] = IF @ = None THEN mine ELSE @]
        \/ StoreFails /\ receipts' = receipts
    BY <1>3 DEF Record, mine
  <2>5. \A d \in Commands : receipts'[d] \in {mine, receipts[d]}
    BY <2>2, <2>4 DEF TypeOK
  <2> HIDE DEF c
  <2>7. DoneHasReceipt'
    BY <2>2, <2>3 DEF DoneHasReceipt
  <2>8. ASSUME NEW d \in Commands, receipts'[d] # None
        PROVE  call'[receipts'[d].by].at = "done"
    BY <2>1, <2>2, <2>3, <2>5, <2>8 DEF WriterIsDone
  <2> QED BY <2>7, <2>8 DEF WriterIsDone
<1> QED BY <1>1, <1>2, <1>3, StepForms, RecordlessSteps

(* A store that works has a receipt of every command that came to its end.  *)
LEMMA RecordedStep ==
    ASSUME StoreWorks, TypeOK, DoneIsRecorded, [Next]_vars
    PROVE  DoneIsRecorded'
<1>1. CASE Unrecorded
  BY <1>1 DEF Unrecorded, DoneIsRecorded
<1>2. ASSUME NEW t \in Calls, Lookup(t)
      PROVE  DoneIsRecorded'
  <2>1. receipts' = receipts /\ \A u \in Calls : u # t => call'[u] = call[u]
    BY <1>2, LookupMoves DEF Lookup, Moved
  <2>2. call'[t].at = "done" => receipts[CommandOf[t]] # None
    BY <1>2, LookupMoves DEF Moved
  <2> QED BY <2>1, <2>2 DEF DoneIsRecorded
<1>3. ASSUME NEW t \in Calls, Record(t)
      PROVE  DoneIsRecorded'
  <2> DEFINE c == CommandOf[t]
             mine == [by |-> t, ok |-> call[t].ok]
  <2>1. mine # None /\ c \in Commands /\ \A u \in Calls : u # t => call'[u] = call[u]
    BY <1>3, RecordMoves, NoneAssumption, CommandsAssumption DEF Moved
  <2>2. receipts' = [receipts EXCEPT ![c] = IF @ = None THEN mine ELSE @]
    BY <1>3 DEF Record, StoreWorks
  <2> HIDE DEF mine
  <2>3. \A d \in Commands : receipts'[d] = IF d = c /\ receipts[c] = None THEN mine ELSE receipts[d]
    BY <2>1, <2>2 DEF TypeOK
  <2> HIDE DEF c
  <2>4. receipts'[c] # None
    BY <2>1, <2>3
  <2> QED BY <2>1, <2>3, <2>4, CommandsAssumption DEF DoneIsRecorded, c
<1> QED BY <1>1, <1>2, <1>3, StepForms, RecordlessSteps

(* Most steps leave the winner the winner and tell nobody else.             *)
WinnerStands ==
    /\ winner' = winner /\ (pending' => pending)
    /\ \A t \in effects' : t \in effects \/ CommandOf[t] \in Starts
    /\ \A t \in Calls : Told(t)' => Told(t)
    /\ stream' # "empty" => stream # "empty"

(* The step that makes a winner.                                            *)
Wins(t) == pending /\ AdapterAnswer(t)

(* A step of one delivery tells it nothing new, and no other anything.      *)
LEMMA ToldByMove ==
    ASSUME NEW t \in Calls, NEW p, NEW k, NEW q, NEW g, Moved(t, p, k, q, g),
           \/ p \notin {"waiting", "executed", "done"}
           \/ p = "executed" /\ k = FALSE
           \/ p = "executed" /\ call[t].at = "waiting"
           \/ p = "done" /\ call[t].at = "executed" /\ g.ok = call[t].ok
           \/ p = "done" /\ g.by # t
    PROVE  \A u \in Calls : Told(u)' => Told(u)
BY DEF Moved, Told

LEMMA WinnerStandsSteps ==
    ASSUME AnswerInv, [Next]_vars
    PROVE  WinnerStands \/ \E t \in Calls : Wins(t)
<1>1. ASSUME NEW t \in Calls, Lookup(t) PROVE WinnerStands
  <2> DEFINE c == CommandOf[t]
  <2>1. c \in Commands /\ receipts[c] \in Receipt \cup {None} /\ call[t].at = "idle"
    BY <1>1, CommandsAssumption DEF AnswerInv, TypeOK, Lookup
  <2>2. receipts[c] # None => receipts[c].by # t
    BY <2>1 DEF AnswerInv, WriterIsDone
  <2>3. PICK p \in {"done", "missed"}, g \in Receipt \cup {None} :
              /\ Moved(t, p, call[t].ok, Returned(CommandOf[t]), g)
              /\ p = "done" => g = receipts[CommandOf[t]] /\ g # None
    BY <1>1, LookupMoves DEF AnswerInv
  <2>4. p = "missed" \/ (p = "done" /\ g.by # t)
    BY <2>2, <2>3
  <2>5. \A u \in Calls : Told(u)' => Told(u)
    BY <2>3, <2>4, ToldByMove
  <2> QED BY <1>1, <2>5 DEF Lookup, WinnerStands, sessionVars
<1>2. ASSUME NEW t \in Calls, Record(t) PROVE WinnerStands
  <2>1. Moved(t, "done", call[t].ok, call[t].retry, [by |-> t, ok |-> call[t].ok])
    BY <1>2, RecordMoves DEF AnswerInv
  <2>2. \A u \in Calls : Told(u)' => Told(u)
    BY <1>2, <2>1, ToldByMove DEF Record
  <2> QED BY <1>2, <2>2 DEF Record, WinnerStands, sessionVars
<1>3. ASSUME NEW t \in Calls, RunStart(t) PROVE WinnerStands
  <2>1. \/ Moved(t, "executed", TRUE, call[t].retry, call[t].got)
        \/ Moved(t, "executed", FALSE, call[t].retry, call[t].got)
    BY <1>3, ExecutedMoves DEF AnswerInv, RunStart, Accepted
  <2>2. \A u \in Calls : Told(u)' => Told(u)
    BY <1>3, <2>1 DEF Moved, Told, RunStart
  <2> QED BY <1>3, <2>2 DEF RunStart, WinnerStands
<1>4. ASSUME NEW t \in Calls, Register(t) PROVE WinnerStands
  <2>1. Moved(t, "registered", call[t].ok, call[t].retry, call[t].got)
    BY <1>4, PlaceMoves DEF AnswerInv, Register, Places
  <2>2. \A u \in Calls : Told(u)' => Told(u)
    BY <2>1, ToldByMove
  <2> QED BY <1>4, <2>2 DEF Register, WinnerStands
<1>5. ASSUME NEW t \in Calls, AdapterAnswer(t), ~pending PROVE WinnerStands
  <2>1. Moved(t, "refused", call[t].ok, call[t].retry, call[t].got)
    BY <1>5, PlaceMoves DEF AnswerInv, AdapterAnswer, Places
  <2>2. \A u \in Calls : Told(u)' => Told(u)
    BY <2>1, ToldByMove
  <2> QED BY <1>5, <2>2 DEF AdapterAnswer, WinnerStands
<1>6. ASSUME NEW t \in Calls, Acknowledged(t) PROVE WinnerStands
  <2>1. \/ Moved(t, "executed", TRUE, call[t].retry, call[t].got)
        \/ Moved(t, "executed", FALSE, call[t].retry, call[t].got)
    BY <1>6, ExecutedMoves DEF AnswerInv, Acknowledged, Accepted
  <2>2. \A u \in Calls : Told(u)' => Told(u)
    BY <1>6, <2>1 DEF Acknowledged, Moved, Told
  <2> QED BY <1>6, <2>2 DEF Acknowledged, WinnerStands, sessionVars
<1>7. ASSUME NEW t \in Calls, AckExpires(t) PROVE WinnerStands
  <2>1. Moved(t, "refused", call[t].ok, call[t].retry, call[t].got)
    BY <1>7, PlaceMoves DEF AnswerInv, AckExpires, Places
  <2>2. \A u \in Calls : Told(u)' => Told(u)
    BY <2>1, ToldByMove
  <2> QED BY <1>7, <2>2 DEF AckExpires, WinnerStands, sessionVars
<1>8. ASSUME NEW t \in Calls, Deregister(t) PROVE WinnerStands
  <2>1. Moved(t, "executed", FALSE, call[t].retry, call[t].got)
    BY <1>8, ExecutedMoves DEF AnswerInv, Deregister
  <2>2. \A u \in Calls : Told(u)' => Told(u)
    BY <2>1 DEF Moved, Told
  <2> QED BY <1>8, <2>2 DEF Deregister, WinnerStands
<1>9. CASE DriverAnswers
  <2>1. \A u \in Calls : Told(u)' => Told(u)
    BY <1>9, DriverMoves DEF AnswerInv, Moved, Told
  <2> QED BY <1>9, <2>1 DEF DriverAnswers, WinnerStands
<1>10. CASE PumpStamps
  BY <1>10 DEF PumpStamps, WinnerStands, Told
<1>11. CASE RunEnds
  BY <1>11 DEF RunEnds, WinnerStands, Told
<1>12. CASE Crash
  <2>1. \A u \in Calls : Told(u)' => Told(u)
    BY <1>12, CrashLoses DEF AnswerInv, Told
  <2> QED BY <1>12, <2>1 DEF Crash, WinnerStands
<1>13. CASE Restart
  BY <1>13 DEF Restart, WinnerStands, Told, sessionVars
<1>14. CASE UNCHANGED vars
  BY <1>14 DEF vars, WinnerStands, Told, sessionVars
<1> QED BY <1>1, <1>2, <1>3, <1>4, <1>5, <1>6, <1>7, <1>8, <1>9, <1>10, <1>11, <1>12, <1>13, <1>14
        DEF Next, CallStep, Wins

LEMMA WinnerStep ==
    ASSUME AnswerInv, [Next]_vars
    PROVE  ToldIsWinner' /\ EffectIsWinner' /\ AnswerHasWinner'
<1>1. CASE WinnerStands
  BY <1>1 DEF AnswerInv, WinnerStands, ToldIsWinner, EffectIsWinner, AnswerHasWinner
<1>2. ASSUME NEW t \in Calls, Wins(t)
      PROVE  ToldIsWinner' /\ EffectIsWinner' /\ AnswerHasWinner'
  <2>1. \A u \in Calls : ~Told(u)
    BY <1>2 DEF AnswerInv, ToldIsWinner, Wins
  <2>2. \A u \in effects : CommandOf[u] \in Starts
    BY <1>2 DEF AnswerInv, EffectIsWinner, Wins
  <2>3. winner' = t /\ pending' = FALSE /\ effects' = effects \cup {t}
    BY <1>2 DEF Wins, AdapterAnswer
  <2>4. \A u \in Calls : u # t => call'[u] = call[u]
    BY <1>2, PlaceMoves DEF AnswerInv, Wins, AdapterAnswer, Moved, Places
  <2>5. \A u \in Calls : Told(u)' => u = t
    BY <2>1, <2>4 DEF Told
  <2> QED BY <2>2, <2>3, <2>5 DEF ToldIsWinner, EffectIsWinner, AnswerHasWinner
<1> QED BY <1>1, <1>2, WinnerStandsSteps

LEMMA AnswerStep == AnswerInv /\ [Next]_vars => AnswerInv'
BY TypeStep, RecordsStep, WinnerStep DEF AnswerInv

(* The bookkeeping of the deliveries holds for every instance, whatever the *)
(* store does.                                                              *)
THEOREM AnswersKeptStraight == Spec => []AnswerInv
<1>1. Init => AnswerInv
  BY InitHolds
<1>2. AnswerInv /\ [Next]_vars => AnswerInv'
  BY AnswerStep
<1> QED BY <1>1, <1>2, PTL DEF Spec

(* The type invariant needs no assumption on the store.                     *)
THEOREM DispatchTypes == Spec => []TypeOK
<1>1. Init => TypeOK
  BY InitHolds DEF AnswerInv
<1> QED BY <1>1, TypeStep, PTL DEF Spec

(* However many deliveries race for the request, one takes it and only that *)
(* one is told so: RuntimeError for the others (approval_answer).           *)
THEOREM RequestAnsweredOnce == Spec => []AnsweredOnce
<1>1. AnswerInv => AnsweredOnce
  <2> SUFFICES ASSUME AnswerInv PROVE AnsweredOnce
    OBVIOUS
  <2>1. effects \subseteq Calls
    BY DEF AnswerInv, TypeOK
  <2>2. \A t, u \in effects : CommandOf[t] \notin Starts /\ CommandOf[u] \notin Starts => t = u
    BY DEF AnswerInv, EffectIsWinner
  <2>3. ASSUME NEW t \in Calls, CommandOf[t] \notin Starts, call[t].at = "done",
               call[t].got.by = t, call[t].got.ok
        PROVE  t = winner
    <3>1. call[t].got \in Receipt
      BY <2>3 DEF AnswerInv, TypeOK, DoneHasReceipt, CallState
    <3>2. call[t].got.ok = TRUE
      BY <2>3, <3>1 DEF Receipt
    <3> QED BY <2>3, <3>2 DEF AnswerInv, ToldIsWinner, Told
  <2> QED BY <2>2, <2>3 DEF AnsweredOnce
<1> QED BY <1>1, AnswersKeptStraight, PTL

-----------------------------------------------------------------------------
(* Retries.                                                                 *)

LEMMA RetryStep ==
    ASSUME StoreWorks, AnswerInv, RetryInv, [Next]_vars
    PROVE  RetryInv'
<1> USE DEF AnswerInv, RetryInv
<1>0. DoneIsRecorded'
  BY RecordedStep
<1>1. ASSUME NEW t \in Calls, Lookup(t) PROVE EarlyIsQuiet' /\ RetryIsQuiet'
  <2>1. call[t].at = "idle" /\ t \notin effects /\ effects' = effects /\ receipts' = receipts
    BY <1>1 DEF Lookup, EarlyIsQuiet, Early
  <2>2. Returned(CommandOf[t]) => receipts[CommandOf[t]] # None
    BY CommandsAssumption DEF Returned, DoneIsRecorded
  <2>3. \A u \in Calls : u # t => call'[u] = call[u]
    BY <1>1, LookupMoves DEF Moved
  <2>4. call'[t].retry => call'[t].at = "done" /\ call'[t].got = receipts[CommandOf[t]]
    BY <1>1, <2>2, LookupMoves DEF Moved, StoreWorks
  <2> QED BY <2>1, <2>3, <2>4 DEF EarlyIsQuiet, RetryIsQuiet
<1>2. ASSUME NEW t \in Calls, Record(t) PROVE EarlyIsQuiet' /\ RetryIsQuiet'
  <2>1. /\ call[t].at = "executed" /\ effects' = effects
        /\ \A c \in Commands : receipts[c] # None => receipts'[c] = receipts[c]
    BY <1>2 DEF Record, TypeOK
  <2>2. /\ call'[t].at = "done" /\ call'[t].retry = call[t].retry
        /\ \A u \in Calls : u # t => call'[u] = call[u]
    BY <1>2, RecordMoves DEF Moved
  <2>3. ~call[t].retry
    BY <2>1 DEF RetryIsQuiet
  <2>4. \A u \in Calls : call[u].at = "done" => receipts'[CommandOf[u]] = receipts[CommandOf[u]]
    BY <2>1, CommandsAssumption DEF DoneIsRecorded
  <2> QED BY <2>1, <2>2, <2>3, <2>4 DEF EarlyIsQuiet, Early, RetryIsQuiet
<1>3. ASSUME NEW t \in Calls, RunStart(t) PROVE EarlyIsQuiet' /\ RetryIsQuiet'
  <2>1. \/ Moved(t, "executed", TRUE, call[t].retry, call[t].got)
        \/ Moved(t, "executed", FALSE, call[t].retry, call[t].got)
    BY <1>3, ExecutedMoves DEF RunStart, Accepted
  <2>2. ~call[t].retry
    BY <1>3 DEF RunStart, RetryIsQuiet
  <2> QED BY <1>3, <2>1, <2>2 DEF RunStart, Moved, EarlyIsQuiet, Early, RetryIsQuiet
<1>4. ASSUME NEW t \in Calls, Register(t) PROVE EarlyIsQuiet' /\ RetryIsQuiet'
  BY <1>4, PlaceMoves DEF Register, Moved, Places, EarlyIsQuiet, Early, RetryIsQuiet
<1>5. ASSUME NEW t \in Calls, AdapterAnswer(t) PROVE EarlyIsQuiet' /\ RetryIsQuiet'
  <2>1. ~call[t].retry
    BY <1>5 DEF AdapterAnswer, RetryIsQuiet
  <2> QED BY <1>5, <2>1, PlaceMoves
          DEF AdapterAnswer, Moved, Places, EarlyIsQuiet, Early, RetryIsQuiet
<1>6. ASSUME NEW t \in Calls, Acknowledged(t) PROVE EarlyIsQuiet' /\ RetryIsQuiet'
  <2>1. \/ Moved(t, "executed", TRUE, call[t].retry, call[t].got)
        \/ Moved(t, "executed", FALSE, call[t].retry, call[t].got)
    BY <1>6, ExecutedMoves DEF Acknowledged, Accepted
  <2> QED BY <1>6, <2>1 DEF Acknowledged, Moved, EarlyIsQuiet, Early, RetryIsQuiet, sessionVars
<1>7. ASSUME NEW t \in Calls, AckExpires(t) PROVE EarlyIsQuiet' /\ RetryIsQuiet'
  BY <1>7, PlaceMoves DEF AckExpires, Moved, Places, EarlyIsQuiet, Early, RetryIsQuiet, sessionVars
<1>8. ASSUME NEW t \in Calls, Deregister(t) PROVE EarlyIsQuiet' /\ RetryIsQuiet'
  <2>1. Moved(t, "executed", FALSE, call[t].retry, call[t].got)
    BY <1>8, ExecutedMoves DEF Deregister
  <2> QED BY <1>8, <2>1 DEF Deregister, Moved, EarlyIsQuiet, Early, RetryIsQuiet
<1>9. ASSUME DriverAnswers PROVE EarlyIsQuiet' /\ RetryIsQuiet'
  BY <1>9, DriverMoves DEF DriverAnswers, Moved, EarlyIsQuiet, Early, RetryIsQuiet
<1>10. ASSUME PumpStamps PROVE EarlyIsQuiet' /\ RetryIsQuiet'
  BY <1>10 DEF PumpStamps, EarlyIsQuiet, RetryIsQuiet
<1>11. ASSUME RunEnds PROVE EarlyIsQuiet' /\ RetryIsQuiet'
  BY <1>11 DEF RunEnds, EarlyIsQuiet, RetryIsQuiet
<1>12. ASSUME Crash PROVE EarlyIsQuiet' /\ RetryIsQuiet'
  <2>1. receipts' = receipts /\ effects' = effects
    BY <1>12 DEF Crash
  <2>2. \A t \in Calls : call'[t].at \in Early => call[t].at \in Early
    BY <1>12, CrashLoses DEF Early
  <2>3. \A t \in Calls : call'[t].retry => call[t].retry /\ call'[t].got = call[t].got
    BY <1>12, CrashLoses
  <2>4. \A t \in Calls : call[t].at = "done" => call'[t].at = "done"
    BY <1>12, CrashLoses
  <2> QED BY <2>1, <2>2, <2>3, <2>4 DEF EarlyIsQuiet, RetryIsQuiet
<1>13. ASSUME Restart PROVE EarlyIsQuiet' /\ RetryIsQuiet'
  BY <1>13 DEF Restart, EarlyIsQuiet, RetryIsQuiet, sessionVars
<1>14. ASSUME UNCHANGED vars PROVE EarlyIsQuiet' /\ RetryIsQuiet'
  BY <1>14 DEF vars, EarlyIsQuiet, RetryIsQuiet, sessionVars
<1> QED BY <1>0, <1>1, <1>2, <1>3, <1>4, <1>5, <1>6, <1>7, <1>8, <1>9, <1>10, <1>11, <1>12, <1>13, <1>14
        DEF Next, CallStep

(* A retry changes nothing and gets the recorded receipt, over crashes too. *)
THEOREM RetriesAreQuiet == ASSUME StoreWorks PROVE Spec => []RetryIsQuiet
<1>1. Init => RetryInv
  BY InitHolds
<1>2. AnswerInv /\ RetryInv /\ [Next]_vars => RetryInv'
  BY RetryStep
<1>3. RetryInv => RetryIsQuiet
  BY DEF RetryInv
<1> QED BY <1>1, <1>2, <1>3, AnswersKeptStraight, PTL DEF Spec

(* A recorded receipt stands, whether or not the store fails now and then:  *)
(* INSERT OR IGNORE.                                                        *)
THEOREM ReceiptsStand == Spec => ReceiptStands
<1>1. TypeOK /\ [Next]_vars =>
        [\A c \in Commands : receipts[c] # None => receipts'[c] = receipts[c]]_vars
  <2> SUFFICES ASSUME TypeOK, Next
               PROVE  \A c \in Commands : receipts[c] # None => receipts'[c] = receipts[c]
    OBVIOUS
  <2>1. ASSUME NEW t \in Calls, Record(t)
        PROVE  \A c \in Commands : receipts[c] # None => receipts'[c] = receipts[c]
    BY <2>1 DEF Record, TypeOK
  <2>2. receipts' = receipts \/ \E t \in Calls : Record(t)
    BY DEF Next, CallStep, Lookup, RunStart, Register, AdapterAnswer, Acknowledged, AckExpires,
           Deregister, DriverAnswers, PumpStamps, RunEnds, Crash, Restart
  <2> QED BY <2>1, <2>2
<1> QED BY <1>1, DispatchTypes, PTL DEF Spec, ReceiptStands

(* Once the winner's consumer is registered, only a crash or a refused      *)
(* delivery of the same consumer takes the credit away.                     *)
THEOREM CreditIsKept == Spec => WinnerKeepsCredit
<1> DEFINE Kept == CreditIsTaken =>
                      \/ stream' = "recorded" /\ answeredBy' = ConsumerOf[winner]
                      \/ ~up'
                      \/ \E t \in Calls : ConsumerOf[t] = ConsumerOf[winner] /\ LeavesRefusal(t)
<1>1. AnswerInv /\ [Next]_vars => [Kept]_vars
  <2> SUFFICES ASSUME AnswerInv, Next, CreditIsTaken PROVE Kept
    OBVIOUS
  <2>1. winner \in Calls /\ ConsumerOf[winner] # None /\ answers = ConsumerOf[winner] /\ answers' # answers
    BY ConsumersAssumption DEF AnswerInv, AnswerHasWinner, CreditIsTaken
  <2>2. \/ PumpStamps \/ Crash
        \/ \E t \in Calls : Register(t) \/ Deregister(t)
    BY <2>1 DEF Next, CallStep, Lookup, Record, RunStart, AdapterAnswer, Acknowledged, AckExpires,
                DriverAnswers, RunEnds, Restart, sessionVars
  <2>3. CASE PumpStamps
    BY <2>1, <2>3 DEF PumpStamps
  <2>4. CASE Crash
    BY <2>4 DEF Crash
  <2>5. ASSUME NEW t \in Calls, Register(t) PROVE FALSE
    BY <2>1, <2>5 DEF Register
  <2>6. ASSUME NEW t \in Calls, Deregister(t) PROVE Kept
    <3>1. ConsumerOf[t] = ConsumerOf[winner]
      BY <2>1, <2>6 DEF Deregister
    <3>2. call[t].at = "refused" /\ call'[t].at = "executed"
      BY <2>6, ExecutedMoves DEF Deregister, Moved, AnswerInv
    <3> QED BY <3>1, <3>2 DEF LeavesRefusal
  <2> QED BY <2>2, <2>3, <2>4, <2>5, <2>6
<1> QED BY <1>1, AnswersKeptStraight, PTL DEF Spec, WinnerKeepsCredit
=============================================================================
