------------------------- MODULE MCCommandDispatch -------------------------
(* Two deliveries of one run.start and of one answer by consumer a, and an  *)
(* answer by consumer b.                                                    *)
EXTENDS CommandDispatch, TLC

CONSTANTS t1, t2, t3, t4, t5, start, answerA, answerB, a, b

MCCommandOf == (t1 :> start) @@ (t2 :> start) @@ (t3 :> answerA) @@ (t4 :> answerA) @@ (t5 :> answerB)
MCConsumerOf == [t \in Calls |-> IF t = t5 THEN b ELSE a]
=============================================================================
