--------------------------- MODULE OrderLifecycle ---------------------------
(***************************************************************************)
(* What a client of an order may rely on, without queues, offsets or       *)
(* restarts: the order names the validators it waits for, takes the first  *)
(* answer of each, closes when none is missing, and its result stays until *)
(* the assertions of the order are received again.                         *)
(***************************************************************************)
EXTENDS Naturals

CONSTANTS Order, Pair, Outcome, NoAnswer

VARIABLES
  expected,       \* order -> pairs it waits for
  answers,        \* order -> pair -> outcome or NoAnswer
  result          \* order -> "open", "VALIDATED" or "VALIDATED_WITH_ERRORS"

vars == <<expected, answers, result>>

Init ==
  /\ expected = [o \in Order |-> {}]
  /\ answers = [o \in Order |-> [p \in Pair |-> NoAnswer]]
  /\ result = [o \in Order |-> "open"]

Expect(o, S) ==
  /\ result[o] = "open"
  /\ expected' = [expected EXCEPT ![o] = S]
  /\ UNCHANGED <<answers, result>>

Record(o, p, outcome) ==
  /\ answers[o][p] = NoAnswer
  /\ answers' = [answers EXCEPT ![o][p] = outcome]
  /\ UNCHANGED <<expected, result>>

Close(o) ==
  /\ \A p \in expected[o] : answers[o][p] # NoAnswer
  /\ result' = [result EXCEPT ![o] =
                  IF \E p \in Pair : answers[o][p] = "ERROR"
                  THEN "VALIDATED_WITH_ERRORS" ELSE "VALIDATED"]
  /\ UNCHANGED <<expected, answers>>

\* The assertions arrive, for the first time or again: everything starts over.
Restart(o) ==
  /\ expected' = [expected EXCEPT ![o] = {}]
  /\ answers' = [answers EXCEPT ![o] = [p \in Pair |-> NoAnswer]]
  /\ result' = [result EXCEPT ![o] = "open"]

Next ==
  \E o \in Order :
    \/ \E S \in SUBSET Pair : Expect(o, S)
    \/ \E p \in Pair, outcome \in Outcome : Record(o, p, outcome)
    \/ Close(o)
    \/ Restart(o)

Spec == Init /\ [][Next]_vars
=============================================================================
