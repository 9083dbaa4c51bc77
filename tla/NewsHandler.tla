----------------------------- MODULE NewsHandler -----------------------------
(***************************************************************************)
(* What both validation modes share in news-handler: the publication       *)
(* coroutines of the HTTP API, the one consumer of the responses topic     *)
(* with its offsets, the crash of the process, and the recording of one    *)
(* validation.  A flow module adds the rest of the handlers.               *)
(*                                                                         *)
(* A handler is cut at its writes: every write to MongoDB or Kafka is one  *)
(* step, so that the publication coroutine, the auto-commit timer and a    *)
(* crash can come between any two of them.                                 *)
(***************************************************************************)
EXTENDS OrderDocument, Sequences

CONSTANTS
  Order,          \* order ids
  Paths,          \* publication endpoints in use: "text", "assertions"
  MaxFaults,      \* bound: crashes, failed sends, events the workers lose
  MaxRepeats      \* bound: answers a worker sends again after its own restart

ASSUME PathsAssumption == Paths \subseteq {"text", "assertions"}
ASSUME FaultAssumption == MaxFaults \in Nat /\ MaxRepeats \in Nat

VARIABLES
  orders,         \* order id -> document
  rows,           \* keys <<order, pair>> of the validations collection
  publisher,      \* order id -> progress of the coroutine that publishes it
  generation,     \* order id -> state of its generate_assertions request
  topic,          \* the responses topic, as a log
  position,       \* messages handed to the consumer loop
  committed,      \* offset the consumer last started from
  consumer,       \* the handler in execution
  handled,        \* messages whose handler has run to its end at least once
  faults,         \* how many of those happened
  repeats         \* how many answers were sent again

\* What a step of a handler that only writes the document leaves alone.
outsideVars == <<rows, publisher, generation, topic, position, committed, faults, repeats>>

handlerVars == <<orders, consumer, handled, outsideVars>>

-----------------------------------------------------------------------------
Generated(o, n) == [action |-> "assertions_generated", order |-> o, count |-> n]
NotGenerated(o) == [action |-> "assertions_not_generated", order |-> o]

Idle == [at |-> "idle"]

\* The handler of msg is in execution, at the step named by label.
Handling(label, action) == consumer.at = label /\ consumer.msg.action = action

Continue(label) == consumer' = [consumer EXCEPT !.at = label]

\* The handler returns, or its exception is caught and logged.
Return ==
  /\ consumer' = Idle
  /\ handled' = IF position > handled THEN position ELSE handled

\* Something goes wrong, within the bound.
Fault == faults < MaxFaults /\ faults' = faults + 1

\* A worker answers a request it answered before.
SendAgain == repeats < MaxRepeats /\ repeats' = repeats + 1

Set(o, doc) == orders' = [orders EXCEPT ![o] = doc]

-----------------------------------------------------------------------------
HandlerInit ==
  /\ orders = [o \in Order |-> Absent]
  /\ rows = {}
  /\ publisher = [o \in Order |-> "none"]
  /\ generation = [o \in Order |-> "none"]
  /\ topic = << >>
  /\ position = 0
  /\ committed = 0
  /\ consumer = Idle
  /\ handled = 0
  /\ faults = 0
  /\ repeats = 0

(* publish_new: insert the order, send the request, then mark it requested.  *)

PublishNew(o, mode) ==
  /\ "text" \in Paths
  /\ publisher[o] = "none"
  /\ Set(o, [Absent EXCEPT !.status = "CREATED", !.mode = mode])
  /\ publisher' = [publisher EXCEPT ![o] = "saved"]
  /\ UNCHANGED <<rows, generation, topic, position, committed, consumer,
                 handled, faults, repeats>>

SendGenerate(o) ==
  /\ publisher[o] = "saved"
  /\ generation' = [generation EXCEPT ![o] = "queued"]
  /\ publisher' = [publisher EXCEPT ![o] = "sent"]
  /\ UNCHANGED <<orders, rows, topic, position, committed, consumer,
                 handled, faults, repeats>>

\* The last write of publish_new is not conditional on the current status.
MarkRequested(o) ==
  /\ publisher[o] = "sent"
  /\ Set(o, [orders[o] EXCEPT !.status = "ASSERTIONS_REQUESTED"])
  /\ publisher' = [publisher EXCEPT ![o] = "done"]
  /\ UNCHANGED <<rows, generation, topic, position, committed, consumer,
                 handled, faults, repeats>>

(* publish_with_assertions: insert the order, then answer as the generator.  *)

PublishWithAssertions(o, mode) ==
  /\ "assertions" \in Paths
  /\ publisher[o] = "none"
  /\ Set(o, [Absent EXCEPT !.status = "ASSERTIONS_REQUESTED", !.mode = mode,
                           !.assertions = TRUE])
  /\ publisher' = [publisher EXCEPT ![o] = "given"]
  /\ UNCHANGED <<rows, generation, topic, position, committed, consumer,
                 handled, faults, repeats>>

SendGiven(o, n) ==
  /\ publisher[o] = "given"
  /\ topic' = Append(topic, Generated(o, n))
  /\ publisher' = [publisher EXCEPT ![o] = "done"]
  /\ UNCHANGED <<orders, rows, generation, position, committed, consumer,
                 handled, faults, repeats>>

(* generate-asertions answers a request, again if it restarts before its     *)
(* offset is committed; the model may extract something else the second time.*)

Generate(o, m) ==
  /\ \/ generation[o] = "queued" /\ repeats' = repeats
     \/ generation[o] = "answered" /\ SendAgain
  /\ generation' = [generation EXCEPT ![o] = "answered"]
  /\ topic' = Append(topic, m)
  /\ UNCHANGED <<orders, rows, publisher, position, committed, consumer,
                 handled, faults>>

GenerateAssertions(o) ==
  \/ \E n \in Assertion : Generate(o, Generated(o, n))
  \/ Generate(o, NotGenerated(o))

-----------------------------------------------------------------------------
(* The consumer *)

Fetch ==
  /\ consumer = Idle
  /\ position < Len(topic)
  /\ position' = position + 1
  /\ consumer' = [at |-> "start", msg |-> topic[position + 1], todo |-> {}, plan |-> {}]
  /\ UNCHANGED <<orders, rows, publisher, generation, topic, committed,
                 handled, faults, repeats>>

\* The process dies with its coroutines and restarts from the stored offset.
\* Auto-commit stores the position of the loop at moments of its own, the
\* message in hand included, so any offset since the last restart may be it.
Crash ==
  /\ Fault
  /\ consumer' = Idle
  /\ \E offset \in committed..position : position' = offset /\ committed' = offset
  /\ publisher' = [o \in Order |-> IF publisher[o] \in {"saved", "sent", "given"}
                                   THEN "lost" ELSE publisher[o]]
  /\ UNCHANGED <<orders, rows, generation, topic, handled, repeats>>

AssertionsNotGenerated ==
  /\ Handling("start", "assertions_not_generated")
  /\ Set(consumer.msg.order,
         [orders[consumer.msg.order] EXCEPT !.status = "ASSERTIONS_NOT_AVAILABLE"])
  /\ Return
  /\ UNCHANGED outsideVars

-----------------------------------------------------------------------------
(* One validation, once the order o it belongs to is known: the answer is    *)
(* written into the document, a row is inserted, the missing answers are     *)
(* counted and, when none is missing, the order is closed.                   *)

\* Mutant: an error may still be replaced.
AlreadyCompleted(o) == orders[o].validations[consumer.msg.pair] = "COMPLETED"

\* Mutant: answers only count while the order says that it waits for them.
AlreadyDoneOrNotWaiting(o) ==
  consumer.msg.pair \in Done(orders[o]) \/ orders[o].status # "VALIDATION_PENDING"

AlreadyDone(o) == consumer.msg.pair \in Done(orders[o])

IgnoreDuplicate(o) ==
  /\ AlreadyDone(o)
  /\ Return
  /\ UNCHANGED <<orders, rows, publisher, generation, topic, position,
                 committed, faults, repeats>>

\* Mutant: the count of missing answers is decremented with every answer.
RecordAnswerAndDecrement(o) ==
  /\ ~ AlreadyDone(o)
  /\ Set(o, [orders[o] EXCEPT !.validations[consumer.msg.pair] = consumer.msg.outcome,
                              !.validators_pending = IF @ > 0 THEN @ - 1 ELSE 0])
  /\ Continue("row")
  /\ UNCHANGED <<outsideVars, handled>>

RecordAnswer(o) ==
  /\ ~ AlreadyDone(o)
  /\ Set(o, [orders[o] EXCEPT !.validations[consumer.msg.pair] = consumer.msg.outcome])
  /\ Continue("row")
  /\ UNCHANGED <<outsideVars, handled>>

\* The unique index makes a second insertion raise, which ends the handler.
LogValidation(o) ==
  /\ consumer.at = "row"
  /\ IF <<o, consumer.msg.pair>> \in rows
     THEN Return /\ rows' = rows
     ELSE /\ rows' = rows \cup {<<o, consumer.msg.pair>>}
          /\ Continue("count")
          /\ handled' = handled
  /\ UNCHANGED <<orders, publisher, generation, topic, position, committed,
                 faults, repeats>>

\* Writes n as the count and closes if there is nothing to wait for.
CountAs(o, n, nothing) ==
  /\ consumer.at = "count"
  /\ Set(o, [orders[o] EXCEPT !.validators_pending = n])
  /\ IF nothing THEN Continue("close") /\ handled' = handled ELSE Return
  /\ UNCHANGED outsideVars

\* Mutant: numbers are compared instead of validators.
CountByDifference(o) ==
  LET n == Cardinality(orders[o].validators) - Cardinality(Done(orders[o]))
  IN  CountAs(o, n, n <= 0)

\* Mutant: only the assertion of the answer is looked at.
CountOfAssertion(o) ==
  LET of == {p \in Missing(orders[o]) : p[1] = consumer.msg.pair[1]}
  IN  CountAs(o, Cardinality(of), of = {})

\* Mutant: the document read before the answer was written is counted.
CountOfStaleDocument(o) ==
  CountAs(o, Cardinality(Missing(orders[o]) \cup {consumer.msg.pair}), Missing(orders[o]) = {})

\* Mutant: an error does not close the order.
CountOfCompleted(o) ==
  CountAs(o, Cardinality(Missing(orders[o])),
          Missing(orders[o]) = {} /\ consumer.msg.outcome = "COMPLETED")

CountPending(o) ==
  CountAs(o, Cardinality(Missing(orders[o])), Missing(orders[o]) = {})

CloseOrder(o) ==
  /\ consumer.at = "close"
  /\ Set(o, [orders[o] EXCEPT !.status = TerminalStatus(orders[o])])
  /\ Return
  /\ UNCHANGED outsideVars

-----------------------------------------------------------------------------
(* Properties of the documents, whichever flow writes them *)

\* An order is reported as validated only when every validator its document
\* expects has answered, whatever faults, redeliveries and late publication
\* writes happened on the way.
ClosedMeansExpectedDone ==
  \A o \in Order : orders[o].status \in Terminal => Missing(orders[o]) = {}

\* validators_pending never promises fewer missing answers than there are, so
\* a client that polls it does not stop early.
PendingNeverUnderstates ==
  \A o \in Order : Cardinality(Missing(orders[o])) <= orders[o].validators_pending

\* A step keeps the answers of an order or drops them all with a reset.
AnswersAreKept ==
  \A o \in Order :
    \/ \A p \in Done(orders[o]) : orders'[o].validations[p] = orders[o].validations[p]
    \/ Done(orders'[o]) = {} /\ orders'[o].status = "DOCUMENT_CREATED"

\* The first answer of a validator to an assertion is the one that counts: it
\* is not replaced by a later or a redelivered answer, only dropped together
\* with all others when the assertions of the order are received again.
FirstAnswerWins == [][AnswersAreKept]_handlerVars

-----------------------------------------------------------------------------
\* The steps of the shared part that do not depend on the flow.
HandlerNext(mode) ==
  \/ \E o \in Order :
       \/ PublishNew(o, mode)
       \/ SendGenerate(o)
       \/ MarkRequested(o)
       \/ PublishWithAssertions(o, mode)
       \/ \E n \in Assertion : SendGiven(o, n)
       \/ GenerateAssertions(o)
  \/ Fetch
  \/ Crash
  \/ AssertionsNotGenerated
=============================================================================
