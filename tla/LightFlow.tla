------------------------------ MODULE LightFlow ------------------------------
(***************************************************************************)
(* LIGHT orders: news-handler sends each assertion straight to the healthy *)
(* validators of its category, and the validators answer through Kafka.    *)
(***************************************************************************)
EXTENDS NewsHandler

CONSTANT
  Eligible        \* <<a, v>>: v is an active automatic validator of a's category

ASSUME EligibleAssumption == Eligible \subseteq Pair

VARIABLE
  requests        \* <<order, pair>> -> light_validation_requests not answered yet

vars == <<handlerVars, requests>>

Completed(o, p, outcome) ==
  [action |-> "light_validation_completed", order |-> o, pair |-> p, outcome |-> outcome]

Init == HandlerInit /\ requests = [r \in Order \X Pair |-> 0]

-----------------------------------------------------------------------------
(* assertions_generated *)

\* start_light_flow resets the order.  Which validators pass the health check
\* is decided once per validator for the whole dispatch.
StartLightFlow ==
  /\ Handling("start", "assertions_generated")
  /\ Set(consumer.msg.order, DocumentCreated(orders[consumer.msg.order]))
  /\ \E healthy \in SUBSET Validator :
       LET chosen == {p \in Eligible : p[1] <= consumer.msg.count /\ p[2] \in healthy}
       IN  consumer' = [consumer EXCEPT !.at = "dispatch", !.todo = chosen, !.plan = chosen]
  /\ UNCHANGED <<outsideVars, handled, requests>>

SendLightRequest ==
  /\ consumer.at = "dispatch"
  /\ \E p \in consumer.todo :
       /\ requests' = [requests EXCEPT ![<<consumer.msg.order, p>>] = @ + 1]
       /\ consumer' = [consumer EXCEPT !.todo = @ \ {p}]
  /\ UNCHANGED <<orders, rows, publisher, generation, topic, position,
                 committed, handled, faults, repeats>>

\* Kafka refuses a request: the exception ends the dispatch where it was.
LightRequestFails ==
  /\ consumer.at = "dispatch"
  /\ consumer.todo # {}
  /\ Fault
  /\ Return
  /\ UNCHANGED <<orders, rows, publisher, generation, topic, position,
                 committed, repeats, requests>>

\* Mutant: an order without validators waits as well.
FinishDispatchAlwaysPending ==
  /\ consumer.at = "dispatch"
  /\ consumer.todo = {}
  /\ Set(consumer.msg.order,
         [orders[consumer.msg.order] EXCEPT
            !.validators = consumer.plan,
            !.validation_requests = consumer.plan,
            !.validators_pending = Cardinality(consumer.plan),
            !.status = "VALIDATION_PENDING"])
  /\ Return
  /\ UNCHANGED <<outsideVars, requests>>

\* Only after the last request does the document learn whom to wait for.
FinishDispatch ==
  /\ consumer.at = "dispatch"
  /\ consumer.todo = {}
  /\ Set(consumer.msg.order,
         [orders[consumer.msg.order] EXCEPT
            !.validators = consumer.plan,
            !.validation_requests = consumer.plan,
            !.validators_pending = Cardinality(consumer.plan),
            !.status = IF consumer.plan = {} THEN "NO_VALIDATORS_AVAILABLE"
                                             ELSE "VALIDATION_PENDING"])
  /\ Return
  /\ UNCHANGED <<outsideVars, requests>>

(* light_validation_completed *)

StartLightValidation ==
  /\ Handling("start", "light_validation_completed")
  /\ IgnoreDuplicate(consumer.msg.order) \/ RecordAnswer(consumer.msg.order)
  /\ UNCHANGED requests

FinishLightValidation ==
  /\ consumer.at \in {"row", "count", "close"}
  /\ \/ LogValidation(consumer.msg.order)
     \/ CountPending(consumer.msg.order)
     \/ CloseOrder(consumer.msg.order)
  /\ UNCHANGED requests

-----------------------------------------------------------------------------
(* A validator answers every request, with an error when its run failed, and *)
(* may answer again after a restart of its own.                              *)

Answer(o, p) ==
  /\ \/ /\ requests[<<o, p>>] > 0
        /\ requests' = [requests EXCEPT ![<<o, p>>] = @ - 1]
        /\ repeats' = repeats
     \/ /\ \E i \in DOMAIN topic : /\ topic[i].action = "light_validation_completed"
                                   /\ topic[i].order = o
                                   /\ topic[i].pair = p
        /\ SendAgain
        /\ requests' = requests
  /\ \E outcome \in Outcome : topic' = Append(topic, Completed(o, p, outcome))
  /\ UNCHANGED <<orders, rows, publisher, generation, position, committed,
                 consumer, handled, faults>>

Handler ==
  \/ StartLightFlow
  \/ SendLightRequest
  \/ FinishDispatch
  \/ StartLightValidation
  \/ FinishLightValidation

Next ==
  \/ HandlerNext("LIGHT") /\ UNCHANGED requests
  \/ Handler
  \/ LightRequestFails
  \/ \E o \in Order, p \in Pair : Answer(o, p)

\* The consumer task keeps running, the event loop finishes the coroutines of
\* accepted publications, and the workers answer what was asked of them.
\* Nothing is assumed of the users, of the faults or of the commit timer.
FirstAnswer(o, p) == requests[<<o, p>>] > 0 /\ Answer(o, p)
FirstGeneration(o) == generation[o] = "queued" /\ GenerateAssertions(o) /\ UNCHANGED requests

Fairness ==
  /\ WF_vars((Fetch \/ AssertionsNotGenerated) /\ UNCHANGED requests)
  /\ WF_vars(Handler)
  /\ \A o \in Order :
       /\ WF_vars((SendGenerate(o) \/ MarkRequested(o)
                   \/ \E n \in Assertion : SendGiven(o, n)) /\ UNCHANGED requests)
       /\ WF_vars(FirstGeneration(o))
       /\ \A p \in Pair : WF_vars(FirstAnswer(o, p))

Spec == Init /\ [][Next]_vars
FairSpec == Spec /\ Fairness

-----------------------------------------------------------------------------
(* Properties *)

Step == {"start", "dispatch", "row", "count", "close"}

Message ==
  [action : {"assertions_generated"}, order : Order, count : Assertion]
  \cup [action : {"assertions_not_generated"}, order : Order]
  \cup [action : {"light_validation_completed"}, order : Order, pair : Pair, outcome : Outcome]

\* The documents, the log and the handler in execution are well formed.
TypeOK ==
  /\ orders \in [Order -> Doc]
  /\ rows \subseteq Order \X Pair
  /\ publisher \in [Order -> {"none", "saved", "sent", "given", "done", "lost"}]
  /\ generation \in [Order -> {"none", "queued", "answered"}]
  /\ topic \in Seq(Message)
  /\ position \in 0..Len(topic) /\ committed \in 0..position /\ handled \in 0..Len(topic)
  /\ consumer \in {Idle} \cup [at : Step, msg : Message, todo : SUBSET Pair, plan : SUBSET Pair]
  /\ faults \in 0..MaxFaults /\ repeats \in 0..MaxRepeats
  /\ requests \in [Order \X Pair -> Nat]

\* Nothing went wrong so far: no crash, no refused send, no answer sent again.
Calm == faults = 0 /\ repeats = 0

\* As long as nothing went wrong, an order is closed only when no validator that
\* was asked is still to answer, whatever its document says it expects.
ClosedMeansAllAnswered ==
  Calm => \A o \in Order : orders[o].status \in Terminal =>
    \A p \in Pair : requests[<<o, p>>] > 0 => p \in Done(orders[o])

\* As long as nothing went wrong, between two messages the stored count is exact
\* and an order whose answers are all there is closed with the status its
\* answers call for.
ExactAtRest ==
  Calm /\ consumer = Idle => \A o \in Order :
    /\ orders[o].validators_pending = Cardinality(Missing(orders[o]))
    /\ orders[o].status = "VALIDATION_PENDING" => Missing(orders[o]) # {}
    /\ orders[o].status \in Terminal => orders[o].status = TerminalStatus(orders[o])

\* An order published with its assertions is answered in the end: closed, or
\* refused because no validator could be asked.
PublishedGetsResult ==
  \A o \in Order :
    publisher[o] = "given" ~> orders[o].status \in Terminal \cup {"NO_VALIDATORS_AVAILABLE"}

\* Every answer a LIGHT order waits for arrives and is recorded, whichever
\* endpoint published it and whatever its status says.
ExpectedAreRecorded ==
  \A o \in Order, p \in Pair :
    p \in orders[o].validators ~> p \in Done(orders[o])

\* "All consumers must be idempotent": handling again a message that was
\* handled to its end does not lose a recorded validation.
RedeliveryIsIdempotent ==
  [][position <= handled /\ consumer # Idle =>
       \A o \in Order : Done(orders[o]) \subseteq Done(orders'[o])]_vars

\* A LIGHT order published with its assertions keeps what OrderLifecycle
\* promises its client, whatever restarts and redeliveries happen.
Lifecycle == INSTANCE OrderLifecycle WITH
  expected <- [o \in Order |-> orders[o].validators],
  answers <- [o \in Order |-> orders[o].validations],
  result <- [o \in Order |-> IF orders[o].status \in Terminal
                             THEN orders[o].status ELSE "open"]

ImplementsLifecycle == Lifecycle!Spec
=============================================================================
