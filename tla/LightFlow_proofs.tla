--------------------------- MODULE LightFlow_proofs ---------------------------
(***************************************************************************)
(* Proofs about LIGHT orders, for any number of orders, validators,        *)
(* assertions, restarts, failed sends and repeated answers: the invariants *)
(* that no fault breaks, what a step may do to the answers of an order,    *)
(* that an order published with its assertions implements OrderLifecycle,  *)
(* and what holds as long as nothing goes wrong.                           *)
(***************************************************************************)
EXTENDS LightFlow, FiniteSetTheorems, TLAPS

-----------------------------------------------------------------------------
(* Finiteness *)

LEMMA PairsAreFinite == \A S \in SUBSET Pair : IsFiniteSet(S) /\ Cardinality(S) \in Nat
<1>1. IsFiniteSet(Assertion)
  BY AssertionAssumption, FS_Interval DEF Assertion
<1>2. IsFiniteSet(Pair)
  BY <1>1, ValidatorAssumption, FS_Product DEF Pair
<1> QED BY <1>2, FS_Subset, FS_CardinalityType

LEMMA FewerMissing ==
  ASSUME NEW S \in SUBSET Pair, NEW T \in SUBSET S
  PROVE  Cardinality(T) <= Cardinality(S)
BY PairsAreFinite, FS_Subset

-----------------------------------------------------------------------------
(* Documents *)

\* An order that was published has a document of the type of the collection.
LEMMA PublishedDocument ==
  ASSUME NEW status \in Status, NEW mode \in Mode, NEW given \in BOOLEAN
  PROVE  LET doc == [Absent EXCEPT !.status = status, !.mode = mode, !.assertions = given]
         IN  doc \in Doc /\ doc.status = status /\ Missing(doc) = {}
BY DEF Absent, Doc, NoValidations, Missing

LEMMA NewStatus ==
  ASSUME NEW doc \in Doc, NEW status \in Status
  PROVE  LET new == [doc EXCEPT !.status = status]
         IN  /\ new \in Doc /\ new.status = status
             /\ new.validators_pending = doc.validators_pending
             /\ new.validators = doc.validators /\ new.validations = doc.validations
             /\ Missing(new) = Missing(doc)
BY DEF Doc, Missing, Done

LEMMA NewDocument ==
  ASSUME NEW doc \in Doc
  PROVE  LET new == DocumentCreated(doc)
         IN  /\ new \in Doc /\ new.status = "DOCUMENT_CREATED"
             /\ new.validators = {} /\ new.validations = NoValidations
             /\ new.validators_pending = 0 /\ Missing(new) = {}
BY DEF Doc, DocumentCreated, NoValidations, Missing, Status

LEMMA AnsweredDocument ==
  ASSUME NEW doc \in Doc, NEW p \in Pair, NEW outcome \in Outcome
  PROVE  LET new == [doc EXCEPT !.validations[p] = outcome]
         IN  /\ new \in Doc /\ new.status = doc.status
             /\ new.validators = doc.validators
             /\ new.validations = [doc.validations EXCEPT ![p] = outcome]
             /\ new.validators_pending = doc.validators_pending
             /\ Missing(new) \subseteq Missing(doc)
<1>1. outcome # NoAnswer
  BY DEF Outcome, NoAnswer
<1> QED BY <1>1 DEF Doc, Missing, Done

LEMMA CountedDocument ==
  ASSUME NEW doc \in Doc, NEW n \in Nat
  PROVE  LET new == [doc EXCEPT !.validators_pending = n]
         IN  /\ new \in Doc /\ new.status = doc.status
             /\ new.validators = doc.validators /\ new.validations = doc.validations
             /\ new.validators_pending = n
             /\ Missing(new) = Missing(doc)
BY DEF Doc, Missing, Done

-----------------------------------------------------------------------------
(* The inductive invariant *)

\* What every document satisfies at every step of every handler.
Sound(doc) ==
  /\ doc \in Doc
  /\ doc.status \in Terminal => Missing(doc) = {}
  /\ Cardinality(Missing(doc)) <= doc.validators_pending

SoundOrders == orders \in [Order -> Doc] /\ \A o \in Order : Sound(orders[o])

\* TypeOK without the documents.
TypeOfTheRest ==
  /\ rows \subseteq Order \X Pair
  /\ publisher \in [Order -> {"none", "saved", "sent", "given", "done", "lost"}]
  /\ generation \in [Order -> {"none", "queued", "answered"}]
  /\ topic \in Seq(Message)
  /\ position \in 0..Len(topic) /\ committed \in 0..position /\ handled \in 0..Len(topic)
  /\ consumer \in {Idle} \cup [at : Step, msg : Message, todo : SUBSET Pair, plan : SUBSET Pair]
  /\ faults \in 0..MaxFaults /\ repeats \in 0..MaxRepeats
  /\ requests \in [Order \X Pair -> Nat]

\* The consumer closes an order only after it counted no missing answer, and
\* nobody else takes an answer away before it does; it is an answer it has in hand.
CloseIsDue ==
  /\ consumer.at = "close" => Missing(orders[consumer.msg.order]) = {}
  /\ consumer.at \in {"row", "count", "close"} =>
       consumer.msg.action = "light_validation_completed"

IInv == TypeOfTheRest /\ SoundOrders /\ CloseIsDue

-----------------------------------------------------------------------------
(* Messages *)

LEMMA MessageFields ==
  ASSUME NEW m \in Message
  PROVE  /\ m.order \in Order
         /\ m.action \in {"assertions_generated", "assertions_not_generated",
                          "light_validation_completed"}
         /\ m.action = "assertions_generated" => m.count \in Assertion
         /\ m.action = "light_validation_completed" => m.pair \in Pair /\ m.outcome \in Outcome
BY DEF Message

LEMMA Messages ==
  ASSUME NEW o \in Order
  PROVE  /\ \A n \in Assertion : Generated(o, n) \in Message
         /\ NotGenerated(o) \in Message
         /\ \A p \in Pair, outcome \in Outcome : Completed(o, p, outcome) \in Message
BY DEF Message, Generated, NotGenerated, Completed

\* A busy consumer has a message in hand.
LEMMA InHand ==
  ASSUME TypeOfTheRest, consumer.at # "idle"
  PROVE  /\ consumer.at \in Step
         /\ consumer.msg \in Message /\ consumer.msg.order \in Order
         /\ consumer.todo \in SUBSET Pair /\ consumer.plan \in SUBSET Pair
         /\ consumer = [at |-> consumer.at, msg |-> consumer.msg,
                        todo |-> consumer.todo, plan |-> consumer.plan]
<1>1. consumer # Idle
  BY DEF Idle
<1>2. consumer \in [at : Step, msg : Message, todo : SUBSET Pair, plan : SUBSET Pair]
  BY <1>1 DEF TypeOfTheRest
<1>3. consumer.msg \in Message
  BY <1>2
<1> QED BY <1>2, <1>3, MessageFields

\* The consumer goes on with the same message, or is done with it.
LEMMA Continued ==
  ASSUME TypeOfTheRest, consumer.at # "idle", NEW label \in Step, Continue(label)
  PROVE  /\ consumer' \in [at : Step, msg : Message, todo : SUBSET Pair, plan : SUBSET Pair]
         /\ consumer'.at = label /\ consumer'.msg = consumer.msg
BY InHand DEF Continue

LEMMA Returned ==
  ASSUME TypeOfTheRest, Return
  PROVE  consumer' = Idle /\ consumer'.at = "idle" /\ handled' \in 0..Len(topic)
BY DEF TypeOfTheRest, Return, Idle

\* A write of one sound document.
LEMMA SetSound ==
  ASSUME SoundOrders, NEW o \in Order, NEW doc, Set(o, doc), Sound(doc)
  PROVE  SoundOrders' /\ orders'[o] = doc /\ \A q \in Order : q # o => orders'[q] = orders[q]
<1>1. doc \in Doc
  BY DEF Sound
<1>2. /\ orders' \in [Order -> Doc] /\ orders'[o] = doc
      /\ \A q \in Order : q # o => orders'[q] = orders[q]
  BY <1>1 DEF Set, SoundOrders
<1>3. \A q \in Order : Sound(orders'[q])
  BY <1>2 DEF SoundOrders
<1> QED BY <1>2, <1>3 DEF SoundOrders, Sound, Missing, Done

-----------------------------------------------------------------------------
(* One lemma per group of actions *)

LEMMA InitIInv == Init => IInv
<1> SUFFICES ASSUME Init PROVE IInv
  OBVIOUS
<1> USE DEF Init, HandlerInit
<1>1. Sound(Absent)
  <2>1. Absent \in Doc /\ Missing(Absent) = {} /\ Absent.status = "ABSENT"
        /\ Absent.validators_pending = 0
    BY DEF Absent, Doc, Status, Mode, NoValidations, Missing
  <2> QED BY <2>1, FS_EmptySet DEF Sound, Terminal
<1>2. SoundOrders
  BY <1>1 DEF SoundOrders, Sound
<1>3. TypeOfTheRest
  BY FaultAssumption DEF TypeOfTheRest
<1>4. CloseIsDue
  BY DEF CloseIsDue, Idle
<1> QED BY <1>2, <1>3, <1>4 DEF IInv

\* The steps of the publication coroutines, the generator and the validators
\* that do not write a document.
LEMMA OutsideKeeps ==
  ASSUME IInv, UNCHANGED <<orders, consumer, handled, position, committed>>,
         TypeOfTheRest'
  PROVE  IInv'
<1>1. SoundOrders'
  BY DEF IInv, SoundOrders, Sound, Missing, Done
<1>2. CloseIsDue'
  BY DEF IInv, CloseIsDue, Missing, Done
<1> QED BY <1>1, <1>2 DEF IInv

LEMMA AppendMessage ==
  ASSUME TypeOfTheRest, NEW m \in Message, topic' = Append(topic, m)
  PROVE  /\ topic' \in Seq(Message) /\ Len(topic') = Len(topic) + 1
         /\ UNCHANGED <<position, committed, handled>> =>
              /\ position' \in 0..Len(topic') /\ committed' \in 0..position'
              /\ handled' \in 0..Len(topic')
BY DEF TypeOfTheRest

LEMMA WorkersKeep ==
  ASSUME IInv, NEW o \in Order,
         \/ SendGenerate(o) /\ UNCHANGED requests
         \/ GenerateAssertions(o) /\ UNCHANGED requests
         \/ (\E n \in Assertion : SendGiven(o, n)) /\ UNCHANGED requests
         \/ \E p \in Pair : Answer(o, p)
  PROVE  IInv'
<1>1. CASE SendGenerate(o) /\ UNCHANGED requests
  <2>1. TypeOfTheRest'
    BY <1>1 DEF IInv, SendGenerate, TypeOfTheRest
  <2> QED BY <1>1, <2>1, OutsideKeeps DEF SendGenerate
<1>2. ASSUME NEW m \in Message, Generate(o, m), UNCHANGED requests
      PROVE  IInv'
  <2>1. topic' = Append(topic, m) /\ UNCHANGED <<position, committed, handled>>
    BY <1>2 DEF Generate
  <2>2. repeats' \in 0..MaxRepeats
    BY <1>2, FaultAssumption DEF Generate, SendAgain, IInv, TypeOfTheRest
  <2>3. TypeOfTheRest'
    BY <1>2, <2>1, <2>2, AppendMessage DEF IInv, Generate, TypeOfTheRest
  <2> QED BY <1>2, <2>3, OutsideKeeps DEF Generate
<1>3. ASSUME NEW n \in Assertion, SendGiven(o, n), UNCHANGED requests
      PROVE  IInv'
  <2>1. topic' = Append(topic, Generated(o, n)) /\ UNCHANGED <<position, committed, handled>>
    BY <1>3 DEF SendGiven
  <2>2. TypeOfTheRest'
    BY <1>3, <2>1, Messages, AppendMessage DEF IInv, SendGiven, TypeOfTheRest
  <2> QED BY <1>3, <2>2, OutsideKeeps DEF SendGiven
<1>4. ASSUME NEW p \in Pair, Answer(o, p)
      PROVE  IInv'
  <2>1. PICK outcome \in Outcome : topic' = Append(topic, Completed(o, p, outcome))
    BY <1>4 DEF Answer
  <2>2. repeats' \in 0..MaxRepeats /\ requests' \in [Order \X Pair -> Nat]
    <3>1. CASE /\ requests[<<o, p>>] > 0
               /\ requests' = [requests EXCEPT ![<<o, p>>] = @ - 1]
               /\ repeats' = repeats
      BY <3>1 DEF IInv, TypeOfTheRest
    <3>2. CASE SendAgain /\ requests' = requests
      BY <3>2, FaultAssumption DEF SendAgain, IInv, TypeOfTheRest
    <3> QED BY <1>4, <3>1, <3>2 DEF Answer
  <2>3. UNCHANGED <<orders, consumer, handled, position, committed, rows, publisher,
                    generation, faults>>
    BY <1>4 DEF Answer
  <2>4. TypeOfTheRest'
    BY <2>1, <2>2, <2>3, Messages, AppendMessage DEF IInv, TypeOfTheRest
  <2> QED BY <2>3, <2>4, OutsideKeeps
<1> QED BY <1>1, <1>2, <1>3, <1>4, Messages DEF GenerateAssertions

\* The writes of the publication coroutines: the two insertions meet an order
\* that waits for nobody, and the last write of publish_new touches the status.
LEMMA PublicationKeeps ==
  ASSUME IInv, NEW o \in Order, UNCHANGED requests,
         PublishNew(o, "LIGHT") \/ MarkRequested(o) \/ PublishWithAssertions(o, "LIGHT")
  PROVE  IInv'
<1>1. PICK doc : Set(o, doc) /\ Sound(doc) /\ Missing(doc) \subseteq Missing(orders[o])
  <2>1. CASE PublishNew(o, "LIGHT")
    <3>1. PICK doc : doc = [Absent EXCEPT !.status = "CREATED", !.mode = "LIGHT"]
      OBVIOUS
    <3>2. /\ doc \in Doc /\ doc.status = "CREATED" /\ Missing(doc) = {}
          /\ doc.validators_pending = 0
      BY <3>1 DEF Absent, Doc, Status, Mode, NoValidations, Missing
    <3>3. Set(o, doc)
      BY <2>1, <3>1, Zenon DEF PublishNew
    <3>4. Sound(doc)
      BY <3>2, FS_EmptySet DEF Sound, Terminal
    <3> QED BY <3>2, <3>3, <3>4
  <2>2. CASE PublishWithAssertions(o, "LIGHT")
    <3>1. PICK doc : doc = [Absent EXCEPT !.status = "ASSERTIONS_REQUESTED", !.mode = "LIGHT",
                                          !.assertions = TRUE]
      OBVIOUS
    <3>2. /\ doc \in Doc /\ doc.status = "ASSERTIONS_REQUESTED" /\ Missing(doc) = {}
          /\ doc.validators_pending = 0
      BY <3>1 DEF Absent, Doc, Status, Mode, NoValidations, Missing
    <3>3. Set(o, doc)
      BY <2>2, <3>1, Zenon DEF PublishWithAssertions
    <3>4. Sound(doc)
      BY <3>2, FS_EmptySet DEF Sound, Terminal
    <3> QED BY <3>2, <3>3, <3>4
  <2>3. CASE MarkRequested(o)
    <3>1. orders[o] \in Doc /\ Sound(orders[o])
      BY DEF IInv, SoundOrders
    <3>2. PICK doc : doc = [orders[o] EXCEPT !.status = "ASSERTIONS_REQUESTED"]
      OBVIOUS
    <3>3. /\ doc \in Doc /\ doc.status = "ASSERTIONS_REQUESTED"
          /\ doc.validators_pending = orders[o].validators_pending
          /\ Missing(doc) = Missing(orders[o])
      BY <3>1, <3>2, NewStatus DEF Status
    <3> QED BY <2>3, <3>1, <3>2, <3>3 DEF MarkRequested, Sound, Terminal
  <2> QED BY <2>1, <2>2, <2>3
<1>2. /\ SoundOrders' /\ orders'[o] = doc
      /\ \A q \in Order : q # o => orders'[q] = orders[q]
  BY <1>1, SetSound DEF IInv
<1>3. UNCHANGED <<rows, generation, topic, position, committed, consumer, handled, faults,
                  repeats>>
  BY DEF PublishNew, MarkRequested, PublishWithAssertions
<1>4. TypeOfTheRest'
  BY <1>3 DEF PublishNew, MarkRequested, PublishWithAssertions, IInv, TypeOfTheRest
<1>5. CloseIsDue'
  <2> SUFFICES ASSUME consumer.at = "close"
               PROVE  Missing(orders'[consumer.msg.order]) = {}
    BY <1>3 DEF IInv, CloseIsDue, Missing, Done
  <2>1. consumer.msg.order \in Order /\ Missing(orders[consumer.msg.order]) = {}
    BY InHand DEF IInv, CloseIsDue
  <2> QED BY <1>1, <1>2, <2>1
<1> QED BY <1>2, <1>4, <1>5 DEF IInv

\* A message is fetched, or the process restarts: no document is written.
LEMMA ConsumerKeeps ==
  ASSUME IInv, UNCHANGED requests, Fetch \/ Crash
  PROVE  IInv'
<1>1. CASE Fetch
  <2>1. topic[position + 1] \in Message /\ position + 1 \in 0..Len(topic)
    BY <1>1 DEF Fetch, IInv, TypeOfTheRest
  <2>2. consumer' \in [at : Step, msg : Message, todo : SUBSET Pair, plan : SUBSET Pair]
        /\ consumer'.at = "start"
    BY <1>1, <2>1 DEF Fetch, Step
  <2>3. committed' \in 0..position'
    BY <1>1, <2>1 DEF Fetch, IInv, TypeOfTheRest
  <2>4. TypeOfTheRest'
    BY <1>1, <2>1, <2>2, <2>3 DEF Fetch, IInv, TypeOfTheRest
  <2>5. SoundOrders' /\ CloseIsDue'
    BY <1>1, <2>2 DEF Fetch, IInv, SoundOrders, Sound, Missing, Done, CloseIsDue
  <2> QED BY <2>4, <2>5 DEF IInv
<1>2. CASE Crash
  <2>1. /\ position' \in 0..Len(topic) /\ committed' \in 0..position'
        /\ faults' \in 0..MaxFaults
    BY <1>2, FaultAssumption DEF Crash, Fault, IInv, TypeOfTheRest
  <2>2. publisher' \in [Order -> {"none", "saved", "sent", "given", "done", "lost"}]
    BY <1>2 DEF Crash, IInv, TypeOfTheRest
  <2>3. TypeOfTheRest'
    BY <1>2, <2>1, <2>2 DEF Crash, IInv, TypeOfTheRest
  <2>4. SoundOrders' /\ CloseIsDue'
    BY <1>2 DEF Crash, IInv, SoundOrders, Sound, Missing, Done, CloseIsDue, Idle
  <2> QED BY <2>3, <2>4 DEF IInv
<1> QED BY <1>1, <1>2

\* A handler writes the document of its message and goes on or returns.
LEMMA WriteKeeps ==
  ASSUME IInv, consumer.at # "idle", NEW doc, Set(consumer.msg.order, doc), Sound(doc),
         UNCHANGED <<rows, publisher, generation, topic, position, committed, repeats>>,
         faults' \in 0..MaxFaults,
         requests' \in [Order \X Pair -> Nat],
         \/ Return
         \/ /\ consumer' \in [at : Step, msg : Message, todo : SUBSET Pair, plan : SUBSET Pair]
            /\ consumer'.msg = consumer.msg /\ handled' = handled
            /\ consumer'.at = "close" => Missing(doc) = {}
            /\ consumer'.at \in {"row", "count", "close"} =>
                 consumer.msg.action = "light_validation_completed"
  PROVE  IInv'
<1>1. consumer.msg.order \in Order
  BY InHand DEF IInv
<1>2. SoundOrders' /\ orders'[consumer.msg.order] = doc
  BY <1>1, SetSound DEF IInv
<1>3. CASE Return
  <2>1. consumer' = Idle /\ consumer'.at = "idle" /\ handled' \in 0..Len(topic)
    BY <1>3, Returned DEF IInv
  <2>2. TypeOfTheRest'
    BY <2>1 DEF IInv, TypeOfTheRest
  <2>3. CloseIsDue'
    BY <2>1 DEF CloseIsDue
  <2> QED BY <1>2, <2>2, <2>3 DEF IInv
<1>4. CASE /\ consumer' \in [at : Step, msg : Message, todo : SUBSET Pair, plan : SUBSET Pair]
           /\ consumer'.msg = consumer.msg /\ handled' = handled
           /\ consumer'.at = "close" => Missing(doc) = {}
           /\ consumer'.at \in {"row", "count", "close"} =>
                consumer.msg.action = "light_validation_completed"
  <2>1. TypeOfTheRest'
    BY <1>4 DEF IInv, TypeOfTheRest
  <2>2. CloseIsDue'
    BY <1>2, <1>4 DEF CloseIsDue, Missing, Done
  <2> QED BY <1>2, <2>1, <2>2 DEF IInv
<1> QED BY <1>3, <1>4

LEMMA NotGeneratedKeeps ==
  ASSUME IInv, UNCHANGED requests, AssertionsNotGenerated
  PROVE  IInv'
<1>1. consumer.at # "idle" /\ consumer.msg.order \in Order
  BY InHand DEF IInv, AssertionsNotGenerated, Handling
<1>2. PICK doc : doc = [orders[consumer.msg.order] EXCEPT !.status = "ASSERTIONS_NOT_AVAILABLE"]
  OBVIOUS
<1>3. Sound(orders[consumer.msg.order])
  BY <1>1 DEF IInv, SoundOrders
<1>4. Sound(doc)
  <2>1. /\ doc \in Doc /\ doc.status = "ASSERTIONS_NOT_AVAILABLE"
        /\ doc.validators_pending = orders[consumer.msg.order].validators_pending
        /\ Missing(doc) = Missing(orders[consumer.msg.order])
    BY <1>2, <1>3, NewStatus DEF Sound, Status
  <2> QED BY <2>1, <1>3 DEF Sound, Terminal
<1>5. Set(consumer.msg.order, doc) /\ Return
  BY <1>2, Zenon DEF AssertionsNotGenerated
<1>6. /\ UNCHANGED <<rows, publisher, generation, topic, position, committed, repeats>>
      /\ faults' \in 0..MaxFaults /\ requests' \in [Order \X Pair -> Nat]
  BY DEF AssertionsNotGenerated, outsideVars, IInv, TypeOfTheRest
<1> QED BY <1>1, <1>4, <1>5, <1>6, WriteKeeps

LEMMA StartKeeps ==
  ASSUME IInv, StartLightFlow
  PROVE  IInv'
<1>1. /\ consumer.at # "idle" /\ consumer.msg.order \in Order
      /\ consumer.msg \in Message
  BY InHand DEF IInv, StartLightFlow, Handling
<1>2. PICK doc : doc = DocumentCreated(orders[consumer.msg.order])
  OBVIOUS
<1>3. Sound(doc)
  <2>1. orders[consumer.msg.order] \in Doc
    BY <1>1 DEF IInv, SoundOrders
  <2> QED BY <1>2, <2>1, NewDocument, FS_EmptySet DEF Sound
<1>4. Set(consumer.msg.order, doc)
  BY <1>2, Zenon DEF StartLightFlow
<1>5. /\ consumer' \in [at : Step, msg : Message, todo : SUBSET Pair, plan : SUBSET Pair]
      /\ consumer'.msg = consumer.msg /\ consumer'.at = "dispatch"
  <2>1. PICK chosen \in SUBSET Pair :
          consumer' = [consumer EXCEPT !.at = "dispatch", !.todo = chosen, !.plan = chosen]
    BY EligibleAssumption DEF StartLightFlow
  <2> QED BY <1>1, <2>1, InHand DEF IInv, Step
<1>6. /\ UNCHANGED <<rows, publisher, generation, topic, position, committed, repeats>>
      /\ faults' \in 0..MaxFaults /\ requests' \in [Order \X Pair -> Nat] /\ handled' = handled
  BY DEF StartLightFlow, outsideVars, IInv, TypeOfTheRest
<1> QED BY <1>1, <1>3, <1>4, <1>5, <1>6, WriteKeeps

\* Sending a request, or failing to, leaves every document as it is.
LEMMA SendKeeps ==
  ASSUME IInv, SendLightRequest \/ LightRequestFails
  PROVE  IInv'
<1>1. SoundOrders'
  BY DEF SendLightRequest, LightRequestFails, IInv, SoundOrders, Sound, Missing, Done
<1>2. consumer.at = "dispatch" /\ consumer.at # "idle"
  BY DEF SendLightRequest, LightRequestFails
<1>3. CASE SendLightRequest
  <2>1. PICK p \in consumer.todo :
          /\ requests' = [requests EXCEPT ![<<consumer.msg.order, p>>] = @ + 1]
          /\ consumer' = [consumer EXCEPT !.todo = @ \ {p}]
    BY <1>3 DEF SendLightRequest
  <2>2. consumer' \in [at : Step, msg : Message, todo : SUBSET Pair, plan : SUBSET Pair]
        /\ consumer'.at = "dispatch"
    BY <1>2, <2>1, InHand DEF IInv
  <2>3. requests' \in [Order \X Pair -> Nat]
    <3>1. <<consumer.msg.order, p>> \in Order \X Pair
      BY <1>2, InHand DEF IInv
    <3>2. requests \in [Order \X Pair -> Nat]
      BY DEF IInv, TypeOfTheRest
    <3> QED BY <2>1, <3>1, <3>2
  <2>4. TypeOfTheRest'
    BY <1>3, <2>2, <2>3 DEF SendLightRequest, IInv, TypeOfTheRest
  <2> QED BY <1>1, <2>2, <2>4 DEF IInv, CloseIsDue
<1>4. CASE LightRequestFails
  <2>1. consumer' = Idle /\ consumer'.at = "idle" /\ handled' \in 0..Len(topic)
    BY <1>4, Returned DEF IInv, LightRequestFails
  <2>2. faults' \in 0..MaxFaults
    BY <1>4, FaultAssumption DEF LightRequestFails, Fault, IInv, TypeOfTheRest
  <2>3. TypeOfTheRest'
    BY <1>4, <2>1, <2>2 DEF LightRequestFails, IInv, TypeOfTheRest
  <2> QED BY <1>1, <2>1, <2>3 DEF IInv, CloseIsDue
<1> QED BY <1>3, <1>4

LEMMA FinishKeeps ==
  ASSUME IInv, FinishDispatch
  PROVE  IInv'
<1>1. consumer.at # "idle" /\ consumer.msg.order \in Order
  BY InHand DEF IInv, FinishDispatch
<1>2. PICK plan \in SUBSET Pair : plan = consumer.plan
  BY <1>1, InHand DEF IInv
<1>3. PICK status \in {"NO_VALIDATORS_AVAILABLE", "VALIDATION_PENDING"} :
        status = IF plan = {} THEN "NO_VALIDATORS_AVAILABLE" ELSE "VALIDATION_PENDING"
  OBVIOUS
<1>4. PICK old \in Doc : old = orders[consumer.msg.order]
  BY <1>1 DEF IInv, SoundOrders
<1>5. PICK doc : doc = [old EXCEPT
                          !.validators = plan, !.validation_requests = plan,
                          !.validators_pending = Cardinality(plan), !.status = status]
  OBVIOUS
<1>6. Sound(doc)
  <2>1. status \in Status
    BY <1>3 DEF Status
  <2>2. /\ doc \in Doc /\ doc.status = status /\ doc.validators_pending = Cardinality(plan)
        /\ Missing(doc) \subseteq plan
    BY <1>5, <2>1, PairsAreFinite DEF Doc, Missing
  <2>3. Cardinality(Missing(doc)) <= doc.validators_pending
    BY <2>2, FewerMissing
  <2> QED BY <1>3, <2>2, <2>3 DEF Sound, Terminal
<1>7. Set(consumer.msg.order, doc) /\ Return
  BY <1>2, <1>3, <1>4, <1>5, Zenon DEF FinishDispatch
<1>8. /\ UNCHANGED <<rows, publisher, generation, topic, position, committed, repeats>>
      /\ faults' \in 0..MaxFaults /\ requests' \in [Order \X Pair -> Nat]
  BY DEF FinishDispatch, outsideVars, IInv, TypeOfTheRest
<1> QED BY <1>1, <1>6, <1>7, <1>8, WriteKeeps

LEMMA StartValidationKeeps ==
  ASSUME IInv, StartLightValidation
  PROVE  IInv'
<1>1. /\ consumer.at # "idle" /\ consumer.msg.order \in Order
      /\ consumer.msg.pair \in Pair /\ consumer.msg.outcome \in Outcome
  BY InHand, MessageFields DEF IInv, StartLightValidation, Handling
<1>2. Sound(orders[consumer.msg.order]) /\ SoundOrders /\ requests \in [Order \X Pair -> Nat]
      /\ TypeOfTheRest
  BY <1>1 DEF IInv, SoundOrders, TypeOfTheRest
<1>3. CASE IgnoreDuplicate(consumer.msg.order)
  <2>1. consumer' = Idle /\ consumer'.at = "idle" /\ handled' \in 0..Len(topic)
    BY <1>2, <1>3, Returned DEF IgnoreDuplicate
  <2>2. UNCHANGED <<orders, rows, publisher, generation, topic, position, committed, faults,
                    repeats, requests>>
    BY <1>3 DEF IgnoreDuplicate, StartLightValidation
  <2>3. TypeOfTheRest'
    BY <1>2, <2>1, <2>2 DEF TypeOfTheRest
  <2>4. SoundOrders'
    BY <1>2, <2>2 DEF SoundOrders, Sound, Missing, Done
  <2> QED BY <2>1, <2>3, <2>4 DEF IInv, CloseIsDue
<1>4. CASE RecordAnswer(consumer.msg.order)
  <2>1. PICK doc : doc = [orders[consumer.msg.order] EXCEPT
                            !.validations[consumer.msg.pair] = consumer.msg.outcome]
    OBVIOUS
  <2>2. /\ doc \in Doc /\ doc.status = orders[consumer.msg.order].status
        /\ doc.validators_pending = orders[consumer.msg.order].validators_pending
        /\ Missing(doc) \subseteq Missing(orders[consumer.msg.order])
    BY <1>1, <1>2, <2>1, AnsweredDocument DEF Sound
  <2>3. Sound(doc)
    <3>1. Missing(orders[consumer.msg.order]) \in SUBSET Pair
      BY <1>2 DEF Sound, Doc, Missing
    <3>2. Cardinality(Missing(doc)) <= Cardinality(Missing(orders[consumer.msg.order]))
      BY <2>2, <3>1, FewerMissing
    <3>3. /\ Cardinality(Missing(doc)) \in Nat
          /\ Cardinality(Missing(orders[consumer.msg.order])) \in Nat
          /\ doc.validators_pending \in Nat
      BY <2>2, <3>1, PairsAreFinite DEF Doc
    <3> QED BY <1>2, <2>2, <3>2, <3>3 DEF Sound
  <2>4. Set(consumer.msg.order, doc)
    BY <1>4, <2>1, Zenon DEF RecordAnswer
  <2>5. /\ consumer' \in [at : Step, msg : Message, todo : SUBSET Pair, plan : SUBSET Pair]
        /\ consumer'.msg = consumer.msg /\ consumer'.at = "row"
    BY <1>1, <1>2, <1>4, Continued DEF RecordAnswer, Step
  <2>6. /\ UNCHANGED <<rows, publisher, generation, topic, position, committed, repeats>>
        /\ faults' \in 0..MaxFaults /\ requests' \in [Order \X Pair -> Nat] /\ handled' = handled
    BY <1>2, <1>4 DEF RecordAnswer, StartLightValidation, outsideVars, TypeOfTheRest
  <2>7. consumer.msg.action = "light_validation_completed"
    BY DEF StartLightValidation, Handling
  <2> QED BY <1>1, <2>3, <2>4, <2>5, <2>6, <2>7, WriteKeeps
<1> QED BY <1>3, <1>4 DEF StartLightValidation

\* The row is inserted, or the handler ends because it is there already.
LEMMA RowKeeps ==
  ASSUME IInv, UNCHANGED requests, NEW o \in Order, o = consumer.msg.order, LogValidation(o)
  PROVE  IInv'
<1>1. /\ consumer.at = "row" /\ consumer.at # "idle" /\ consumer.msg \in Message
      /\ consumer.msg.order \in Order /\ "count" \in Step /\ TypeOfTheRest
  BY InHand DEF IInv, LogValidation, Step
<1>2. UNCHANGED <<orders, publisher, generation, topic, position, committed, faults, repeats>>
  BY DEF LogValidation
<1>3. SoundOrders'
  BY <1>2 DEF IInv, SoundOrders, Sound, Missing, Done
<1>4. CASE Return /\ rows' = rows
  <2>1. consumer' = Idle /\ consumer'.at = "idle" /\ handled' \in 0..Len(topic)
    BY <1>1, <1>4, Returned
  <2>2. TypeOfTheRest'
    BY <1>1, <1>2, <1>4, <2>1 DEF TypeOfTheRest
  <2> QED BY <1>3, <2>1, <2>2 DEF IInv, CloseIsDue
<1>5. CASE rows' = rows \cup {<<o, consumer.msg.pair>>} /\ Continue("count") /\ handled' = handled
  <2>1. consumer' \in [at : Step, msg : Message, todo : SUBSET Pair, plan : SUBSET Pair]
        /\ consumer'.at = "count" /\ consumer'.msg = consumer.msg
    BY <1>1, <1>5, Continued
  <2>2. rows' \subseteq Order \X Pair
    <3>1. consumer.msg.pair \in Pair
      BY <1>1, MessageFields DEF IInv, CloseIsDue
    <3> QED BY <1>1, <1>5, <3>1 DEF TypeOfTheRest
  <2>3. TypeOfTheRest'
    BY <1>1, <1>2, <1>5, <2>1, <2>2 DEF TypeOfTheRest
  <2> QED BY <1>1, <1>3, <2>1, <2>3 DEF IInv, CloseIsDue
<1> QED BY <1>4, <1>5 DEF LogValidation

LEMMA CountKeeps ==
  ASSUME IInv, UNCHANGED requests, NEW o \in Order, o = consumer.msg.order, CountPending(o)
  PROVE  IInv'
<1>1. consumer.at = "count" /\ consumer.at # "idle" /\ "close" \in Step /\ TypeOfTheRest
  BY DEF IInv, CountPending, CountAs, Step
<1>2. Sound(orders[o]) /\ orders[o] \in Doc
  BY DEF IInv, SoundOrders
<1>3. PICK n \in Nat : n = Cardinality(Missing(orders[o]))
  <2>1. Missing(orders[o]) \in SUBSET Pair
    BY <1>2 DEF Doc, Missing
  <2> QED BY <2>1, PairsAreFinite
<1>4. PICK doc : doc = [orders[o] EXCEPT !.validators_pending = n]
  OBVIOUS
<1>5. /\ doc \in Doc /\ doc.status = orders[o].status /\ doc.validators_pending = n
      /\ Missing(doc) = Missing(orders[o])
  BY <1>2, <1>4, CountedDocument
<1>6. Sound(doc)
  BY <1>2, <1>3, <1>5 DEF Sound
<1>7. Set(o, doc)
  BY <1>3, <1>4, Zenon DEF CountPending, CountAs
<1>8. \/ Return
      \/ /\ consumer' \in [at : Step, msg : Message, todo : SUBSET Pair, plan : SUBSET Pair]
         /\ consumer'.msg = consumer.msg /\ handled' = handled
         /\ consumer'.at = "close" /\ Missing(doc) = {}
  <2>1. CASE Missing(orders[o]) = {}
    <3>1. Continue("close") /\ handled' = handled
      BY <2>1 DEF CountPending, CountAs
    <3> QED BY <1>1, <1>5, <2>1, <3>1, Continued
  <2>2. CASE Missing(orders[o]) # {}
    BY <2>2 DEF CountPending, CountAs
  <2> QED BY <2>1, <2>2
<1>9. /\ UNCHANGED <<rows, publisher, generation, topic, position, committed, repeats>>
      /\ faults' \in 0..MaxFaults /\ requests' \in [Order \X Pair -> Nat]
      /\ consumer.msg.action = "light_validation_completed"
  BY <1>1 DEF CountPending, CountAs, outsideVars, IInv, TypeOfTheRest, CloseIsDue
<1> QED BY <1>1, <1>6, <1>7, <1>8, <1>9, WriteKeeps

\* The close itself: nothing came between the count and it.
LEMMA CloseKeeps ==
  ASSUME IInv, UNCHANGED requests, NEW o \in Order, o = consumer.msg.order, CloseOrder(o)
  PROVE  IInv'
<1>1. consumer.at = "close" /\ consumer.at # "idle" /\ Missing(orders[o]) = {}
  BY DEF IInv, CloseOrder, CloseIsDue
<1>2. Sound(orders[o]) /\ orders[o] \in Doc
  BY DEF IInv, SoundOrders
<1>3. PICK status \in Terminal : status = TerminalStatus(orders[o])
  BY DEF TerminalStatus, Terminal
<1>4. PICK doc : doc = [orders[o] EXCEPT !.status = status]
  OBVIOUS
<1>5. /\ doc \in Doc /\ doc.validators_pending = orders[o].validators_pending
      /\ Missing(doc) = Missing(orders[o])
  BY <1>2, <1>3, <1>4, NewStatus DEF Status
<1>6. Sound(doc)
  BY <1>1, <1>2, <1>5 DEF Sound
<1>7. Set(o, doc) /\ Return
  BY <1>3, <1>4, Zenon DEF CloseOrder
<1>8. /\ UNCHANGED <<rows, publisher, generation, topic, position, committed, repeats>>
      /\ faults' \in 0..MaxFaults /\ requests' \in [Order \X Pair -> Nat]
  BY DEF CloseOrder, outsideVars, IInv, TypeOfTheRest
<1> QED BY <1>1, <1>6, <1>7, <1>8, WriteKeeps

LEMMA NextIInv == IInv /\ [Next]_vars => IInv'
<1> SUFFICES ASSUME IInv, [Next]_vars PROVE IInv'
  OBVIOUS
<1>1. CASE UNCHANGED vars
  <2>1. UNCHANGED <<orders, consumer, handled, position, committed>> /\ TypeOfTheRest'
    BY <1>1 DEF vars, handlerVars, outsideVars, IInv, TypeOfTheRest
  <2> QED BY <2>1, OutsideKeeps
<1>2. CASE HandlerNext("LIGHT") /\ UNCHANGED requests
  BY <1>2, WorkersKeep, PublicationKeeps, ConsumerKeeps, NotGeneratedKeeps DEF HandlerNext
<1>3. CASE FinishLightValidation
  <2>1. consumer.msg.order \in Order
    BY <1>3, InHand DEF FinishLightValidation, IInv
  <2> QED BY <1>3, <2>1, RowKeeps, CountKeeps, CloseKeeps DEF FinishLightValidation
<1>4. CASE StartLightFlow \/ SendLightRequest \/ FinishDispatch \/ StartLightValidation
           \/ LightRequestFails
  BY <1>4, StartKeeps, SendKeeps, FinishKeeps, StartValidationKeeps
<1>5. CASE \E o \in Order, p \in Pair : Answer(o, p)
  BY <1>5, WorkersKeep
<1> QED BY <1>1, <1>2, <1>3, <1>4, <1>5 DEF Next, Handler

-----------------------------------------------------------------------------
\* Every reachable state satisfies the inductive invariant.
THEOREM Invariance == Spec => []IInv
BY InitIInv, NextIInv, PTL DEF Spec

\* Documents, log and handler keep their types through every interleaving.
THEOREM TypeCorrect == Spec => []TypeOK
<1>1. IInv => TypeOK
  BY DEF IInv, TypeOfTheRest, SoundOrders, TypeOK
<1> QED BY <1>1, Invariance, PTL

\* No order is reported as validated while an answer it expects is missing,
\* for any number of validators, restarts and repeated answers.
THEOREM ClosedTheorem == Spec => []ClosedMeansExpectedDone
<1>1. IInv => ClosedMeansExpectedDone
  BY DEF IInv, SoundOrders, Sound, ClosedMeansExpectedDone
<1> QED BY <1>1, Invariance, PTL

\* The stored count never promises fewer missing answers than there are.
THEOREM PendingTheorem == Spec => []PendingNeverUnderstates
<1>1. IInv => PendingNeverUnderstates
  BY DEF IInv, SoundOrders, Sound, PendingNeverUnderstates
<1> QED BY <1>1, Invariance, PTL

-----------------------------------------------------------------------------
(* Nobody knows an order before it is published. *)

Untouched(o) ==
  /\ orders[o] = Absent
  /\ generation[o] = "none"
  /\ \A i \in DOMAIN topic : topic[i].order # o
  /\ consumer.at # "idle" => consumer.msg.order # o
  /\ \A p \in Pair : requests[<<o, p>>] = 0

Fresh == \A o \in Order : publisher[o] = "none" => Untouched(o)

LEMMA InitFresh == Init => Fresh
BY DEF Init, HandlerInit, Fresh, Untouched, Idle

\* One more message about an order that was published.
LEMMA AppendUntouched ==
  ASSUME TypeOfTheRest, NEW o \in Order, Untouched(o), NEW m \in Message, m.order # o,
         topic' = Append(topic, m)
  PROVE  \A i \in DOMAIN topic' : topic'[i].order # o
<1>1. topic \in Seq(Message)
  BY DEF TypeOfTheRest
<1>2. \A i \in DOMAIN topic : topic[i].order # o
  BY DEF Untouched
<1>3. DOMAIN topic' = 1..(Len(topic) + 1) /\ DOMAIN topic = 1..Len(topic) /\ Len(topic) \in Nat
      /\ topic'[Len(topic) + 1] = m /\ \A i \in 1..Len(topic) : topic'[i] = topic[i]
  BY <1>1
<1> QED BY <1>2, <1>3

LEMMA WorkersFresh ==
  ASSUME IInv, NEW q \in Order,
         \/ SendGenerate(q) /\ UNCHANGED requests
         \/ GenerateAssertions(q) /\ UNCHANGED requests
         \/ (\E n \in Assertion : SendGiven(q, n)) /\ UNCHANGED requests
         \/ \E p \in Pair : Answer(q, p),
         NEW o \in Order, publisher'[o] = "none", publisher[o] = "none", Untouched(o)
  PROVE  Untouched(o)'
<1>1. TypeOfTheRest
  BY DEF IInv
<1>2. CASE SendGenerate(q) /\ UNCHANGED requests
  BY <1>1, <1>2 DEF SendGenerate, Untouched, TypeOfTheRest
<1>3. ASSUME NEW m \in Message, m.order = q, Generate(q, m), UNCHANGED requests
      PROVE  Untouched(o)'
  <2>1. q # o
    BY <1>3 DEF Generate, Untouched
  <2>2. \A i \in DOMAIN topic' : topic'[i].order # o
    BY <1>1, <1>3, <2>1, AppendUntouched DEF Generate
  <2> QED BY <1>1, <1>3, <2>1, <2>2 DEF Generate, Untouched, TypeOfTheRest
<1>4. ASSUME NEW n \in Assertion, SendGiven(q, n), UNCHANGED requests
      PROVE  Untouched(o)'
  <2>1. q # o
    BY <1>4 DEF SendGiven
  <2>2. Generated(q, n) \in Message /\ Generated(q, n).order = q
    BY Messages DEF Generated
  <2>3. \A i \in DOMAIN topic' : topic'[i].order # o
    BY <1>1, <1>4, <2>1, <2>2, AppendUntouched DEF SendGiven
  <2> QED BY <1>4, <2>3 DEF SendGiven, Untouched
<1>5. ASSUME NEW p \in Pair, Answer(q, p)
      PROVE  Untouched(o)'
  <2>1. q # o
    BY <1>5 DEF Answer, Untouched
  <2>2. PICK outcome \in Outcome : topic' = Append(topic, Completed(q, p, outcome))
    BY <1>5 DEF Answer
  <2>3. Completed(q, p, outcome) \in Message /\ Completed(q, p, outcome).order = q
    BY Messages DEF Completed
  <2>4. \A i \in DOMAIN topic' : topic'[i].order # o
    BY <1>1, <2>1, <2>2, <2>3, AppendUntouched
  <2>5. \A r \in Pair : requests'[<<o, r>>] = requests[<<o, r>>]
    BY <1>1, <1>5, <2>1 DEF Answer, TypeOfTheRest
  <2> QED BY <1>5, <2>4, <2>5 DEF Answer, Untouched
<1>6. \A n \in Assertion : Generated(q, n) \in Message /\ Generated(q, n).order = q
  BY Messages DEF Generated
<1>7. NotGenerated(q) \in Message /\ NotGenerated(q).order = q
  BY Messages DEF NotGenerated
<1> QED BY <1>2, <1>3, <1>4, <1>5, <1>6, <1>7 DEF GenerateAssertions

\* The actions of the consumer that work on the message in hand.
MessageStep ==
  \/ AssertionsNotGenerated /\ UNCHANGED requests
  \/ StartLightFlow \/ SendLightRequest \/ LightRequestFails \/ FinishDispatch
  \/ StartLightValidation \/ FinishLightValidation

LEMMA WriteScope ==
  ASSUME SoundOrders, NEW q \in Order, NEW doc, Set(q, doc)
  PROVE  \A o \in Order : o # q => orders'[o] = orders[o]
BY DEF SoundOrders, Set

\* They touch the order and the requests of that message only.
LEMMA MessageScope ==
  ASSUME IInv, MessageStep
  PROVE  /\ consumer.at # "idle" /\ consumer.msg.order \in Order
         /\ UNCHANGED <<publisher, generation, topic, position>>
         /\ \A o \in Order : o # consumer.msg.order => orders'[o] = orders[o]
         /\ \A o \in Order, p \in Pair :
              o # consumer.msg.order => requests'[<<o, p>>] = requests[<<o, p>>]
         /\ consumer'.at # "idle" => consumer'.msg = consumer.msg
<1>1. consumer.at # "idle"
  BY DEF MessageStep, AssertionsNotGenerated, StartLightFlow, SendLightRequest,
         LightRequestFails, FinishDispatch, StartLightValidation, FinishLightValidation, Handling
<1>2. consumer.msg.order \in Order /\ TypeOfTheRest /\ SoundOrders
  BY <1>1, InHand DEF IInv
<1>3. UNCHANGED <<publisher, generation, topic, position>>
  BY DEF MessageStep, AssertionsNotGenerated, StartLightFlow, SendLightRequest,
         LightRequestFails, FinishDispatch, StartLightValidation, FinishLightValidation,
         IgnoreDuplicate, RecordAnswer, LogValidation, CountPending, CountAs, CloseOrder, outsideVars
<1>4. \/ orders' = orders
      \/ \E doc : Set(consumer.msg.order, doc)
  BY Zenon DEF MessageStep, AssertionsNotGenerated, StartLightFlow, SendLightRequest,
         LightRequestFails, FinishDispatch, StartLightValidation, FinishLightValidation,
         IgnoreDuplicate, RecordAnswer, LogValidation, CountPending, CountAs, CloseOrder
<1>5. \A o \in Order : o # consumer.msg.order => orders'[o] = orders[o]
  BY <1>2, <1>4, WriteScope
<1>6. \/ requests' = requests
      \/ \E p \in consumer.todo : requests' = [requests EXCEPT ![<<consumer.msg.order, p>>] = @ + 1]
  BY DEF MessageStep, StartLightFlow, SendLightRequest, LightRequestFails, FinishDispatch,
         StartLightValidation, FinishLightValidation
<1>7. \A o \in Order, p \in Pair :
        o # consumer.msg.order => requests'[<<o, p>>] = requests[<<o, p>>]
  <2>1. requests \in [Order \X Pair -> Nat]
    BY <1>2 DEF TypeOfTheRest
  <2> QED BY <1>6, <2>1
<1>8. consumer'.at # "idle" => consumer'.msg = consumer.msg
  <2>1. Return => consumer'.at = "idle"
    BY DEF Return, Idle
  <2>2. \A label : Continue(label) => consumer'.msg = consumer.msg
    BY <1>1, <1>2, InHand DEF Continue
  <2>3. StartLightFlow \/ SendLightRequest => consumer'.msg = consumer.msg
    BY <1>1, <1>2, InHand DEF StartLightFlow, SendLightRequest
  <2> QED BY <2>1, <2>2, <2>3 DEF MessageStep, AssertionsNotGenerated, LightRequestFails,
         FinishDispatch, StartLightValidation, FinishLightValidation,
         IgnoreDuplicate, RecordAnswer, LogValidation, CountPending, CountAs, CloseOrder
<1> QED BY <1>1, <1>2, <1>3, <1>5, <1>7, <1>8

LEMMA MessageFresh ==
  ASSUME IInv, MessageStep, NEW o \in Order, Untouched(o)
  PROVE  Untouched(o)'
BY MessageScope DEF Untouched

LEMMA PublicationFresh ==
  ASSUME IInv, NEW q \in Order, UNCHANGED requests,
         PublishNew(q, "LIGHT") \/ MarkRequested(q) \/ PublishWithAssertions(q, "LIGHT"),
         NEW o \in Order, publisher'[o] = "none", publisher[o] = "none", Untouched(o)
  PROVE  Untouched(o)'
<1>1. q # o
  BY DEF PublishNew, MarkRequested, PublishWithAssertions, IInv, TypeOfTheRest
<1>2. orders'[o] = orders[o]
  BY <1>1 DEF PublishNew, MarkRequested, PublishWithAssertions, Set, IInv, SoundOrders
<1> QED BY <1>2 DEF PublishNew, MarkRequested, PublishWithAssertions, Untouched

LEMMA ConsumerFresh ==
  ASSUME IInv, UNCHANGED requests, Fetch \/ Crash, NEW o \in Order, Untouched(o)
  PROVE  Untouched(o)'
<1>1. CASE Fetch
  <2>1. position + 1 \in DOMAIN topic
    BY <1>1 DEF Fetch, IInv, TypeOfTheRest
  <2> QED BY <1>1, <2>1 DEF Fetch, Untouched
<1>2. CASE Crash
  BY <1>2 DEF Crash, Untouched, Idle
<1> QED BY <1>1, <1>2

LEMMA NextFresh == IInv /\ Fresh /\ [Next]_vars => Fresh'
<1> SUFFICES ASSUME IInv, Fresh, [Next]_vars, NEW o \in Order, publisher'[o] = "none"
             PROVE  Untouched(o)'
  BY DEF Fresh
<1>1. CASE UNCHANGED vars
  BY <1>1 DEF vars, handlerVars, outsideVars, Fresh, Untouched
<1>2. CASE Next
  <2>1. publisher[o] = "none"
    BY <1>2 DEF Next, Handler, HandlerNext, PublishNew, SendGenerate, MarkRequested,
         PublishWithAssertions, SendGiven, GenerateAssertions, Generate, Fetch, Crash,
         AssertionsNotGenerated, StartLightFlow, SendLightRequest, LightRequestFails,
         FinishDispatch, StartLightValidation, FinishLightValidation, IgnoreDuplicate,
         RecordAnswer, LogValidation, CountPending, CountAs, CloseOrder, Answer, outsideVars,
         IInv, TypeOfTheRest
  <2>2. Untouched(o)
    BY <2>1 DEF Fresh
  <2>3. CASE HandlerNext("LIGHT") /\ UNCHANGED requests
    BY <2>1, <2>2, <2>3, WorkersFresh, PublicationFresh, ConsumerFresh, MessageFresh
       DEF HandlerNext, MessageStep
  <2>4. CASE MessageStep
    BY <2>2, <2>4, MessageFresh
  <2>5. CASE \E q \in Order, p \in Pair : Answer(q, p)
    BY <2>1, <2>2, <2>5, WorkersFresh
  <2> QED BY <1>2, <2>3, <2>4, <2>5 DEF Next, Handler, MessageStep
<1> QED BY <1>1, <1>2

\* No message names an order before its publication.
THEOREM FreshTheorem == Spec => []Fresh
BY Invariance, InitFresh, NextFresh, PTL DEF Spec

-----------------------------------------------------------------------------
(* What one step does to one document *)

SameAnswers(old, new) == new.validators = old.validators /\ new.validations = old.validations

Published(old, new) ==
  /\ old = Absent
  /\ SameAnswers(old, new) /\ new.status \in {"CREATED", "ASSERTIONS_REQUESTED"}
Marked(old, new, status) == SameAnswers(old, new) /\ new.status = status
Reset(new) ==
  /\ new.validators = {} /\ new.validations = NoValidations
  /\ new.status = "DOCUMENT_CREATED"
Dispatched(old, new, plan) ==
  /\ new.validators = plan /\ new.validations = old.validations
  /\ new.status \notin Terminal
Answered(old, new, p, outcome) ==
  /\ p \in Pair /\ outcome \in Outcome /\ p \notin Done(old)
  /\ new.validators = old.validators /\ new.status = old.status
  /\ new.validations = [old.validations EXCEPT ![p] = outcome]
Counted(old, new) == SameAnswers(old, new) /\ new.status = old.status
Closed(old, new) ==
  /\ Missing(old) = {} /\ SameAnswers(old, new) /\ new.status = TerminalStatus(old)

\* The step of the document of q, from old to new.
OrderStep(q, old, new) ==
  \/ new = old
  \/ Published(old, new)
  \/ MarkRequested(q) /\ Marked(old, new, "ASSERTIONS_REQUESTED")
  \/ AssertionsNotGenerated /\ Marked(old, new, "ASSERTIONS_NOT_AVAILABLE")
  \/ Reset(new)
  \/ FinishDispatch /\ consumer.msg.order = q /\ Dispatched(old, new, consumer.plan)
  \/ \E p, outcome : Answered(old, new, p, outcome)
  \/ Counted(old, new)
  \/ Closed(old, new)

LEMMA PublicationStep ==
  ASSUME IInv, Fresh, NEW q \in Order,
         PublishNew(q, "LIGHT") \/ MarkRequested(q) \/ PublishWithAssertions(q, "LIGHT")
  PROVE  \E doc : Set(q, doc) /\ OrderStep(q, orders[q], doc)
<1>1. orders[q] \in Doc
  BY DEF IInv, SoundOrders
<1>2. CASE PublishNew(q, "LIGHT")
  <2>1. PICK doc : doc = [Absent EXCEPT !.status = "CREATED", !.mode = "LIGHT"]
    OBVIOUS
  <2>2. Set(q, doc)
    BY <1>2, <2>1, Zenon DEF PublishNew
  <2>3. orders[q] = Absent
    BY <1>2 DEF PublishNew, Fresh, Untouched
  <2>4. SameAnswers(Absent, doc) /\ doc.status = "CREATED"
    BY <2>1 DEF Absent, SameAnswers
  <2> QED BY <2>2, <2>3, <2>4 DEF OrderStep, Published
<1>3. CASE PublishWithAssertions(q, "LIGHT")
  <2>1. PICK doc : doc = [Absent EXCEPT !.status = "ASSERTIONS_REQUESTED", !.mode = "LIGHT",
                                        !.assertions = TRUE]
    OBVIOUS
  <2>2. Set(q, doc)
    BY <1>3, <2>1, Zenon DEF PublishWithAssertions
  <2>3. orders[q] = Absent
    BY <1>3 DEF PublishWithAssertions, Fresh, Untouched
  <2>4. SameAnswers(Absent, doc) /\ doc.status = "ASSERTIONS_REQUESTED"
    BY <2>1 DEF Absent, SameAnswers
  <2> QED BY <2>2, <2>3, <2>4 DEF OrderStep, Published
<1>4. CASE MarkRequested(q)
  <2>1. PICK doc : doc = [orders[q] EXCEPT !.status = "ASSERTIONS_REQUESTED"]
    OBVIOUS
  <2>2. Set(q, doc)
    BY <1>4, <2>1, Zenon DEF MarkRequested
  <2>3. SameAnswers(orders[q], doc) /\ doc.status = "ASSERTIONS_REQUESTED"
    BY <1>1, <2>1 DEF Doc, SameAnswers
  <2> QED BY <1>4, <2>2, <2>3 DEF OrderStep, Marked
<1> QED BY <1>2, <1>3, <1>4

LEMMA MessageStepWrites ==
  ASSUME IInv, MessageStep
  PROVE  \/ orders' = orders
         \/ \E doc : /\ Set(consumer.msg.order, doc)
                     /\ OrderStep(consumer.msg.order, orders[consumer.msg.order], doc)
<1>1. PICK o \in Order : o = consumer.msg.order /\ orders[o] \in Doc
  BY MessageScope DEF IInv, SoundOrders
<1>2. CASE AssertionsNotGenerated
  <2>1. PICK doc : doc = [orders[o] EXCEPT !.status = "ASSERTIONS_NOT_AVAILABLE"]
    OBVIOUS
  <2>2. Set(o, doc)
    BY <1>1, <1>2, <2>1, Zenon DEF AssertionsNotGenerated
  <2>3. SameAnswers(orders[o], doc) /\ doc.status = "ASSERTIONS_NOT_AVAILABLE"
    BY <1>1, <2>1 DEF Doc, SameAnswers
  <2> QED BY <1>1, <1>2, <2>2, <2>3 DEF OrderStep, Marked
<1>3. CASE StartLightFlow
  <2>1. PICK doc : doc = DocumentCreated(orders[o])
    OBVIOUS
  <2>2. Set(o, doc)
    BY <1>1, <1>3, <2>1, Zenon DEF StartLightFlow
  <2>3. Reset(doc)
    BY <1>1, <2>1, NewDocument DEF Reset
  <2> QED BY <1>1, <2>2, <2>3 DEF OrderStep
<1>4. CASE SendLightRequest \/ LightRequestFails
  BY <1>4 DEF SendLightRequest, LightRequestFails
<1>5. CASE FinishDispatch
  <2>1. PICK plan : plan = consumer.plan
    OBVIOUS
  <2>2. PICK status \in {"NO_VALIDATORS_AVAILABLE", "VALIDATION_PENDING"} :
          status = IF plan = {} THEN "NO_VALIDATORS_AVAILABLE" ELSE "VALIDATION_PENDING"
    OBVIOUS
  <2>3. PICK doc : doc = [orders[o] EXCEPT
                            !.validators = plan, !.validation_requests = plan,
                            !.validators_pending = Cardinality(plan), !.status = status]
    OBVIOUS
  <2>4. Set(o, doc)
    BY <1>1, <1>5, <2>1, <2>2, <2>3, Zenon DEF FinishDispatch
  <2>5. Dispatched(orders[o], doc, consumer.plan)
    BY <1>1, <2>1, <2>2, <2>3 DEF Doc, Dispatched, Terminal
  <2> QED BY <1>1, <1>5, <2>4, <2>5 DEF OrderStep
<1>6. CASE StartLightValidation
  <2>1. CASE IgnoreDuplicate(o)
    BY <2>1 DEF IgnoreDuplicate
  <2>2. CASE RecordAnswer(o)
    <3>1. PICK p \in Pair, outcome \in Outcome : p = consumer.msg.pair /\ outcome = consumer.msg.outcome
      BY <1>6, InHand, MessageFields DEF IInv, StartLightValidation, Handling
    <3>2. PICK doc : doc = [orders[o] EXCEPT !.validations[p] = outcome]
      OBVIOUS
    <3>3. Set(o, doc) /\ p \notin Done(orders[o])
      BY <2>2, <3>1, <3>2, Zenon DEF RecordAnswer, AlreadyDone
    <3>4. Answered(orders[o], doc, p, outcome)
      BY <1>1, <3>1, <3>2, <3>3, AnsweredDocument DEF Answered
    <3> QED BY <1>1, <3>3, <3>4 DEF OrderStep
  <2> QED BY <1>1, <1>6, <2>1, <2>2 DEF StartLightValidation
<1>7. CASE FinishLightValidation
  <2>1. CASE LogValidation(o)
    BY <2>1 DEF LogValidation
  <2>2. CASE CountPending(o)
    <3>1. PICK doc : doc = [orders[o] EXCEPT !.validators_pending = Cardinality(Missing(orders[o]))]
      OBVIOUS
    <3>2. Set(o, doc)
      BY <2>2, <3>1, Zenon DEF CountPending, CountAs
    <3>3. Counted(orders[o], doc)
      BY <1>1, <3>1 DEF Doc, Counted, SameAnswers
    <3> QED BY <1>1, <3>2, <3>3 DEF OrderStep
  <2>3. CASE CloseOrder(o)
    <3>1. PICK doc : doc = [orders[o] EXCEPT !.status = TerminalStatus(orders[o])]
      OBVIOUS
    <3>2. Set(o, doc)
      BY <2>3, <3>1, Zenon DEF CloseOrder
    <3>3. Missing(orders[o]) = {}
      BY <1>1, <2>3 DEF CloseOrder, IInv, CloseIsDue
    <3>4. Closed(orders[o], doc)
      BY <1>1, <3>1, <3>3 DEF Doc, Closed, SameAnswers
    <3> QED BY <1>1, <3>2, <3>4 DEF OrderStep
  <2> QED BY <1>1, <1>7, <2>1, <2>2, <2>3 DEF FinishLightValidation
<1> QED BY <1>2, <1>3, <1>4, <1>5, <1>6, <1>7 DEF MessageStep

\* Every step writes at most one document, in one of these ways.
LEMMA NextWrites ==
  ASSUME IInv, Fresh, [Next]_vars
  PROVE  \/ orders' = orders
         \/ \E q \in Order :
              /\ OrderStep(q, orders[q], orders'[q])
              /\ orders' = [orders EXCEPT ![q] = orders'[q]]
<1>1. ASSUME NEW q \in Order, NEW doc, Set(q, doc), OrderStep(q, orders[q], doc)
      PROVE  /\ OrderStep(q, orders[q], orders'[q])
             /\ orders' = [orders EXCEPT ![q] = orders'[q]]
  <2>1. orders' = [orders EXCEPT ![q] = doc] /\ orders'[q] = doc
    BY <1>1 DEF Set, IInv, SoundOrders
  <2> QED BY <1>1, <2>1
<1>2. CASE MessageStep
  BY <1>1, <1>2, MessageStepWrites, MessageScope
<1>3. CASE \E q \in Order : \/ PublishNew(q, "LIGHT") \/ MarkRequested(q)
                            \/ PublishWithAssertions(q, "LIGHT")
  BY <1>1, <1>3, PublicationStep
<1>4. CASE \/ UNCHANGED vars \/ Fetch \/ Crash
           \/ \E q \in Order : \/ SendGenerate(q) \/ GenerateAssertions(q)
                               \/ \E n \in Assertion : SendGiven(q, n)
                               \/ \E p \in Pair : Answer(q, p)
  BY <1>4 DEF vars, handlerVars, Fetch, Crash, SendGenerate, GenerateAssertions, Generate,
              SendGiven, Answer
<1> QED BY <1>2, <1>3, <1>4 DEF Next, Handler, HandlerNext, MessageStep

-----------------------------------------------------------------------------
LEMMA StepKeepsAnswers ==
  ASSUME NEW q \in Order, NEW old \in Doc, NEW new \in Doc, OrderStep(q, old, new)
  PROVE  \/ \A p \in Done(old) : new.validations[p] = old.validations[p]
         \/ Done(new) = {} /\ new.status = "DOCUMENT_CREATED"
<1>1. CASE SameAnswers(old, new) \/ Dispatched(old, new, consumer.plan) \/ new = old
  BY <1>1 DEF SameAnswers, Dispatched
<1>2. CASE Reset(new)
  BY <1>2 DEF Reset, Done, NoValidations
<1>3. ASSUME NEW p, NEW outcome, Answered(old, new, p, outcome)
      PROVE  \A r \in Done(old) : new.validations[r] = old.validations[r]
  BY <1>3 DEF Answered, Done, Doc
<1> QED BY <1>1, <1>2, <1>3 DEF OrderStep, Published, Marked, Counted, Closed

\* The first answer of a validator is never replaced, for any number of
\* restarts, redelivered answers and repeated ones.
THEOREM FirstAnswerTheorem == Spec => FirstAnswerWins
<1>1. IInv /\ IInv' /\ Fresh /\ [Next]_vars => [AnswersAreKept]_handlerVars
  <2> SUFFICES ASSUME IInv, IInv', Fresh, [Next]_vars PROVE AnswersAreKept
    OBVIOUS
  <2>1. CASE orders' = orders
    BY <2>1 DEF AnswersAreKept
  <2>2. ASSUME NEW q \in Order, OrderStep(q, orders[q], orders'[q]),
               orders' = [orders EXCEPT ![q] = orders'[q]]
        PROVE  AnswersAreKept
    <3>1. \A o \in Order : orders[o] \in Doc /\ orders'[o] \in Doc
      BY DEF IInv, SoundOrders
    <3>2. \A o \in Order : o # q => orders'[o] = orders[o]
      <4>1. orders \in [Order -> Doc]
        BY DEF IInv, SoundOrders
      <4> QED BY <2>2, <4>1
    <3> QED BY <2>2, <3>1, <3>2, StepKeepsAnswers DEF AnswersAreKept
  <2> QED BY <2>1, <2>2, NextWrites
<1> QED BY <1>1, Invariance, FreshTheorem, PTL DEF Spec, FirstAnswerWins

-----------------------------------------------------------------------------
(* Orders that are all published with their assertions: the generator is not *)
(* asked, and nothing takes the status back.                                 *)

GivenInv ==
  /\ \A o \in Order : publisher[o] \notin {"saved", "sent"} /\ generation[o] = "none"
  /\ \A i \in DOMAIN topic : topic[i].action # "assertions_not_generated"
  /\ consumer.at # "idle" => consumer.msg.action # "assertions_not_generated"
  /\ consumer.at = "dispatch" => orders[consumer.msg.order].status \notin Terminal

LEMMA AppendGiven ==
  ASSUME TypeOfTheRest, GivenInv, NEW m \in Message, m.action # "assertions_not_generated",
         topic' = Append(topic, m)
  PROVE  \A i \in DOMAIN topic' : topic'[i].action # "assertions_not_generated"
<1>1. topic \in Seq(Message) /\ \A i \in DOMAIN topic : topic[i].action # "assertions_not_generated"
  BY DEF TypeOfTheRest, GivenInv
<1>2. DOMAIN topic' = 1..(Len(topic) + 1) /\ DOMAIN topic = 1..Len(topic) /\ Len(topic) \in Nat
      /\ topic'[Len(topic) + 1] = m /\ \A i \in 1..Len(topic) : topic'[i] = topic[i]
  BY <1>1
<1> QED BY <1>1, <1>2

LEMMA WorkersGiven ==
  ASSUME Paths = {"assertions"}, IInv, GivenInv, NEW q \in Order,
         \/ SendGenerate(q) \/ GenerateAssertions(q) \/ MarkRequested(q)
         \/ PublishNew(q, "LIGHT")
         \/ (\E n \in Assertion : SendGiven(q, n)) \/ \E p \in Pair : Answer(q, p)
  PROVE  GivenInv'
<1>1. ~ (SendGenerate(q) \/ GenerateAssertions(q) \/ MarkRequested(q) \/ PublishNew(q, "LIGHT"))
  BY DEF SendGenerate, GenerateAssertions, Generate, MarkRequested, PublishNew, GivenInv
<1>2. CASE \E n \in Assertion : SendGiven(q, n)
  <2>1. PICK m \in Message : /\ topic' = Append(topic, m)
                             /\ m.action # "assertions_not_generated"
    BY <1>2, Messages DEF SendGiven, Generated
  <2>2. \A o \in Order : publisher'[o] \notin {"saved", "sent"}
    BY <1>2 DEF SendGiven, GivenInv, IInv, TypeOfTheRest
  <2> QED BY <1>2, <2>1, <2>2, AppendGiven DEF SendGiven, GivenInv, IInv
<1>3. CASE \E p \in Pair : Answer(q, p)
  <2>1. PICK m \in Message : /\ topic' = Append(topic, m)
                             /\ m.action # "assertions_not_generated"
    BY <1>3, Messages DEF Answer, Completed
  <2> QED BY <1>3, <2>1, AppendGiven DEF Answer, GivenInv, IInv
<1> QED BY <1>1, <1>2, <1>3

LEMMA NextGiven ==
  ASSUME Paths = {"assertions"}, IInv, IInv', Fresh, GivenInv, [Next]_vars
  PROVE  GivenInv'
<1>1. CASE UNCHANGED vars
  BY <1>1 DEF vars, handlerVars, outsideVars, GivenInv
<1>2. ASSUME NEW q \in Order, UNCHANGED requests, PublishWithAssertions(q, "LIGHT")
      PROVE  GivenInv'
  <2>1. \A o \in Order : publisher'[o] \notin {"saved", "sent"}
    BY <1>2 DEF PublishWithAssertions, GivenInv, IInv, TypeOfTheRest
  <2>2. consumer.at = "dispatch" => orders'[consumer.msg.order] = orders[consumer.msg.order]
    <3>1. consumer.at = "dispatch" => consumer.msg.order \in Order /\ consumer.msg.order # q
      BY <1>2, InHand DEF IInv, Fresh, Untouched, PublishWithAssertions
    <3> QED BY <1>2, <3>1 DEF PublishWithAssertions, Set, IInv, SoundOrders
  <2> QED BY <1>2, <2>1, <2>2 DEF PublishWithAssertions, GivenInv
<1>3. CASE Fetch /\ UNCHANGED requests
  <2>1. position + 1 \in DOMAIN topic
    BY <1>3 DEF Fetch, IInv, TypeOfTheRest
  <2> QED BY <1>3, <2>1 DEF Fetch, GivenInv
<1>4. CASE Crash /\ UNCHANGED requests
  <2>1. \A o \in Order : publisher'[o] \notin {"saved", "sent"}
    BY <1>4 DEF Crash, GivenInv
  <2> QED BY <1>4, <2>1 DEF Crash, GivenInv, Idle
<1>5. CASE MessageStep
  <2>1. /\ UNCHANGED <<publisher, generation, topic>>
        /\ consumer'.at # "idle" => consumer'.msg = consumer.msg /\ consumer.at # "idle"
        /\ consumer.msg.order \in Order
    BY <1>5, MessageScope
  <2>2. consumer'.at = "dispatch" => orders'[consumer.msg.order].status \notin Terminal
    <3>1. CASE StartLightFlow
      <4>1. orders'[consumer.msg.order] = DocumentCreated(orders[consumer.msg.order])
        BY <2>1, <3>1 DEF StartLightFlow, Set, IInv, SoundOrders
      <4>2. orders[consumer.msg.order] \in Doc
        BY <2>1 DEF IInv, SoundOrders
      <4> QED BY <4>1, <4>2, NewDocument DEF Terminal
    <3>2. CASE SendLightRequest \/ LightRequestFails
      BY <3>2 DEF SendLightRequest, LightRequestFails, GivenInv
    <3>3. CASE AssertionsNotGenerated \/ FinishDispatch
      BY <3>3 DEF AssertionsNotGenerated, FinishDispatch, Return, Idle
    <3>4. CASE StartLightValidation \/ FinishLightValidation
      <4>1. consumer.at # "idle" /\ consumer.at \in Step /\ TypeOfTheRest
        BY <1>5, MessageScope, InHand DEF IInv
      <4>2. \A label \in Step : Continue(label) => consumer'.at = label
        BY <4>1, Continued
      <4>3. Return => consumer'.at = "idle"
        BY DEF Return, Idle
      <4> QED BY <3>4, <4>2, <4>3 DEF StartLightValidation, FinishLightValidation,
                IgnoreDuplicate, RecordAnswer, LogValidation, CountPending, CountAs, CloseOrder, Step
    <3> QED BY <1>5, <3>1, <3>2, <3>3, <3>4 DEF MessageStep
  <2> QED BY <2>1, <2>2 DEF GivenInv
<1> QED BY <1>1, <1>2, <1>3, <1>4, <1>5, WorkersGiven DEF Next, Handler, HandlerNext, MessageStep

-----------------------------------------------------------------------------
(* The step of the lifecycle that a step of a document maps to *)

result(doc) == IF doc.status \in Terminal THEN doc.status ELSE "open"

LEMMA LifecycleStep ==
  ASSUME IInv, IInv', Fresh, GivenInv, NEW q \in Order,
         OrderStep(q, orders[q], orders'[q]), orders' = [orders EXCEPT ![q] = orders'[q]]
  PROVE  [Lifecycle!Next]_(Lifecycle!vars)
<1> DEFINE expected == [o \in Order |-> orders[o].validators]
           answers == [o \in Order |-> orders[o].validations]
           results == [o \in Order |-> IF orders[o].status \in Terminal
                                       THEN orders[o].status ELSE "open"]
<1>1. PICK old \in Doc, new \in Doc :
        /\ old = orders[q] /\ new = orders'[q]
        /\ orders' = [orders EXCEPT ![q] = new] /\ orders \in [Order -> Doc]
  BY DEF IInv, SoundOrders
<1>2. /\ expected' = [expected EXCEPT ![q] = new.validators]
      /\ answers' = [answers EXCEPT ![q] = new.validations]
      /\ results' = [results EXCEPT ![q] = result(new)]
  BY <1>1 DEF result
<1>3. expected[q] = old.validators /\ answers[q] = old.validations /\ results[q] = result(old)
  BY <1>1 DEF result
<1>4. /\ new.validators = old.validators => expected' = expected
      /\ new.validations = old.validations => answers' = answers
      /\ result(new) = result(old) => results' = results
  <2>1. \A o \in Order : orders'[o] = IF o = q THEN new ELSE orders[o]
    BY <1>1
  <2>2. new.validators = old.validators =>
          \A o \in Order : orders'[o].validators = orders[o].validators
    BY <1>1, <2>1
  <2>3. new.validations = old.validations =>
          \A o \in Order : orders'[o].validations = orders[o].validations
    BY <1>1, <2>1
  <2>4. result(new) = result(old) => \A o \in Order : result(orders'[o]) = result(orders[o])
    BY <1>1, <2>1
  <2>5. /\ expected' = [o \in Order |-> orders'[o].validators]
        /\ answers' = [o \in Order |-> orders'[o].validations]
        /\ results' = [o \in Order |-> result(orders'[o])]
        /\ results = [o \in Order |-> result(orders[o])]
    BY DEF result
  <2> QED BY <2>2, <2>3, <2>4, <2>5
<1>5. CASE SameAnswers(old, new) /\ result(new) = result(old)
  <2>1. expected' = expected /\ answers' = answers /\ results' = results
    BY <1>4, <1>5 DEF SameAnswers
  <2> QED BY <2>1 DEF Lifecycle!vars
<1>6. CASE Reset(new)
  <2>1. Lifecycle!Restart(q)
    BY <1>2, <1>6 DEF Lifecycle!Restart, Reset, NoValidations, result, Terminal
  <2> QED BY <2>1 DEF Lifecycle!Next
<1>7. CASE FinishDispatch /\ consumer.msg.order = q /\ Dispatched(old, new, consumer.plan)
  <2>1. old.status \notin Terminal
    BY <1>1, <1>7 DEF FinishDispatch, GivenInv
  <2>2. PICK plan \in SUBSET Pair : plan = consumer.plan
    BY <1>7, InHand DEF FinishDispatch, IInv
  <2>3. answers' = answers /\ results' = results
    BY <1>4, <1>7, <2>1 DEF Dispatched, result
  <2>4. Lifecycle!Expect(q, plan)
    BY <1>2, <1>3, <1>7, <2>1, <2>2, <2>3 DEF Lifecycle!Expect, Dispatched, result
  <2>5. \E S \in SUBSET Pair : Lifecycle!Expect(q, S)
    BY <2>4, Zenon
  <2> QED BY <2>5, Zenon DEF Lifecycle!Next
<1>8. ASSUME NEW p, NEW outcome, Answered(old, new, p, outcome)
      PROVE  [Lifecycle!Next]_(Lifecycle!vars)
  <2>1. expected' = expected /\ results' = results
    BY <1>4, <1>8 DEF Answered, result
  <2>2. answers[q][p] = NoAnswer /\ answers' = [answers EXCEPT ![q][p] = outcome]
    BY <1>1, <1>2, <1>3, <1>8 DEF Answered, Done
  <2>3. Lifecycle!Record(q, p, outcome)
    BY <2>1, <2>2 DEF Lifecycle!Record
  <2> QED BY <1>8, <2>3 DEF Lifecycle!Next, Answered
<1>9. CASE Closed(old, new)
  <2>1. expected' = expected /\ answers' = answers
    BY <1>4, <1>9 DEF Closed, SameAnswers
  <2>2. \A p \in expected[q] : answers[q][p] # NoAnswer
    BY <1>1, <1>3, <1>9 DEF Closed, Missing, Done, Doc
  <2>3. result(new) = IF \E p \in Pair : answers[q][p] = "ERROR"
                      THEN "VALIDATED_WITH_ERRORS" ELSE "VALIDATED"
    BY <1>3, <1>9 DEF Closed, result, TerminalStatus, Terminal
  <2>4. Lifecycle!Close(q)
    BY <1>2, <2>1, <2>2, <2>3 DEF Lifecycle!Close
  <2> QED BY <2>4 DEF Lifecycle!Next
<1>10. \/ SameAnswers(old, new) /\ result(new) = result(old)
       \/ Reset(new)
       \/ FinishDispatch /\ consumer.msg.order = q /\ Dispatched(old, new, consumer.plan)
       \/ \E p, outcome : Answered(old, new, p, outcome)
       \/ Closed(old, new)
  <2>1. ~ AssertionsNotGenerated /\ ~ MarkRequested(q)
    BY DEF AssertionsNotGenerated, Handling, MarkRequested, GivenInv
  <2>2. Published(old, new) \/ Counted(old, new) \/ new = old =>
          SameAnswers(old, new) /\ result(new) = result(old)
    BY DEF Published, Counted, SameAnswers, result, Absent, Terminal
  <2> QED BY <1>1, <2>1, <2>2 DEF OrderStep
<1> QED BY <1>5, <1>6, <1>7, <1>8, <1>9, <1>10

\* A LIGHT order published with its assertions implements OrderLifecycle: its
\* result appears only when nobody is missing, says what the answers say, and
\* stays until the assertions are received again.
THEOREM RefinementTheorem ==
  ASSUME Paths = {"assertions"}
  PROVE  Spec => ImplementsLifecycle
<1>1. Init => Lifecycle!Init
  BY DEF Init, HandlerInit, Lifecycle!Init, Absent, NoValidations, Terminal
<1>2. Init => GivenInv
  BY DEF Init, HandlerInit, GivenInv, Idle
<1>3. IInv /\ IInv' /\ Fresh /\ GivenInv /\ [Next]_vars => GivenInv'
  BY NextGiven
<1>4. IInv /\ IInv' /\ Fresh /\ GivenInv /\ [Next]_vars => [Lifecycle!Next]_(Lifecycle!vars)
  <2> SUFFICES ASSUME IInv, IInv', Fresh, GivenInv, [Next]_vars
               PROVE  [Lifecycle!Next]_(Lifecycle!vars)
    OBVIOUS
  <2>1. CASE orders' = orders
    BY <2>1 DEF Lifecycle!vars
  <2> QED BY <2>1, NextWrites, LifecycleStep
<1> QED BY <1>1, <1>2, <1>3, <1>4, Invariance, FreshTheorem, PTL
       DEF Spec, ImplementsLifecycle, Lifecycle!Spec

-----------------------------------------------------------------------------
(* As long as nothing goes wrong *)

\* An order is begun when its assertions reached start_light_flow.
Begun(o) ==
  \E i \in 1..position :
    /\ topic[i].action = "assertions_generated" /\ topic[i].order = o
    /\ ~ (consumer.at = "start" /\ i = position)

\* The handler in execution works on o, at one of these steps.
At(steps, o) == consumer.at \in steps /\ consumer.msg.order = o

\* A document that expects nobody and that nobody answered.
Quiet(doc) ==
  /\ doc.validators = {} /\ doc.validations = NoValidations /\ doc.validators_pending = 0
  /\ doc.status \notin Terminal \cup {"VALIDATION_PENDING"}

Opening(m, o) == m.order = o /\ m.action # "light_validation_completed"
Reply(m, o, p) == m.action = "light_validation_completed" /\ m.order = o /\ m.pair = p

\* The validator of the pair was asked, or answered.
Involved(o, p) == requests[<<o, p>>] > 0 \/ \E i \in DOMAIN topic : Reply(topic[i], o, p)

\* The generator answers an order once, and only one it was asked about.
OneOpening(o) ==
  /\ \A i, j \in DOMAIN topic : Opening(topic[i], o) /\ Opening(topic[j], o) => i = j
  /\ publisher[o] \in {"none", "saved", "given"} => generation[o] = "none"
  /\ publisher[o] \in {"none", "saved", "given"} \/ generation[o] = "queued" =>
       \A i \in DOMAIN topic : ~ Opening(topic[i], o)

\* The handler in execution works on the last message handed to it.
LastInHand ==
  /\ consumer.at # "idle" => position \in DOMAIN topic /\ consumer.msg = topic[position]
  /\ consumer.at = "dispatch" => /\ consumer.msg.action = "assertions_generated"
                                 /\ consumer.todo \subseteq consumer.plan

\* Who may be asked or have answered: the validators of the plan while requests
\* are sent, those of the document afterwards.
InvolvedAreExpected(o) ==
  \A p \in Pair : Involved(o, p) =>
    p \in (IF At({"dispatch"}, o) THEN consumer.plan ELSE orders[o].validators)

\* The log of validations never runs ahead of the document.
RowsFollow(o) ==
  /\ \A p \in Pair : <<o, p>> \in rows => p \in Done(orders[o])
  /\ At({"row"}, o) => /\ <<o, consumer.msg.pair>> \notin rows
                       /\ consumer.msg.pair \in Done(orders[o])

\* The count and the status are those the answers call for, but for the writes
\* the handler in execution has still to make.
Exact(o) ==
  /\ ~ At({"row", "count"}, o) =>
       orders[o].validators_pending = Cardinality(Missing(orders[o]))
  /\ ~ At({"row", "count", "close"}, o) /\ orders[o].status = "VALIDATION_PENDING" =>
       Missing(orders[o]) # {}
  /\ orders[o].status \in Terminal => orders[o].status = TerminalStatus(orders[o])

CalmOrder(o) ==
  /\ ~ Begun(o) \/ At({"dispatch"}, o) => Quiet(orders[o])
  /\ InvolvedAreExpected(o)
  /\ RowsFollow(o)
  /\ Exact(o)

CalmInv == LastInHand /\ \A o \in Order : OneOpening(o) /\ CalmOrder(o)

-----------------------------------------------------------------------------
\* Faults and repeated answers are never forgotten.
LEMMA CalmSteps ==
  ASSUME IInv, [Next]_vars, Calm'
  PROVE  /\ Calm
         /\ ~ Crash /\ ~ LightRequestFails
         /\ ~ SendAgain
<1>1. faults \in Nat /\ repeats \in Nat
  BY FaultAssumption DEF IInv, TypeOfTheRest
<1>2. ~ Crash /\ ~ LightRequestFails /\ ~ SendAgain
  BY <1>1 DEF Calm, Crash, LightRequestFails, Fault, SendAgain
<1>3. CASE UNCHANGED vars
  BY <1>2, <1>3 DEF vars, handlerVars, outsideVars, Calm
<1>4. CASE HandlerNext("LIGHT")
  BY <1>2, <1>4 DEF HandlerNext, PublishNew, SendGenerate, MarkRequested, PublishWithAssertions,
     SendGiven, GenerateAssertions, Generate, Fetch, AssertionsNotGenerated, outsideVars, Calm
<1>5. CASE Handler \/ \E o \in Order, p \in Pair : Answer(o, p)
  BY <1>2, <1>5 DEF Handler, StartLightFlow, SendLightRequest, FinishDispatch,
     StartLightValidation, FinishLightValidation, IgnoreDuplicate, RecordAnswer, LogValidation,
     CountPending, CountAs, CloseOrder, Answer, outsideVars, Calm
<1> QED BY <1>2, <1>3, <1>4, <1>5 DEF Next

\* A document that expects nobody misses nobody.
LEMMA QuietDocument ==
  ASSUME NEW doc, Quiet(doc)
  PROVE  Missing(doc) = {} /\ Done(doc) = {} /\ Cardinality(Missing(doc)) = 0
BY FS_EmptySet DEF Quiet, Missing, Done, NoValidations

LEMMA InitCalm == Init => CalmInv
<1> SUFFICES ASSUME Init PROVE CalmInv
  OBVIOUS
<1> USE DEF Init, HandlerInit
<1>1. LastInHand
  BY DEF LastInHand, Idle
<1>2. ASSUME NEW o \in Order PROVE OneOpening(o) /\ CalmOrder(o)
  <2>1. Quiet(orders[o])
    BY DEF Quiet, Absent, Terminal
  <2>2. OneOpening(o)
    BY DEF OneOpening
  <2>3. InvolvedAreExpected(o) /\ RowsFollow(o)
    BY DEF InvolvedAreExpected, Involved, RowsFollow, At, Idle
  <2>4. Exact(o)
    BY <2>1, QuietDocument DEF Quiet, Exact
  <2> QED BY <2>1, <2>2, <2>3, <2>4 DEF CalmOrder
<1> QED BY <1>1, <1>2 DEF CalmInv

-----------------------------------------------------------------------------
(* Orders a step does not work on *)

\* Nothing that the invariant says of o changes, but for messages that ask and
\* answer nobody new.
LEMMA OtherOrder ==
  ASSUME NEW o \in Order, CalmOrder(o), orders'[o] = orders[o],
         \A p \in Pair : <<o, p>> \in rows' => <<o, p>> \in rows,
         \A p \in Pair : Involved(o, p)' => Involved(o, p),
         Begun(o) => Begun(o)',
         \/ UNCHANGED consumer
         \/ /\ consumer.at \in {"idle", "start"} \/ consumer.msg.order # o
            /\ consumer'.at \in {"idle", "start"} \/ consumer'.msg.order # o
  PROVE  CalmOrder(o)'
<1>1. \A steps \in SUBSET {"dispatch", "row", "count", "close"} : At(steps, o)' <=> At(steps, o)
  BY DEF At
<1>2. /\ At({"dispatch"}, o)' <=> At({"dispatch"}, o)
      /\ At({"row"}, o)' <=> At({"row"}, o)
      /\ At({"row", "count"}, o)' <=> At({"row", "count"}, o)
      /\ At({"row", "count", "close"}, o)' <=> At({"row", "count", "close"}, o)
  BY <1>1
<1>3. At({"dispatch"}, o) \/ At({"row"}, o) => UNCHANGED consumer
  BY DEF At
<1>4. (~ Begun(o) \/ At({"dispatch"}, o) => Quiet(orders[o]))'
  BY <1>2 DEF CalmOrder, Quiet
<1>5. InvolvedAreExpected(o)'
  BY <1>2, <1>3 DEF CalmOrder, InvolvedAreExpected
<1>6. RowsFollow(o)'
  <2>1. \A p \in Pair : <<o, p>> \in rows' => p \in Done(orders'[o])
    BY DEF CalmOrder, RowsFollow, Done
  <2>2. ASSUME At({"row"}, o)
        PROVE  <<o, consumer'.msg.pair>> \notin rows' /\ consumer'.msg.pair \in Done(orders'[o])
    <3>1. /\ consumer' = consumer /\ <<o, consumer.msg.pair>> \notin rows
          /\ consumer.msg.pair \in Done(orders[o])
      BY <1>3, <2>2 DEF CalmOrder, RowsFollow
    <3>2. consumer.msg.pair \in Pair
      BY <3>1 DEF Done
    <3> QED BY <3>1, <3>2 DEF Done
  <2> QED BY <1>2, <2>1, <2>2 DEF RowsFollow, Done
<1>7. Exact(o)'
  BY <1>2 DEF CalmOrder, Exact, Missing, Done, TerminalStatus
<1> QED BY <1>4, <1>5, <1>6, <1>7 DEF CalmOrder

\* A message more in the log takes nothing away.
LEMMA LongerLog ==
  ASSUME TypeOfTheRest, NEW m \in Message, topic' = Append(topic, m), UNCHANGED <<position, consumer>>,
         NEW o \in Order
  PROVE  /\ Len(topic') = Len(topic) + 1 /\ topic'[Len(topic) + 1] = m
         /\ DOMAIN topic' = 1..(Len(topic) + 1) /\ DOMAIN topic = 1..Len(topic)
         /\ Len(topic) \in Nat
         /\ \A i \in DOMAIN topic : i \in DOMAIN topic' /\ topic'[i] = topic[i]
         /\ Begun(o) => Begun(o)'
         /\ LastInHand => LastInHand'
<1>1. topic \in Seq(Message) /\ position \in 0..Len(topic)
  BY DEF TypeOfTheRest
<1>2. /\ Len(topic') = Len(topic) + 1 /\ topic'[Len(topic) + 1] = m
      /\ DOMAIN topic' = 1..(Len(topic) + 1) /\ DOMAIN topic = 1..Len(topic)
      /\ Len(topic) \in Nat
      /\ \A i \in DOMAIN topic : i \in DOMAIN topic' /\ topic'[i] = topic[i]
  BY <1>1
<1>3. \A i \in 1..position : topic'[i] = topic[i]
  BY <1>1, <1>2
<1>4. Begun(o) => Begun(o)'
  BY <1>3 DEF Begun
<1>5. LastInHand => LastInHand'
  BY <1>2 DEF LastInHand
<1> QED BY <1>2, <1>4, <1>5

\* A message of the generator comes while none was there.
LEMMA AppendOpening ==
  ASSUME TypeOfTheRest, CalmInv, NEW q \in Order, NEW m \in Message, Opening(m, q),
         topic' = Append(topic, m),
         UNCHANGED <<orders, rows, position, consumer, requests>>,
         \A i \in DOMAIN topic : ~ Opening(topic[i], q),
         generation'[q] # "queued", publisher'[q] \notin {"none", "saved", "given"},
         \A o \in Order : o # q => /\ generation'[o] = generation[o]
                                   /\ publisher'[o] = publisher[o]
  PROVE  CalmInv'
<1>1. ASSUME NEW o \in Order PROVE OneOpening(o)'
  <2>1. OneOpening(o)
    BY DEF CalmInv
  <2>2. CASE o = q
    <3>1. \A i \in DOMAIN topic' : Opening(topic'[i], q) => i = Len(topic) + 1
      BY LongerLog DEF Opening
    <3> QED BY <2>2, <3>1 DEF OneOpening
  <2>3. CASE o # q
    <3>1. \A i \in DOMAIN topic' : Opening(topic'[i], o) => i \in DOMAIN topic /\ Opening(topic[i], o)
      BY <2>3, LongerLog DEF Opening
    <3> QED BY <2>1, <2>3, <3>1 DEF OneOpening
  <2> QED BY <2>2, <2>3
<1>2. ASSUME NEW o \in Order PROVE CalmOrder(o)'
  <2>1. CalmOrder(o)
    BY DEF CalmInv
  <2>2. \A p \in Pair : Involved(o, p)' => Involved(o, p)
    BY LongerLog DEF Involved, Reply, Opening
  <2>3. Begun(o) => Begun(o)'
    BY LongerLog
  <2> QED BY <2>1, <2>2, <2>3, OtherOrder
<1>3. LastInHand'
  BY LongerLog DEF CalmInv
<1> QED BY <1>1, <1>2, <1>3 DEF CalmInv

LEMMA WorkersCalm ==
  ASSUME IInv, CalmInv, ~ SendAgain, NEW q \in Order,
         \/ SendGenerate(q) /\ UNCHANGED requests
         \/ GenerateAssertions(q) /\ UNCHANGED requests
         \/ (\E n \in Assertion : SendGiven(q, n)) /\ UNCHANGED requests
         \/ \E p \in Pair : Answer(q, p)
  PROVE  CalmInv'
<1>1. TypeOfTheRest /\ OneOpening(q)
  BY DEF IInv, CalmInv
<1>2. CASE SendGenerate(q) /\ UNCHANGED requests
  <2>1. LastInHand'
    BY <1>2 DEF SendGenerate, CalmInv, LastInHand
  <2>2. ASSUME NEW o \in Order PROVE OneOpening(o)'
    <3>1. OneOpening(o)
      BY DEF CalmInv
    <3>2. CASE o = q
      <4>1. /\ \A i \in DOMAIN topic : ~ Opening(topic[i], q)
            /\ publisher'[q] = "sent"
        BY <1>1, <1>2 DEF SendGenerate, OneOpening, TypeOfTheRest
      <4> QED BY <1>2, <3>1, <3>2, <4>1 DEF SendGenerate, OneOpening, Opening
    <3>3. CASE o # q
      <4>1. publisher'[o] = publisher[o] /\ generation'[o] = generation[o]
        BY <1>1, <1>2, <3>3 DEF SendGenerate, TypeOfTheRest
      <4> QED BY <1>2, <3>1, <4>1 DEF SendGenerate, OneOpening, Opening
    <3> QED BY <3>2, <3>3
  <2>3. ASSUME NEW o \in Order PROVE CalmOrder(o)'
    BY <1>2, <2>3, OtherOrder DEF SendGenerate, CalmInv, Involved, Begun
  <2> QED BY <2>1, <2>2, <2>3 DEF CalmInv
<1>3. ASSUME NEW m \in Message, Opening(m, q), Generate(q, m), UNCHANGED requests
      PROVE  CalmInv'
  <2>1. /\ generation[q] = "queued" /\ topic' = Append(topic, m)
        /\ UNCHANGED <<orders, rows, position, consumer, publisher>>
    BY <1>3 DEF Generate
  <2>2. /\ \A i \in DOMAIN topic : ~ Opening(topic[i], q)
        /\ publisher[q] \notin {"none", "saved", "given"}
    BY <1>1, <2>1 DEF OneOpening
  <2>3. /\ generation'[q] = "answered"
        /\ \A o \in Order : o # q => generation'[o] = generation[o]
    BY <1>1, <1>3 DEF Generate, TypeOfTheRest
  <2> QED BY <1>1, <1>3, <2>1, <2>2, <2>3, AppendOpening
<1>4. ASSUME NEW n \in Assertion, SendGiven(q, n), UNCHANGED requests
      PROVE  CalmInv'
  <2>1. /\ publisher[q] = "given" /\ topic' = Append(topic, Generated(q, n))
        /\ UNCHANGED <<orders, rows, position, consumer, generation>>
    BY <1>4 DEF SendGiven
  <2>2. \A i \in DOMAIN topic : ~ Opening(topic[i], q)
    BY <1>1, <2>1 DEF OneOpening
  <2>3. generation'[q] # "queued"
    BY <1>1, <2>1 DEF OneOpening
  <2>4. /\ publisher'[q] = "done"
        /\ \A o \in Order : o # q => publisher'[o] = publisher[o]
    BY <1>1, <1>4 DEF SendGiven, TypeOfTheRest
  <2>5. Generated(q, n) \in Message /\ Opening(Generated(q, n), q)
    BY Messages DEF Generated, Opening
  <2> QED BY <1>1, <1>4, <2>1, <2>2, <2>3, <2>4, <2>5, AppendOpening
<1>5. ASSUME NEW p \in Pair, Answer(q, p)
      PROVE  CalmInv'
  <2>1. PICK outcome \in Outcome : topic' = Append(topic, Completed(q, p, outcome))
    BY <1>5 DEF Answer
  <2>2. PICK m \in Message : m = Completed(q, p, outcome)
    BY Messages
  <2>3. /\ topic' = Append(topic, m) /\ m.action = "light_validation_completed"
        /\ m.order = q /\ m.pair = p
    BY <2>1, <2>2 DEF Completed
  <2>4. /\ UNCHANGED <<orders, rows, position, consumer, publisher, generation>>
        /\ requests[<<q, p>>] > 0 /\ requests' = [requests EXCEPT ![<<q, p>>] = @ - 1]
    BY <1>5 DEF Answer
  <2>5. ASSUME NEW o \in Order PROVE OneOpening(o)'
    <3>1. OneOpening(o)
      BY DEF CalmInv
    <3>2. \A i \in DOMAIN topic' : Opening(topic'[i], o) => i \in DOMAIN topic /\ Opening(topic[i], o)
      BY <1>1, <2>3, <2>4, LongerLog DEF Opening
    <3> QED BY <2>4, <3>1, <3>2 DEF OneOpening
  <2>6. ASSUME NEW o \in Order PROVE CalmOrder(o)'
    <3>1. CalmOrder(o)
      BY DEF CalmInv
    <3>2. \A r \in Pair : requests'[<<o, r>>] > 0 => requests[<<o, r>>] > 0
      BY <1>1, <2>4 DEF TypeOfTheRest
    <3>3. ASSUME NEW r \in Pair, Involved(o, r)' PROVE Involved(o, r)
      <4>1. CASE requests'[<<o, r>>] > 0
        BY <3>2, <4>1 DEF Involved
      <4>2. CASE \E i \in DOMAIN topic' : Reply(topic'[i], o, r)
        <5>1. PICK i \in DOMAIN topic' : Reply(topic'[i], o, r)
          BY <4>2
        <5>2. CASE i \in DOMAIN topic
          BY <1>1, <2>3, <2>4, <5>1, <5>2, LongerLog DEF Involved
        <5>3. CASE i = Len(topic) + 1
          BY <1>1, <2>3, <2>4, <5>1, <5>3, LongerLog DEF Involved, Reply
        <5> QED BY <1>1, <2>3, <2>4, <5>2, <5>3, LongerLog
      <4> QED BY <3>3, <4>1, <4>2 DEF Involved
    <3>4. Begun(o) => Begun(o)'
      BY <1>1, <2>3, <2>4, LongerLog
    <3> QED BY <2>4, <3>1, <3>3, <3>4, OtherOrder
  <2>7. LastInHand'
    BY <1>1, <2>3, <2>4, LongerLog DEF CalmInv
  <2> QED BY <2>5, <2>6, <2>7 DEF CalmInv
<1>6. NotGenerated(q) \in Message /\ Opening(NotGenerated(q), q)
  BY Messages DEF NotGenerated, Opening
<1>7. \A n \in Assertion : Generated(q, n) \in Message /\ Opening(Generated(q, n), q)
  BY Messages DEF Generated, Opening
<1> QED BY <1>2, <1>3, <1>4, <1>5, <1>6, <1>7 DEF GenerateAssertions

\* A message is fetched: the one before it was worked on to its end.
LEMMA FetchCalm ==
  ASSUME IInv, CalmInv, Fetch, UNCHANGED requests
  PROVE  CalmInv'
<1>1. TypeOfTheRest
  BY DEF IInv
<1>2. /\ position + 1 \in DOMAIN topic /\ position' = position + 1 /\ position \in Nat
      /\ consumer.at = "idle" /\ consumer'.at = "start" /\ consumer'.msg = topic[position + 1]
      /\ UNCHANGED <<orders, rows, publisher, generation, topic>>
  BY <1>1 DEF Fetch, TypeOfTheRest, Idle
<1>3. LastInHand'
  BY <1>2 DEF LastInHand
<1>4. ASSUME NEW o \in Order PROVE OneOpening(o)' /\ CalmOrder(o)'
  <2>1. OneOpening(o) /\ CalmOrder(o)
    BY DEF CalmInv
  <2>2. OneOpening(o)'
    BY <1>2, <2>1 DEF OneOpening, Opening
  <2>3. \A p \in Pair : Involved(o, p)' => Involved(o, p)
    BY <1>2 DEF Involved
  <2>4. Begun(o) => Begun(o)'
    BY <1>2 DEF Begun
  <2> QED BY <1>2, <2>1, <2>2, <2>3, <2>4, OtherOrder
<1> QED BY <1>3, <1>4 DEF CalmInv

\* The insertions meet an order nobody knows; the last write of publish_new
\* touches the status only.
LEMMA PublicationCalm ==
  ASSUME IInv, Fresh, CalmInv, NEW q \in Order, UNCHANGED requests,
         PublishNew(q, "LIGHT") \/ MarkRequested(q) \/ PublishWithAssertions(q, "LIGHT")
  PROVE  CalmInv'
<1>1. TypeOfTheRest
  BY DEF IInv
<1>2. UNCHANGED <<rows, generation, topic, position, consumer>>
  BY DEF PublishNew, MarkRequested, PublishWithAssertions
<1>3. LastInHand'
  BY <1>2 DEF CalmInv, LastInHand
<1>4. ASSUME NEW o \in Order PROVE OneOpening(o)'
  <2>1. OneOpening(o)
    BY DEF CalmInv
  <2>2. \/ publisher'[o] = publisher[o]
        \/ publisher[o] = "none"
        \/ publisher'[o] = "done"
    BY <1>1 DEF PublishNew, MarkRequested, PublishWithAssertions, TypeOfTheRest
  <2> QED BY <1>2, <2>1, <2>2 DEF OneOpening, Opening
<1>5. \A o \in Order : o # q => orders'[o] = orders[o]
  BY WriteScope DEF PublishNew, MarkRequested, PublishWithAssertions, IInv
<1>6. ASSUME NEW o \in Order, o # q PROVE CalmOrder(o)'
  <2>1. CalmOrder(o)
    BY DEF CalmInv
  <2>2. (\A p \in Pair : Involved(o, p)' => Involved(o, p)) /\ (Begun(o) => Begun(o)')
    BY <1>2 DEF Involved, Begun
  <2> QED BY <1>2, <1>5, <1>6, <2>1, <2>2, OtherOrder
<1>7. CalmOrder(q)'
  <2>1. CalmOrder(q)
    BY DEF CalmInv
  <2>2. CASE MarkRequested(q)
    <3>1. orders[q] \in Doc /\ "ASSERTIONS_REQUESTED" \in Status
      BY DEF IInv, SoundOrders, Status
    <3>2. orders'[q] = [orders[q] EXCEPT !.status = "ASSERTIONS_REQUESTED"]
      BY <2>2 DEF MarkRequested, Set, IInv, SoundOrders
    <3>3. /\ orders'[q].status = "ASSERTIONS_REQUESTED"
          /\ orders'[q].validators = orders[q].validators
          /\ orders'[q].validations = orders[q].validations
          /\ orders'[q].validators_pending = orders[q].validators_pending
      BY <3>1, <3>2 DEF Doc
    <3>4. (~ Begun(q) \/ At({"dispatch"}, q) => Quiet(orders[q]))'
      BY <1>2, <2>1, <3>3 DEF CalmOrder, Quiet, Begun, At, Terminal
    <3>5. InvolvedAreExpected(q)'
      BY <1>2, <2>1, <3>3 DEF CalmOrder, InvolvedAreExpected, Involved, At
    <3>6. RowsFollow(q)'
      BY <1>2, <2>1, <3>3 DEF CalmOrder, RowsFollow, Done, At
    <3>7. Exact(q)'
      BY <1>2, <2>1, <3>3 DEF CalmOrder, Exact, Missing, Done, At, Terminal
    <3> QED BY <3>4, <3>5, <3>6, <3>7 DEF CalmOrder
  <2>3. CASE PublishNew(q, "LIGHT") \/ PublishWithAssertions(q, "LIGHT")
    <3>1. PICK status \in {"CREATED", "ASSERTIONS_REQUESTED"}, given \in BOOLEAN :
            orders'[q] = [Absent EXCEPT !.status = status, !.mode = "LIGHT", !.assertions = given]
      <4>1. orders \in [Order -> Doc]
        BY DEF IInv, SoundOrders
      <4>2. CASE PublishNew(q, "LIGHT")
        <5>1. orders'[q] = [Absent EXCEPT !.status = "CREATED", !.mode = "LIGHT"]
          BY <4>1, <4>2 DEF PublishNew, Set
        <5>2. orders'[q] = [Absent EXCEPT !.status = "CREATED", !.mode = "LIGHT",
                                          !.assertions = FALSE]
          BY <5>1 DEF Absent
        <5> QED BY <5>2
      <4>3. CASE PublishWithAssertions(q, "LIGHT")
        <5>1. orders'[q] = [Absent EXCEPT !.status = "ASSERTIONS_REQUESTED", !.mode = "LIGHT",
                                          !.assertions = TRUE]
          BY <4>1, <4>3 DEF PublishWithAssertions, Set
        <5> QED BY <5>1
      <4> QED BY <2>3, <4>2, <4>3
    <3>2. Quiet(orders[q])'
      BY <3>1 DEF Quiet, Absent, Terminal
    <3>3. Untouched(q)
      BY <2>3 DEF Fresh, PublishNew, PublishWithAssertions
    <3>4. \A p \in Pair : ~ Involved(q, p)'
      BY <1>2, <3>3 DEF Untouched, Involved, Reply
    <3>5. \A p \in Pair : <<q, p>> \notin rows'
      <4>1. Done(orders[q]) = {}
        BY <3>3 DEF Untouched, Absent, Done, NoValidations
      <4> QED BY <1>2, <2>1, <4>1 DEF CalmOrder, RowsFollow
    <3>6. ~ At({"row"}, q)'
      BY <1>2, <3>3 DEF At, Untouched
    <3>7. Exact(q)'
      BY <3>2, QuietDocument DEF Quiet, Exact
    <3> QED BY <3>2, <3>4, <3>5, <3>6, <3>7 DEF CalmOrder, InvolvedAreExpected, RowsFollow
  <2> QED BY <2>2, <2>3
<1> QED BY <1>3, <1>4, <1>6, <1>7 DEF CalmInv

-----------------------------------------------------------------------------
(* The order the handler in execution works on *)

\* While a message is worked on, an order is begun or not as it was, unless the
\* message carries its assertions.
LEMMA BegunStays ==
  ASSUME IInv, CalmInv, MessageStep, NEW o \in Order
  PROVE  /\ Begun(o) => Begun(o)'
         /\ o # consumer.msg.order => (Begun(o)' => Begun(o))
<1>1. /\ consumer.at # "idle" /\ UNCHANGED <<topic, position>>
      /\ consumer.msg = topic[position]
  BY MessageScope DEF CalmInv, LastInHand
<1>2. consumer'.at # "start"
  <2>1. Return => consumer'.at # "start"
    BY DEF Return, Idle
  <2>2. \A label \in {"row", "count", "close"} : Continue(label) => consumer'.at = label
    BY <1>1, InHand DEF IInv, Continue
  <2>3. StartLightFlow \/ SendLightRequest => consumer'.at = "dispatch"
    BY <1>1, InHand DEF IInv, StartLightFlow, SendLightRequest
  <2> QED BY <2>1, <2>2, <2>3 DEF MessageStep, AssertionsNotGenerated, LightRequestFails,
         FinishDispatch, StartLightValidation, FinishLightValidation, IgnoreDuplicate,
         RecordAnswer, LogValidation, CountPending, CountAs, CloseOrder
<1> QED BY <1>1, <1>2 DEF Begun

\* The steps of a handler that sends nothing keep the requests and the log.
LEMMA InvolvedStay ==
  ASSUME UNCHANGED <<topic, requests>>
  PROVE  \A o \in Order, p \in Pair : Involved(o, p)' <=> Involved(o, p)
BY DEF Involved

LEMMA NotBegun ==
  ASSUME IInv, CalmInv, NEW o \in Order, o = consumer.msg.order, consumer.at = "start",
         consumer.msg.action # "light_validation_completed"
  PROVE  /\ ~ Begun(o) /\ Quiet(orders[o])
         /\ \A p \in Pair : ~ Involved(o, p) /\ <<o, p>> \notin rows
<1>1. position \in DOMAIN topic /\ Opening(topic[position], o)
  BY DEF CalmInv, LastInHand, Opening
<1>2. \A i \in DOMAIN topic : Opening(topic[i], o) => i = position
  BY <1>1 DEF CalmInv, OneOpening
<1>3. \A i \in 1..position : i \in DOMAIN topic
  BY DEF IInv, TypeOfTheRest
<1>4. ~ Begun(o)
  BY <1>2, <1>3 DEF Begun, Opening
<1>5. Quiet(orders[o]) /\ InvolvedAreExpected(o) /\ RowsFollow(o) /\ ~ At({"dispatch"}, o)
  BY <1>4 DEF CalmInv, CalmOrder, At
<1>6. Done(orders[o]) = {} /\ orders[o].validators = {}
  BY <1>5, QuietDocument DEF Quiet
<1> QED BY <1>4, <1>5, <1>6 DEF InvolvedAreExpected, RowsFollow

LEMMA NotGeneratedCalm ==
  ASSUME IInv, CalmInv, AssertionsNotGenerated, UNCHANGED requests,
         NEW o \in Order, o = consumer.msg.order
  PROVE  CalmOrder(o)'
<1>1. Quiet(orders[o]) /\ \A p \in Pair : ~ Involved(o, p) /\ <<o, p>> \notin rows
  BY NotBegun DEF AssertionsNotGenerated, Handling
<1>2. orders[o] \in Doc /\ orders \in [Order -> Doc]
  BY DEF IInv, SoundOrders
<1>3. orders'[o] = [orders[o] EXCEPT !.status = "ASSERTIONS_NOT_AVAILABLE"]
  BY <1>2 DEF AssertionsNotGenerated, Set
<1>4. Quiet(orders[o])'
  BY <1>1, <1>2, <1>3 DEF Quiet, Doc, Terminal
<1>5. UNCHANGED <<rows, topic>> /\ consumer'.at = "idle"
  BY DEF AssertionsNotGenerated, outsideVars, Return, Idle
<1>6. InvolvedAreExpected(o)' /\ RowsFollow(o)'
  BY <1>1, <1>5, InvolvedStay DEF InvolvedAreExpected, RowsFollow, At
<1>7. Exact(o)'
  BY <1>4, QuietDocument DEF Quiet, Exact
<1> QED BY <1>4, <1>6, <1>7 DEF CalmOrder

LEMMA StartCalm ==
  ASSUME IInv, CalmInv, StartLightFlow, NEW o \in Order, o = consumer.msg.order
  PROVE  CalmOrder(o)'
<1>1. \A p \in Pair : ~ Involved(o, p) /\ <<o, p>> \notin rows
  BY NotBegun DEF StartLightFlow, Handling
<1>2. orders[o] \in Doc /\ orders \in [Order -> Doc]
  BY DEF IInv, SoundOrders
<1>3. orders'[o] = DocumentCreated(orders[o])
  BY <1>2 DEF StartLightFlow, Set
<1>4. Quiet(orders[o])'
  BY <1>2, <1>3, NewDocument DEF Quiet, Terminal
<1>5. UNCHANGED <<rows, topic, requests>>
  BY DEF StartLightFlow, outsideVars
<1>6. consumer'.at = "dispatch"
  BY InHand DEF IInv, StartLightFlow, Handling
<1>7. InvolvedAreExpected(o)' /\ RowsFollow(o)'
  BY <1>1, <1>5, <1>6, InvolvedStay DEF InvolvedAreExpected, RowsFollow, At
<1>8. Exact(o)'
  BY <1>4, QuietDocument DEF Quiet, Exact
<1> QED BY <1>4, <1>7, <1>8 DEF CalmOrder

\* A request goes to a validator of the plan.
LEMMA SendCalm ==
  ASSUME IInv, CalmInv, SendLightRequest, NEW o \in Order, o = consumer.msg.order
  PROVE  CalmOrder(o)'
<1>1. /\ consumer.at = "dispatch" /\ consumer.todo \subseteq consumer.plan
      /\ UNCHANGED <<orders, rows, topic>> /\ TypeOfTheRest
  BY DEF SendLightRequest, CalmInv, LastInHand, IInv
<1>2. PICK p \in consumer.todo : /\ requests' = [requests EXCEPT ![<<o, p>>] = @ + 1]
                                 /\ consumer' = [consumer EXCEPT !.todo = @ \ {p}]
  BY DEF SendLightRequest
<1>3. consumer'.at = "dispatch" /\ consumer'.plan = consumer.plan /\ consumer'.msg = consumer.msg
  BY <1>1, <1>2, InHand
<1>4. Quiet(orders[o]) /\ InvolvedAreExpected(o) /\ RowsFollow(o)
  BY <1>1 DEF CalmInv, CalmOrder, At
<1>5. Quiet(orders[o])'
  BY <1>1, <1>4 DEF Quiet
<1>6. ASSUME NEW r \in Pair, Involved(o, r)' PROVE r \in consumer.plan
  <2>1. CASE r = p
    BY <1>1, <1>2, <2>1
  <2>2. CASE r # p
    <3>1. requests'[<<o, r>>] = requests[<<o, r>>]
      BY <1>1, <1>2, <2>2 DEF TypeOfTheRest
    <3>2. Involved(o, r)
      BY <1>1, <1>6, <3>1 DEF Involved
    <3> QED BY <1>1, <1>4, <3>2 DEF InvolvedAreExpected, At
  <2> QED BY <2>1, <2>2
<1>7. InvolvedAreExpected(o)'
  BY <1>3, <1>6 DEF InvolvedAreExpected, At
<1>8. RowsFollow(o)'
  BY <1>1, <1>3, <1>4 DEF RowsFollow, At, Done
<1>9. Exact(o)'
  BY <1>5, QuietDocument DEF Quiet, Exact
<1> QED BY <1>5, <1>7, <1>8, <1>9 DEF CalmOrder

\* The document learns whom the requests were sent to.
LEMMA FinishCalm ==
  ASSUME IInv, CalmInv, FinishDispatch, NEW o \in Order, o = consumer.msg.order
  PROVE  CalmOrder(o)'
<1>1. /\ consumer.at = "dispatch" /\ consumer.msg.action = "assertions_generated"
      /\ position \in DOMAIN topic /\ consumer.msg = topic[position] /\ TypeOfTheRest
  BY DEF FinishDispatch, CalmInv, LastInHand, IInv
<1>2. PICK plan \in SUBSET Pair : plan = consumer.plan
  BY <1>1, InHand
<1>3. PICK status \in {"NO_VALIDATORS_AVAILABLE", "VALIDATION_PENDING"} :
        status = IF plan = {} THEN "NO_VALIDATORS_AVAILABLE" ELSE "VALIDATION_PENDING"
  OBVIOUS
<1>4. PICK old \in Doc : old = orders[o] /\ orders \in [Order -> Doc]
  BY DEF IInv, SoundOrders
<1>5. orders'[o] = [old EXCEPT
                      !.validators = plan, !.validation_requests = plan,
                      !.validators_pending = Cardinality(plan), !.status = status]
  BY <1>2, <1>3, <1>4 DEF FinishDispatch, Set
<1>6. Quiet(old) /\ InvolvedAreExpected(o) /\ RowsFollow(o)
  BY <1>1, <1>4 DEF CalmInv, CalmOrder, At
<1>7. /\ orders'[o].validators = plan /\ orders'[o].validations = NoValidations
      /\ orders'[o].validators_pending = Cardinality(plan) /\ orders'[o].status = status
  BY <1>4, <1>5, <1>6 DEF Quiet, Doc
<1>8. Missing(orders'[o]) = plan /\ Done(orders'[o]) = {}
  BY <1>7 DEF Missing, Done, NoValidations
<1>9. UNCHANGED <<rows, topic, position, requests>> /\ consumer'.at = "idle"
  BY DEF FinishDispatch, outsideVars, Return, Idle
<1>10. Begun(o)'
  <2>1. position \in 1..position
    BY <1>1 DEF TypeOfTheRest
  <2> QED BY <1>1, <1>9, <2>1 DEF Begun
<1>11. InvolvedAreExpected(o)'
  BY <1>1, <1>2, <1>6, <1>7, <1>9, InvolvedStay DEF InvolvedAreExpected, At
<1>12. RowsFollow(o)'
  <2>1. \A p \in Pair : <<o, p>> \notin rows
    BY <1>4, <1>6, QuietDocument DEF RowsFollow
  <2> QED BY <1>9, <2>1 DEF RowsFollow, At
<1>13. Exact(o)'
  BY <1>3, <1>7, <1>8 DEF Exact, Terminal, Missing, Done
<1> QED BY <1>9, <1>10, <1>11, <1>12, <1>13 DEF CalmOrder, At

\* An answer in hand: its order waits for it or knows it, and is begun.
LEMMA AnswerInHand ==
  ASSUME IInv, CalmInv, NEW o \in Order, o = consumer.msg.order,
         consumer.msg.action = "light_validation_completed", consumer.at # "idle"
  PROVE  /\ consumer.msg.pair \in Pair /\ consumer.msg.outcome \in Outcome
         /\ consumer.msg.pair \in orders[o].validators
         /\ Begun(o) /\ ~ At({"dispatch"}, o)
         /\ orders \in [Order -> Doc] /\ orders[o] \in Doc
         /\ CalmOrder(o) /\ TypeOfTheRest
<1>1. position \in DOMAIN topic /\ consumer.msg = topic[position] /\ CalmOrder(o)
  BY DEF CalmInv, LastInHand
<1>2. consumer.msg.pair \in Pair /\ consumer.msg.outcome \in Outcome /\ TypeOfTheRest
  BY InHand, MessageFields DEF IInv
<1>3. ~ At({"dispatch"}, o)
  BY DEF At, CalmInv, LastInHand
<1>4. Involved(o, consumer.msg.pair)
  BY <1>1 DEF Involved, Reply
<1>5. consumer.msg.pair \in orders[o].validators
  BY <1>1, <1>2, <1>3, <1>4 DEF CalmOrder, InvolvedAreExpected
<1>6. Begun(o)
  BY <1>1, <1>5 DEF CalmOrder, Quiet
<1> QED BY <1>1, <1>2, <1>3, <1>5, <1>6 DEF IInv, SoundOrders

LEMMA RecordCalm ==
  ASSUME IInv, CalmInv, StartLightValidation, NEW o \in Order, o = consumer.msg.order,
         RecordAnswer(o)
  PROVE  CalmOrder(o)'
<1>1. consumer.at = "start" /\ consumer.msg.action = "light_validation_completed"
  BY DEF StartLightValidation, Handling
<1>2. PICK p \in Pair, outcome \in Outcome :
        p = consumer.msg.pair /\ outcome = consumer.msg.outcome
  BY <1>1, AnswerInHand
<1>3. /\ p \in orders[o].validators /\ p \notin Done(orders[o]) /\ orders[o] \in Doc
      /\ Begun(o) /\ CalmOrder(o) /\ ~ At({"dispatch"}, o)
  BY <1>1, <1>2, AnswerInHand DEF RecordAnswer, AlreadyDone
<1>4. orders[o].status \notin Terminal
  BY <1>3 DEF IInv, SoundOrders, Sound, Missing
<1>5. orders'[o] = [orders[o] EXCEPT !.validations[p] = outcome]
  BY <1>1, <1>2, AnswerInHand DEF RecordAnswer, Set
<1>6. /\ orders'[o].status = orders[o].status
      /\ orders'[o].validators = orders[o].validators
      /\ orders'[o].validations = [orders[o].validations EXCEPT ![p] = outcome]
  BY <1>3, <1>5, AnsweredDocument
<1>7. Done(orders'[o]) = Done(orders[o]) \cup {p}
  BY <1>3, <1>6 DEF Done, Doc, Outcome, NoAnswer
<1>8. UNCHANGED <<rows, topic, requests>> /\ consumer'.at = "row" /\ consumer'.msg = consumer.msg
  BY <1>1, InHand DEF IInv, RecordAnswer, Continue, StartLightValidation, outsideVars
<1>9. Begun(o)'
  BY <1>3, BegunStays DEF MessageStep
<1>10. InvolvedAreExpected(o)'
  BY <1>3, <1>6, <1>8, InvolvedStay DEF CalmOrder, InvolvedAreExpected, At
<1>11. RowsFollow(o)'
  BY <1>2, <1>3, <1>7, <1>8 DEF CalmOrder, RowsFollow, At, Done
<1>12. Exact(o)'
  BY <1>4, <1>6, <1>8 DEF Exact, At
<1> QED BY <1>8, <1>9, <1>10, <1>11, <1>12 DEF CalmOrder, At

LEMMA IgnoreCalm ==
  ASSUME IInv, CalmInv, StartLightValidation, NEW o \in Order, o = consumer.msg.order,
         IgnoreDuplicate(o)
  PROVE  CalmOrder(o)'
<1>1. CalmOrder(o) /\ consumer.at = "start" /\ consumer'.at = "idle"
  BY DEF CalmInv, StartLightValidation, Handling, IgnoreDuplicate, Return, Idle
<1>2. UNCHANGED <<orders, rows, topic, requests>>
  BY DEF StartLightValidation, IgnoreDuplicate
<1>3. Begun(o) => Begun(o)'
  BY BegunStays DEF MessageStep
<1> QED BY <1>1, <1>2, <1>3, InvolvedStay, OtherOrder

\* The row is never there already, so the answer is counted.
LEMMA RowCalm ==
  ASSUME IInv, CalmInv, FinishLightValidation, NEW o \in Order, o = consumer.msg.order,
         LogValidation(o)
  PROVE  CalmOrder(o)'
<1>1. consumer.at = "row" /\ consumer.msg.action = "light_validation_completed"
  BY DEF LogValidation, IInv, CloseIsDue
<1>2. CalmOrder(o) /\ Begun(o) /\ ~ At({"dispatch"}, o)
  BY <1>1, AnswerInHand
<1>3. <<o, consumer.msg.pair>> \notin rows /\ consumer.msg.pair \in Done(orders[o])
  BY <1>1, <1>2 DEF CalmOrder, RowsFollow, At
<1>4. /\ rows' = rows \cup {<<o, consumer.msg.pair>>} /\ consumer'.at = "count"
      /\ consumer'.msg = consumer.msg /\ UNCHANGED <<orders, topic, requests>>
  BY <1>1, <1>3, InHand DEF IInv, LogValidation, Continue, FinishLightValidation
<1>5. Begun(o)'
  BY <1>2, BegunStays DEF MessageStep
<1>6. InvolvedAreExpected(o)'
  BY <1>2, <1>4, InvolvedStay DEF CalmOrder, InvolvedAreExpected, At
<1>7. RowsFollow(o)'
  BY <1>2, <1>3, <1>4 DEF CalmOrder, RowsFollow, At, Done
<1>8. Exact(o)'
  BY <1>2, <1>4 DEF CalmOrder, Exact, At, TerminalStatus
<1> QED BY <1>4, <1>5, <1>6, <1>7, <1>8 DEF CalmOrder, At

LEMMA CountCalm ==
  ASSUME IInv, CalmInv, FinishLightValidation, NEW o \in Order, o = consumer.msg.order,
         CountPending(o)
  PROVE  CalmOrder(o)'
<1>1. consumer.at = "count" /\ consumer.msg.action = "light_validation_completed"
  BY DEF CountPending, CountAs, IInv, CloseIsDue
<1>2. /\ CalmOrder(o) /\ Begun(o) /\ ~ At({"dispatch"}, o)
      /\ orders[o] \in Doc /\ orders \in [Order -> Doc]
  BY <1>1, AnswerInHand
<1>3. orders'[o] = [orders[o] EXCEPT !.validators_pending = Cardinality(Missing(orders[o]))]
  BY <1>2 DEF CountPending, CountAs, Set
<1>4. /\ orders'[o].status = orders[o].status
      /\ orders'[o].validators = orders[o].validators
      /\ orders'[o].validations = orders[o].validations
      /\ orders'[o].validators_pending = Cardinality(Missing(orders[o]))
  BY <1>2, <1>3 DEF Doc
<1>5. Missing(orders'[o]) = Missing(orders[o]) /\ Done(orders'[o]) = Done(orders[o])
  BY <1>4 DEF Missing, Done
<1>6. /\ UNCHANGED <<rows, topic, requests>>
      /\ \/ consumer'.at = "close" /\ consumer'.msg = consumer.msg
         \/ consumer'.at = "idle" /\ Missing(orders[o]) # {}
  BY <1>1, InHand DEF IInv, CountPending, CountAs, Continue, Return, Idle, outsideVars,
                      FinishLightValidation
<1>7. Begun(o)'
  BY <1>2, BegunStays DEF MessageStep
<1>8. InvolvedAreExpected(o)'
  BY <1>2, <1>4, <1>6, InvolvedStay DEF CalmOrder, InvolvedAreExpected, At
<1>9. RowsFollow(o)'
  BY <1>2, <1>5, <1>6 DEF CalmOrder, RowsFollow, At
<1>10. Exact(o)'
  BY <1>2, <1>4, <1>5, <1>6 DEF CalmOrder, Exact, At, TerminalStatus
<1> QED BY <1>6, <1>7, <1>8, <1>9, <1>10 DEF CalmOrder, At

LEMMA CloseCalm ==
  ASSUME IInv, CalmInv, FinishLightValidation, NEW o \in Order, o = consumer.msg.order,
         CloseOrder(o)
  PROVE  CalmOrder(o)'
<1>1. consumer.at = "close" /\ consumer.msg.action = "light_validation_completed"
  BY DEF CloseOrder, IInv, CloseIsDue
<1>2. /\ CalmOrder(o) /\ Begun(o) /\ ~ At({"dispatch"}, o)
      /\ orders[o] \in Doc /\ orders \in [Order -> Doc]
  BY <1>1, AnswerInHand
<1>3. orders'[o] = [orders[o] EXCEPT !.status = TerminalStatus(orders[o])]
  BY <1>2 DEF CloseOrder, Set
<1>4. /\ orders'[o].status = TerminalStatus(orders[o])
      /\ orders'[o].validators = orders[o].validators
      /\ orders'[o].validations = orders[o].validations
      /\ orders'[o].validators_pending = orders[o].validators_pending
  BY <1>2, <1>3 DEF Doc
<1>5. /\ Missing(orders'[o]) = Missing(orders[o]) /\ Done(orders'[o]) = Done(orders[o])
      /\ TerminalStatus(orders'[o]) = TerminalStatus(orders[o])
      /\ TerminalStatus(orders[o]) # "VALIDATION_PENDING"
  BY <1>4 DEF Missing, Done, TerminalStatus
<1>6. UNCHANGED <<rows, topic, requests>> /\ consumer'.at = "idle"
  BY DEF CloseOrder, Return, Idle, outsideVars, FinishLightValidation
<1>7. Begun(o)'
  BY <1>2, BegunStays DEF MessageStep
<1>8. InvolvedAreExpected(o)'
  BY <1>2, <1>4, <1>6, InvolvedStay DEF CalmOrder, InvolvedAreExpected, At
<1>9. RowsFollow(o)'
  BY <1>2, <1>5, <1>6 DEF CalmOrder, RowsFollow, At
<1>10. Exact(o)'
  BY <1>1, <1>2, <1>4, <1>5 DEF CalmOrder, Exact, At
<1> QED BY <1>6, <1>7, <1>8, <1>9, <1>10 DEF CalmOrder, At

LEMMA MessageCalm ==
  ASSUME IInv, CalmInv, MessageStep, ~ LightRequestFails
  PROVE  CalmInv'
<1>1. PICK q \in Order : q = consumer.msg.order
  BY MessageScope
<1>2. /\ consumer.at # "idle" /\ UNCHANGED <<publisher, generation, topic, position>>
      /\ consumer'.at # "idle" => consumer'.msg = consumer.msg
  BY MessageScope
<1>3. LastInHand'
  <2>1. /\ position' \in DOMAIN topic' /\ consumer.msg = topic'[position']
    BY <1>2 DEF CalmInv, LastInHand
  <2>2. consumer'.at = "dispatch" => StartLightFlow \/ SendLightRequest
    <3>1. \A label \in {"row", "count", "close"} : Continue(label) => consumer'.at = label
      BY <1>2, InHand DEF IInv, Continue
    <3>2. Return => consumer'.at = "idle"
      BY DEF Return, Idle
    <3> QED BY <3>1, <3>2 DEF MessageStep, AssertionsNotGenerated, FinishDispatch,
              LightRequestFails, StartLightValidation, FinishLightValidation, IgnoreDuplicate,
              RecordAnswer, LogValidation, CountPending, CountAs, CloseOrder
  <2>3. CASE StartLightFlow
    <3>1. consumer.msg.action = "assertions_generated"
      BY <2>3 DEF StartLightFlow, Handling
    <3>2. consumer'.todo = consumer'.plan
      BY <1>2, <2>3, InHand DEF IInv, StartLightFlow
    <3> QED BY <1>2, <2>1, <3>1, <3>2 DEF LastInHand
  <2>4. CASE SendLightRequest
    <3>1. /\ consumer.msg.action = "assertions_generated" /\ consumer.todo \subseteq consumer.plan
      BY <2>4 DEF SendLightRequest, CalmInv, LastInHand
    <3>2. consumer'.todo \subseteq consumer.todo /\ consumer'.plan = consumer.plan
      BY <1>2, <2>4, InHand DEF IInv, SendLightRequest
    <3> QED BY <1>2, <2>1, <3>1, <3>2 DEF LastInHand
  <2> QED BY <1>2, <2>1, <2>2, <2>3, <2>4 DEF LastInHand
<1>4. \A o \in Order : OneOpening(o)'
  BY <1>2 DEF CalmInv, OneOpening, Opening
<1>5. ASSUME NEW o \in Order, o # q PROVE CalmOrder(o)'
  <2>1. CalmOrder(o)
    BY DEF CalmInv
  <2>2. /\ orders'[o] = orders[o]
        /\ \A p \in Pair : requests'[<<o, p>>] = requests[<<o, p>>]
    BY <1>1, <1>5, MessageScope
  <2>3. \A p \in Pair : Involved(o, p)' => Involved(o, p)
    BY <1>2, <2>2 DEF Involved
  <2>4. \A p \in Pair : <<o, p>> \in rows' => <<o, p>> \in rows
    <3>1. rows' = rows \/ rows' = rows \cup {<<q, consumer.msg.pair>>}
      BY <1>1 DEF MessageStep, AssertionsNotGenerated, StartLightFlow, SendLightRequest,
              LightRequestFails, FinishDispatch, StartLightValidation, FinishLightValidation,
              IgnoreDuplicate, RecordAnswer, LogValidation, CountPending, CountAs, CloseOrder,
              outsideVars
    <3> QED BY <1>5, <3>1
  <2>5. Begun(o) => Begun(o)'
    BY BegunStays
  <2> QED BY <1>1, <1>2, <1>5, <2>1, <2>2, <2>3, <2>4, <2>5, OtherOrder
<1>6. CalmOrder(q)'
  BY <1>1, NotGeneratedCalm, StartCalm, SendCalm, FinishCalm, RecordCalm, IgnoreCalm, RowCalm,
     CountCalm, CloseCalm DEF MessageStep, StartLightValidation, FinishLightValidation
<1> QED BY <1>3, <1>4, <1>5, <1>6 DEF CalmInv

LEMMA NextCalm ==
  ASSUME IInv, Fresh, CalmInv, [Next]_vars, Calm'
  PROVE  CalmInv'
<1>1. CASE UNCHANGED vars
  <2>1. UNCHANGED <<orders, rows, publisher, generation, topic, position, consumer, requests>>
    BY <1>1 DEF vars, handlerVars, outsideVars
  <2>2. LastInHand' /\ \A o \in Order : OneOpening(o)'
    BY <2>1 DEF CalmInv, LastInHand, OneOpening, Opening
  <2>3. ASSUME NEW o \in Order PROVE CalmOrder(o)'
    BY <2>1, <2>3, InvolvedStay, OtherOrder DEF CalmInv, Begun
  <2> QED BY <2>2, <2>3 DEF CalmInv
<1>2. CASE HandlerNext("LIGHT") /\ UNCHANGED requests
  BY <1>2, CalmSteps, WorkersCalm, PublicationCalm, FetchCalm, MessageCalm
     DEF HandlerNext, MessageStep
<1>3. CASE MessageStep
  BY <1>3, CalmSteps, MessageCalm
<1>4. CASE \E o \in Order, p \in Pair : Answer(o, p)
  BY <1>4, CalmSteps, WorkersCalm
<1> QED BY <1>1, <1>2, <1>3, <1>4 DEF Next, Handler, MessageStep

\* Until something goes wrong, the invariant of the undisturbed flow holds.
THEOREM CalmTheorem == Spec => [](Calm => CalmInv)
<1>1. IInv /\ Fresh /\ (Calm => CalmInv) /\ [Next]_vars => (Calm => CalmInv)'
  BY CalmSteps, NextCalm
<1> QED BY <1>1, InitCalm, Invariance, FreshTheorem, PTL DEF Spec

\* Without faults and repeated answers a LIGHT order is closed only when every
\* validator that was sent a request has answered, for any number of orders,
\* assertions and validators and for both publication endpoints.
THEOREM AllAnsweredTheorem == Spec => []ClosedMeansAllAnswered
<1>1. IInv /\ (Calm => CalmInv) => ClosedMeansAllAnswered
  <2> SUFFICES ASSUME IInv, CalmInv, Calm, NEW o \in Order, orders[o].status \in Terminal,
                      NEW p \in Pair, requests[<<o, p>>] > 0
               PROVE  p \in Done(orders[o])
    BY DEF ClosedMeansAllAnswered
  <2>1. Missing(orders[o]) = {}
    BY DEF IInv, SoundOrders, Sound
  <2>2. ~ At({"dispatch"}, o)
    BY DEF CalmInv, CalmOrder, Quiet
  <2>3. p \in orders[o].validators
    BY <2>2 DEF CalmInv, CalmOrder, InvolvedAreExpected, Involved
  <2> QED BY <2>1, <2>3 DEF Missing
<1> QED BY <1>1, CalmTheorem, Invariance, PTL

\* Without faults and repeated answers, whenever the consumer is between two
\* messages, the stored count of missing answers is exact, no order that waits
\* is complete, and a closed order has the status its answers call for.
THEOREM ExactTheorem == Spec => []ExactAtRest
<1>1. (Calm => CalmInv) => ExactAtRest
  <2> SUFFICES ASSUME CalmInv, Calm, consumer = Idle, NEW o \in Order
               PROVE  Exact(o) /\ ~ At({"row", "count", "close"}, o) /\ ~ At({"row", "count"}, o)
    BY DEF ExactAtRest, Exact
  <2> QED BY DEF CalmInv, CalmOrder, At, Idle
<1> QED BY <1>1, CalmTheorem, PTL
=============================================================================
