--------------------------- MODULE ChainFlow_proofs ---------------------------
(***************************************************************************)
(* Proofs about BLOCKCHAIN orders, for any number of orders, validators,   *)
(* assertions, posts, restarts, lost messages and repeated requests.       *)
(***************************************************************************)
EXTENDS ChainFlow, FiniteSetTheorems, SequenceTheorems, TLAPS

-----------------------------------------------------------------------------
(* Documents *)

LEMMA PairsAreFinite == \A S \in SUBSET Pair : IsFiniteSet(S) /\ Cardinality(S) \in Nat
<1>1. IsFiniteSet(Assertion)
  BY AssertionAssumption, FS_Interval DEF Assertion
<1>2. IsFiniteSet(Pair)
  BY <1>1, ValidatorAssumption, FS_Product DEF Pair
<1> QED BY <1>2, FS_Subset, FS_CardinalityType

\* What every document satisfies at every step of every handler.
Sound(doc) ==
  /\ doc \in Doc
  /\ doc.status \in Terminal => Missing(doc) = {}
  /\ Cardinality(Missing(doc)) <= doc.validators_pending

\* The document waits for nobody and shows no answer.
Fresh(doc) ==
  doc.validators = {} /\ doc.validations = NoValidations

LEMMA FreshIsSound ==
  ASSUME NEW doc \in Doc, doc.validators = {}
  PROVE  Sound(doc) /\ Missing(doc) = {}
<1>1. Missing(doc) = {}
  BY DEF Missing
<1>2. Cardinality(Missing(doc)) = 0
  BY <1>1, FS_EmptySet
<1> QED BY <1>1, <1>2 DEF Sound, Doc

LEMMA PublishedDocument ==
  ASSUME NEW status \in Status, NEW mode \in Mode, NEW given \in BOOLEAN
  PROVE  LET doc == [Absent EXCEPT !.status = status, !.mode = mode, !.assertions = given]
         IN  doc \in Doc /\ Fresh(doc) /\ doc.post_id = 0
BY DEF Absent, Doc, NoValidations, Fresh

LEMMA SavedDocument ==
  ASSUME NEW status \in Status, NEW mode \in Mode
  PROVE  LET doc == [Absent EXCEPT !.status = status, !.mode = mode]
         IN  doc \in Doc /\ Fresh(doc) /\ doc.post_id = 0
BY DEF Absent, Doc, NoValidations, Fresh

LEMMA NewDocument ==
  ASSUME NEW doc \in Doc
  PROVE  LET new == DocumentCreated(doc)
         IN  new \in Doc /\ Fresh(new) /\ new.post_id = doc.post_id
BY DEF Doc, DocumentCreated, NoValidations, Fresh, Status

\* A write of the status keeps everything that is proved of a document.
LEMMA NewStatus ==
  ASSUME NEW doc \in Doc, NEW status \in Status
  PROVE  LET new == [doc EXCEPT !.status = status]
         IN  /\ new \in Doc /\ new.status = status
             /\ new.validators = doc.validators /\ new.validations = doc.validations
             /\ new.validators_pending = doc.validators_pending
             /\ new.post_id = doc.post_id /\ Missing(new) = Missing(doc)
BY DEF Doc, Missing, Done

LEMMA QuotaDocument ==
  ASSUME NEW doc \in Doc
  PROVE  LET new == [doc EXCEPT !.status = "QUOTA_EXCEDED", !.assertions = TRUE]
         IN  /\ new \in Doc /\ new.status \notin Terminal
             /\ new.validators = doc.validators /\ new.validations = doc.validations
             /\ new.validators_pending = doc.validators_pending
             /\ new.post_id = doc.post_id /\ Missing(new) = Missing(doc)
BY DEF Doc, Missing, Done, Status, Terminal

LEMMA RequestedDocument ==
  ASSUME NEW doc \in Doc, NEW p \in Pair
  PROVE  LET new == [doc EXCEPT !.validation_requests = @ \cup {p}]
         IN  /\ new \in Doc /\ new.status = doc.status
             /\ new.validators = doc.validators /\ new.validations = doc.validations
             /\ new.validators_pending = doc.validators_pending
             /\ new.post_id = doc.post_id /\ Missing(new) = Missing(doc)
BY DEF Doc, Missing, Done

LEMMA AnsweredDocument ==
  ASSUME NEW doc \in Doc, NEW p \in Pair, NEW outcome \in Outcome
  PROVE  LET new == [doc EXCEPT !.validations[p] = outcome]
         IN  /\ new \in Doc /\ new.status = doc.status
             /\ new.validators = doc.validators
             /\ new.validations = [doc.validations EXCEPT ![p] = outcome]
             /\ new.validators_pending = doc.validators_pending
             /\ new.post_id = doc.post_id /\ Missing(new) \subseteq Missing(doc)
<1>1. outcome # NoAnswer
  BY DEF Outcome, NoAnswer
<1> QED BY <1>1 DEF Doc, Missing, Done

LEMMA CountedDocument ==
  ASSUME NEW doc \in Doc, NEW n \in Nat
  PROVE  LET new == [doc EXCEPT !.validators_pending = n]
         IN  /\ new \in Doc /\ new.status = doc.status
             /\ new.validators = doc.validators /\ new.validations = doc.validations
             /\ new.validators_pending = n
             /\ new.post_id = doc.post_id /\ Missing(new) = Missing(doc)
BY DEF Doc, Missing, Done

LEMMA WaitingDocument ==
  ASSUME NEW doc \in Doc, NEW assigned \in SUBSET Pair, NEW n \in Nat, NEW post \in Nat
  PROVE  LET new == [doc EXCEPT !.validators = assigned, !.validators_pending = n,
                                !.status = "VALIDATION_PENDING", !.post_id = post]
         IN  /\ new \in Doc /\ new.status \notin Terminal
             /\ new.validators = assigned /\ new.validations = doc.validations
             /\ new.validators_pending = n
             /\ new.post_id = post /\ Missing(new) \subseteq assigned
BY DEF Doc, Missing, Done, Status, Terminal

-----------------------------------------------------------------------------
(* The inductive invariant                                                 *)

Doing == {"start", "upload", "uploading", "register", "registering", "row", "count", "close"}

Request == [order : Order, count : Assertion]
Post == [order : Order, assigned : SUBSET Pair]
ChainEvent == [event : {"ValidationRequested", "ValidationSubmitted"}, post : Nat, pair : Pair]

Message ==
       [action : {"assertions_generated", "ipfs_uploaded"}, order : Order, count : Assertion]
  \cup [action : {"assertions_not_generated", "blockchain_registration_failed"}, order : Order]
  \cup [action : {"blockchain_registered"}, order : Order, post : Nat]
  \cup [action : {"request_validation"}, post : Nat, pair : Pair]
  \cup [action : {"validation_completed"}, post : Nat, pair : Pair, outcome : Outcome]

TypeInv ==
  /\ topic \in Seq(Message)
  /\ position \in 0..Len(topic) /\ committed \in 0..position
  /\ consumer \in {Idle} \cup [at : Doing, msg : Message, todo : SUBSET Pair, plan : SUBSET Pair]
  /\ uploads \in Seq(Request) /\ registrations \in Seq(Request) /\ mempool \in Seq(Request)
  /\ registrar \in {NoRegistration} \cup [at : {"wait", "reported"}, doc : Request, tx : Nat]
  /\ posts \in Seq(Post) /\ logs \in Seq(ChainEvent) /\ cursor \in 0..Len(logs)
  /\ asked \subseteq Nat \X Pair

\* The validator of p answered the post, by the events ls.
OnChain(post, p, ls) == \E i \in DOMAIN ls : ls[i] = Event("ValidationSubmitted", post, p)

\* What a message says of the posts ps and the events ls is true.
Holds(m, ps, ls) ==
  /\ m.action = "blockchain_registered" => m.post \in DOMAIN ps /\ ps[m.post].order = m.order
  /\ m.action \in {"request_validation", "validation_completed"} => m.post \in DOMAIN ps
  /\ m.action = "validation_completed" /\ m.outcome = "COMPLETED" => OnChain(m.post, m.pair, ls)

\* And so is what the document of o says.
Faithful(o, doc, ps, ls) ==
  /\ doc.post_id # 0 => /\ doc.post_id \in DOMAIN ps
                        /\ ps[doc.post_id].order = o
                        /\ doc.validators \subseteq ps[doc.post_id].assigned
  /\ \A p \in Pair : doc.validations[p] = "COMPLETED" =>
       \E post \in DOMAIN ps : ps[post].order = o /\ OnChain(post, p, ls)

OrdersInv ==
  /\ orders \in [Order -> Doc]
  /\ \A o \in Order : Sound(orders[o]) /\ Faithful(o, orders[o], posts, logs)

MessagesInv ==
  /\ \A i \in DOMAIN topic : Holds(topic[i], posts, logs)
  /\ consumer.at # "idle" => Holds(consumer.msg, posts, logs)

\* Events and requests are about posts, and the transaction news-chain waits for
\* is the one of its document, mined or not.
PostsInv ==
  /\ \A i \in DOMAIN logs : logs[i].post \in DOMAIN posts
  /\ \A r \in asked : r[1] \in DOMAIN posts
  /\ registrar.at = "wait" =>
       \/ registrar.tx \in DOMAIN posts /\ posts[registrar.tx].order = registrar.doc.order
       \/ \E i \in DOMAIN mempool :
            registrar.tx = Len(posts) + i /\ mempool[i].order = registrar.doc.order

\* What the handler in execution is about; it closes an order only after it
\* counted no missing answer.
HandlerInv ==
  /\ consumer.at \in {"upload", "uploading", "register", "registering"} =>
       consumer.msg.action \in {"assertions_generated", "ipfs_uploaded"}
  /\ consumer.at \in {"row", "count", "close"} => consumer.msg.action = "validation_completed"
  /\ consumer.at = "close" => \A o \in Order : Resolves(o) => Missing(orders[o]) = {}

IInv == TypeInv /\ OrdersInv /\ MessagesInv /\ PostsInv /\ HandlerInv

-----------------------------------------------------------------------------
(* Lemmas on the invariant                                                 *)

\* The contract forgets nothing.
Grown ==
  /\ \A k \in DOMAIN posts : k \in DOMAIN posts' /\ posts'[k] = posts[k]
  /\ \A i \in DOMAIN logs : i \in DOMAIN logs' /\ logs'[i] = logs[i]

LEMMA TruthLasts ==
  ASSUME Grown
  PROVE  /\ \A m : Holds(m, posts, logs) => Holds(m, posts', logs')
         /\ \A o, doc : Faithful(o, doc, posts, logs) => Faithful(o, doc, posts', logs')
<1>1. \A post, p : OnChain(post, p, logs) => OnChain(post, p, logs')
  BY DEF Grown, OnChain
<1>2. \A m : Holds(m, posts, logs) => Holds(m, posts', logs')
  BY <1>1 DEF Grown, Holds
<1>3. \A o, doc : Faithful(o, doc, posts, logs) => Faithful(o, doc, posts', logs')
  BY <1>1 DEF Grown, Faithful
<1> QED BY <1>2, <1>3

LEMMA MessageFields ==
  ASSUME NEW m \in Message
  PROVE  /\ m.action \in {"assertions_generated", "ipfs_uploaded", "assertions_not_generated",
                          "blockchain_registration_failed", "blockchain_registered"} =>
              m.order \in Order
         /\ m.action \in {"assertions_generated", "ipfs_uploaded"} => m.count \in Assertion
         /\ m.action \in {"blockchain_registered", "request_validation",
                          "validation_completed"} => m.post \in Nat
         /\ m.action \in {"request_validation", "validation_completed"} => m.pair \in Pair
         /\ m.action = "validation_completed" => m.outcome \in Outcome
BY DEF Message

\* A busy consumer has a message in hand.
LEMMA InHand ==
  ASSUME TypeInv, consumer.at # "idle"
  PROVE  /\ consumer.msg \in Message
         /\ consumer = [at |-> consumer.at, msg |-> consumer.msg,
                        todo |-> consumer.todo, plan |-> consumer.plan]
         /\ consumer.todo \in SUBSET Pair /\ consumer.plan \in SUBSET Pair
BY DEF TypeInv, Idle

LEMMA Continued ==
  ASSUME TypeInv, consumer.at # "idle", NEW label \in Doing, Continue(label)
  PROVE  /\ consumer' \in [at : Doing, msg : Message, todo : SUBSET Pair, plan : SUBSET Pair]
         /\ consumer'.at = label /\ consumer'.msg = consumer.msg
BY InHand DEF Continue

LEMMA Returned == ASSUME Return PROVE consumer' = Idle /\ consumer'.at = "idle"
BY DEF Return, Idle

\* A write of one document.
LEMMA SetKeeps ==
  ASSUME OrdersInv, UNCHANGED <<posts, logs>>, NEW o \in Order, NEW doc, Set(o, doc),
         Sound(doc), Faithful(o, doc, posts, logs)
  PROVE  OrdersInv' /\ orders'[o] = doc /\ \A q \in Order : q # o => orders'[q] = orders[q]
<1>1. doc \in Doc
  BY DEF Sound
<1>2. /\ orders' \in [Order -> Doc] /\ orders'[o] = doc
      /\ \A q \in Order : q # o => orders'[q] = orders[q]
  BY <1>1 DEF Set, OrdersInv
<1>3. \A q \in Order : Sound(orders'[q]) /\ Faithful(q, orders'[q], posts, logs)
  BY <1>2 DEF OrdersInv
<1>4. \A q \in Order : Sound(orders[q])' /\ Faithful(q, orders'[q], posts', logs')
  BY <1>3 DEF Sound, Missing, Done
<1> QED BY <1>2, <1>4 DEF OrdersInv

\* A document that only changes its status stays faithful, and sound unless it
\* is closed too early.
LEMMA KeptDocument ==
  ASSUME NEW o, NEW doc, NEW new \in Doc, NEW ps, NEW ls,
         Sound(doc), Faithful(o, doc, ps, ls),
         new.validators = doc.validators, new.validations = doc.validations,
         new.validators_pending = doc.validators_pending, new.post_id = doc.post_id,
         new.status \in Terminal => Missing(new) = {}
  PROVE  Sound(new) /\ Faithful(o, new, ps, ls)
<1>1. Missing(new) = Missing(doc)
  BY DEF Missing, Done
<1> QED BY <1>1 DEF Sound, Faithful

\* A document that waits for nobody and shows no answer.
LEMMA FreshDocument ==
  ASSUME NEW o, NEW new \in Doc, NEW ps, NEW ls, Fresh(new),
         new.post_id # 0 => new.post_id \in DOMAIN ps /\ ps[new.post_id].order = o
  PROVE  Sound(new) /\ Faithful(o, new, ps, ls)
<1>1. Sound(new)
  BY FreshIsSound DEF Fresh
<1>2. \A p \in Pair : new.validations[p] # "COMPLETED"
  BY DEF Fresh, NoValidations, NoAnswer
<1> QED BY <1>1, <1>2 DEF Faithful, Fresh

-----------------------------------------------------------------------------
(* The services around news-handler                                        *)

LEMMA InitIInv == Init => IInv
<1> SUFFICES ASSUME Init PROVE IInv
  OBVIOUS
<1> USE DEF Init, HandlerInit
<1>1. Sound(Absent) /\ \A o : Faithful(o, Absent, posts, logs)
  <2>1. /\ Absent \in Doc /\ Absent.validators = {} /\ Absent.post_id = 0
        /\ \A p \in Pair : Absent.validations[p] # "COMPLETED"
    BY DEF Absent, Doc, Status, Mode, NoValidations, NoAnswer
  <2> QED BY <2>1, FreshIsSound DEF Faithful
<1>2. OrdersInv
  <2>1. Absent \in Doc
    BY <1>1 DEF Sound
  <2> QED BY <1>1, <2>1 DEF OrdersInv
<1>3. TypeInv
  BY DEF TypeInv
<1>4. MessagesInv /\ PostsInv /\ HandlerInv
  BY DEF MessagesInv, PostsInv, HandlerInv, Idle, NoRegistration
<1> QED BY <1>2, <1>3, <1>4 DEF IInv

\* A service that does not touch the documents and only sends what is true.
LEMMA ServiceKeeps ==
  ASSUME IInv, TypeInv', PostsInv', Grown, UNCHANGED <<orders, consumer>>,
         \A i \in DOMAIN topic' :
           (i \in DOMAIN topic /\ topic'[i] = topic[i]) \/ Holds(topic'[i], posts', logs')
  PROVE  IInv'
<1>1. OrdersInv'
  BY TruthLasts DEF IInv, OrdersInv, Sound, Missing, Done
<1>2. MessagesInv'
  BY TruthLasts DEF IInv, MessagesInv
<1>3. HandlerInv'
  BY DEF IInv, HandlerInv, Resolves, Missing, Done
<1> QED BY <1>1, <1>2, <1>3 DEF IInv

\* One more message.
LEMMA AppendMessage ==
  ASSUME TypeInv, NEW m \in Message, topic' = Append(topic, m), NEW ps, NEW ls, Holds(m, ps, ls)
  PROVE  /\ topic' \in Seq(Message) /\ Len(topic') = Len(topic) + 1
         /\ \A i \in DOMAIN topic' :
              (i \in DOMAIN topic /\ topic'[i] = topic[i]) \/ Holds(topic'[i], ps, ls)
<1>1. /\ topic' \in Seq(Message) /\ Len(topic') = Len(topic) + 1
      /\ DOMAIN topic' = 1..Len(topic) + 1 /\ DOMAIN topic = 1..Len(topic)
      /\ topic'[Len(topic) + 1] = m
      /\ \A i \in DOMAIN topic : topic'[i] = topic[i]
  BY DEF TypeInv
<1>2. \A i \in DOMAIN topic' : i \in DOMAIN topic \/ i = Len(topic) + 1
  BY <1>1 DEF TypeInv
<1> QED BY <1>1, <1>2

\* A message about a text, and a message about an order alone.
LEMMA OrderMessages ==
  ASSUME NEW o \in Order, NEW ps, NEW ls
  PROVE  /\ \A n \in Assertion : /\ Generated(o, n) \in Message /\ Holds(Generated(o, n), ps, ls)
                                 /\ Uploaded(o, n) \in Message /\ Holds(Uploaded(o, n), ps, ls)
         /\ NotGenerated(o) \in Message /\ Holds(NotGenerated(o), ps, ls)
         /\ RegistrationFailed(o) \in Message /\ Holds(RegistrationFailed(o), ps, ls)
BY DEF Message, Holds, Generated, Uploaded, NotGenerated, RegistrationFailed

\* With the contract and the transactions as they were.
SameChain == UNCHANGED <<posts, logs, mempool, asked, registrar>>

LEMMA SameChainKeeps == ASSUME IInv, SameChain PROVE PostsInv' /\ Grown
BY DEF IInv, SameChain, PostsInv, Grown

LEMMA GenerationInv ==
  ASSUME IInv, NEW o \in Order, UNCHANGED chainVars,
         \/ SendGenerate(o)
         \/ \E n \in Assertion : SendGiven(o, n)
         \/ GenerateAssertions(o)
  PROVE  IInv'
<1>1. /\ UNCHANGED <<orders, consumer, position, committed>> /\ SameChain
      /\ UNCHANGED <<uploads, registrations, cursor>>
  BY DEF SendGenerate, SendGiven, GenerateAssertions, Generate, chainVars, SameChain
<1>2. PostsInv' /\ Grown /\ posts' = posts /\ logs' = logs
  BY <1>1, SameChainKeeps DEF SameChain
<1>3. CASE topic' = topic
  <2>1. TypeInv'
    BY <1>1, <1>3 DEF IInv, TypeInv, SameChain
  <2> QED BY <1>1, <1>2, <1>3, <2>1, ServiceKeeps
<1>4. ASSUME NEW m \in Message, topic' = Append(topic, m), Holds(m, posts', logs')
      PROVE  IInv'
  <2>1. /\ topic' \in Seq(Message) /\ Len(topic') = Len(topic) + 1
        /\ \A i \in DOMAIN topic' :
             (i \in DOMAIN topic /\ topic'[i] = topic[i]) \/ Holds(topic'[i], posts', logs')
    BY <1>4, AppendMessage DEF IInv
  <2>2. TypeInv'
    BY <1>1, <2>1 DEF IInv, TypeInv, SameChain
  <2> QED BY <1>1, <1>2, <2>1, <2>2, ServiceKeeps
<1>5. CASE SendGenerate(o)
  BY <1>3, <1>5 DEF SendGenerate
<1>6. ASSUME NEW n \in Assertion, SendGiven(o, n) PROVE IInv'
  BY <1>4, <1>6, OrderMessages DEF SendGiven
<1>7. CASE GenerateAssertions(o)
  BY <1>4, <1>7, OrderMessages DEF GenerateAssertions, Generate
<1> QED BY <1>5, <1>6, <1>7

LEMMA UploadInv == ASSUME IInv, Upload PROVE IInv'
<1> DEFINE doc == Head(uploads)
<1>1. /\ UNCHANGED <<orders, consumer, position, committed>> /\ SameChain
      /\ UNCHANGED <<registrations, cursor>>
      /\ uploads # << >> /\ uploads' \in {uploads, Tail(uploads)}
      /\ topic' = topic \/ topic' = Append(topic, Uploaded(doc.order, doc.count))
  BY DEF Upload, SameChain
<1>2. PostsInv' /\ Grown /\ posts' = posts /\ logs' = logs
  BY <1>1, SameChainKeeps DEF SameChain
<1>3. uploads' \in Seq(Request) /\ doc.order \in Order /\ doc.count \in Assertion
  <2>1. uploads \in Seq(Request)
    BY DEF IInv, TypeInv
  <2>2. doc \in Request /\ Tail(uploads) \in Seq(Request)
    BY <1>1, <2>1
  <2> QED BY <1>1, <2>1, <2>2 DEF Request
<1>4. CASE topic' = topic
  <2>1. TypeInv'
    BY <1>1, <1>3, <1>4 DEF IInv, TypeInv, SameChain
  <2> QED BY <1>1, <1>2, <1>4, <2>1, ServiceKeeps
<1>5. CASE topic' = Append(topic, Uploaded(doc.order, doc.count))
  <2>1. Uploaded(doc.order, doc.count) \in Message
        /\ Holds(Uploaded(doc.order, doc.count), posts', logs')
    BY <1>3, OrderMessages
  <2>2. /\ topic' \in Seq(Message) /\ Len(topic') = Len(topic) + 1
        /\ \A i \in DOMAIN topic' :
             (i \in DOMAIN topic /\ topic'[i] = topic[i]) \/ Holds(topic'[i], posts', logs')
    BY <1>5, <2>1, AppendMessage DEF IInv
  <2>3. TypeInv'
    BY <1>1, <1>3, <2>2 DEF IInv, TypeInv, SameChain
  <2> QED BY <1>1, <1>2, <2>2, <2>3, ServiceKeeps
<1> QED BY <1>1, <1>4, <1>5

\* news-chain takes the next request, waits for its transaction and reports it.
LEMMA RegistrarInv ==
  ASSUME IInv,
         SubmitRegistration \/ RegistrationFails \/ ReportRegistration \/ RegistrarRestarts
  PROVE  IInv'
<1>1. /\ UNCHANGED <<orders, consumer, position, committed, uploads, posts, logs, cursor, asked>>
      /\ Grown
  BY DEF SubmitRegistration, RegistrationFails, ReportRegistration, RegistrarRestarts,
         handlerVars, outsideVars, Grown
<1>2. /\ registrations \in Seq(Request) /\ mempool \in Seq(Request) /\ posts \in Seq(Post)
      /\ registrar \in {NoRegistration} \cup [at : {"wait", "reported"}, doc : Request, tx : Nat]
  BY DEF IInv, TypeInv
<1>3. registrations # << >> =>
        Head(registrations) \in Request /\ Tail(registrations) \in Seq(Request)
  BY <1>2
<1>4. CASE SubmitRegistration
  <2> DEFINE doc == Head(registrations)
             k == Len(mempool) + 1
  <2>1. /\ mempool' = Append(mempool, doc) /\ registrations' = Tail(registrations)
        /\ registrar' = [at |-> "wait", doc |-> doc, tx |-> Len(posts) + Len(mempool) + 1]
        /\ doc \in Request /\ registrations' \in Seq(Request) /\ topic' = topic
    BY <1>3, <1>4 DEF SubmitRegistration, handlerVars, outsideVars
  <2>2. mempool' \in Seq(Request) /\ k \in DOMAIN mempool' /\ mempool'[k] = doc
    BY <1>2, <2>1
  <2>3. Len(posts) \in Nat /\ Len(mempool) \in Nat
    BY <1>2
  <2>4. registrar'.tx = Len(posts) + k /\ registrar'.doc = doc
        /\ registrar' \in [at : {"wait", "reported"}, doc : Request, tx : Nat]
    BY <2>1, <2>3
  <2>5. TypeInv'
    BY <1>1, <2>1, <2>2, <2>4 DEF IInv, TypeInv
  <2>6. PostsInv'
    <3>1. Len(posts') = Len(posts)
      BY <1>1
    <3>2. registrar'.tx = Len(posts') + k /\ mempool'[k].order = registrar'.doc.order
      BY <2>2, <2>4, <3>1
    <3> QED BY <1>1, <2>2, <3>2 DEF IInv, PostsInv
  <2> QED BY <1>1, <2>1, <2>5, <2>6, ServiceKeeps
<1>5. CASE RegistrationFails
  <2> DEFINE o == Head(registrations).order
  <2>1. /\ topic' = Append(topic, RegistrationFailed(o)) /\ UNCHANGED <<registrar, mempool>>
        /\ registrations' \in Seq(Request) /\ o \in Order
    BY <1>3, <1>5 DEF RegistrationFails, Request
  <2>2. RegistrationFailed(o) \in Message /\ Holds(RegistrationFailed(o), posts', logs')
    BY <2>1, OrderMessages
  <2>3. /\ topic' \in Seq(Message) /\ Len(topic') = Len(topic) + 1
        /\ \A i \in DOMAIN topic' :
             (i \in DOMAIN topic /\ topic'[i] = topic[i]) \/ Holds(topic'[i], posts', logs')
    BY <2>1, <2>2, AppendMessage DEF IInv
  <2>4. TypeInv' /\ PostsInv'
    BY <1>1, <2>1, <2>3 DEF IInv, TypeInv, PostsInv
  <2> QED BY <1>1, <2>3, <2>4, ServiceKeeps
<1>6. CASE ReportRegistration
  <2> DEFINE o == registrar.doc.order
  <2>1. registrar = [at |-> "wait", doc |-> registrar.doc, tx |-> registrar.tx]
        /\ registrar.doc \in Request /\ registrar.tx \in Nat
    BY <1>2, <1>6 DEF ReportRegistration, NoRegistration
  <2>2. /\ registrar' = [at |-> "reported", doc |-> registrar.doc, tx |-> registrar.tx]
        /\ UNCHANGED <<registrations, mempool>>
        /\ \/ registrar.tx \in DOMAIN posts /\ topic' = Append(topic, Registered(o, registrar.tx))
           \/ topic' = Append(topic, RegistrationFailed(o))
    BY <1>6, <2>1 DEF ReportRegistration
  <2>3. PICK m \in Message : topic' = Append(topic, m) /\ Holds(m, posts', logs')
    <3>1. CASE registrar.tx \in DOMAIN posts /\ topic' = Append(topic, Registered(o, registrar.tx))
      <4>1. posts[registrar.tx].order = o
        <5>1. DOMAIN posts = 1..Len(posts) /\ DOMAIN mempool = 1..Len(mempool)
              /\ Len(posts) \in Nat /\ Len(mempool) \in Nat
          BY <1>2
        <5>2. ~ \E i \in DOMAIN mempool : registrar.tx = Len(posts) + i
          BY <3>1, <5>1
        <5> QED BY <1>6, <5>2 DEF IInv, PostsInv, ReportRegistration
      <4>2. Registered(o, registrar.tx) \in Message /\ Holds(Registered(o, registrar.tx), posts', logs')
        BY <1>1, <2>1, <3>1, <4>1 DEF Registered, Message, Holds, Request
      <4> QED BY <3>1, <4>2
    <3>2. CASE topic' = Append(topic, RegistrationFailed(o))
      BY <2>1, <3>2, OrderMessages DEF Request
    <3> QED BY <2>2, <3>1, <3>2
  <2>4. /\ topic' \in Seq(Message) /\ Len(topic') = Len(topic) + 1
        /\ \A i \in DOMAIN topic' :
             (i \in DOMAIN topic /\ topic'[i] = topic[i]) \/ Holds(topic'[i], posts', logs')
    BY <2>3, AppendMessage DEF IInv
  <2>5. TypeInv'
    BY <1>1, <2>1, <2>2, <2>4 DEF IInv, TypeInv
  <2>6. PostsInv'
    BY <1>1, <2>2 DEF IInv, PostsInv
  <2> QED BY <1>1, <2>4, <2>5, <2>6, ServiceKeeps
<1>7. CASE RegistrarRestarts
  <2>1. /\ registrar' = NoRegistration /\ UNCHANGED <<topic, mempool>>
        /\ registrations' \in {registrations, <<registrar.doc>> \o registrations}
        /\ registrar.at # "idle"
    BY <1>7 DEF RegistrarRestarts
  <2>2. registrar.doc \in Request
    BY <1>2, <2>1 DEF NoRegistration
  <2>3. registrations' \in Seq(Request)
    <3>1. <<registrar.doc>> \in Seq(Request)
      BY <2>2
    <3>2. <<registrar.doc>> \o registrations \in Seq(Request)
      BY <1>2, <3>1, ConcatProperties
    <3> QED BY <1>2, <2>1, <3>2
  <2>4. TypeInv'
    BY <1>1, <2>1, <2>3 DEF IInv, TypeInv
  <2>5. PostsInv'
    BY <1>1, <2>1 DEF IInv, PostsInv, NoRegistration
  <2> QED BY <1>1, <2>1, <2>4, <2>5, ServiceKeeps
<1> QED BY <1>4, <1>5, <1>6, <1>7

\* The events of a post are events of that post.
LEMMA RequestsOfPost ==
  ASSUME NEW post \in Nat, NEW assigned \in SUBSET Pair, NEW events \in RequestOrders(post, assigned)
  PROVE  events \in Seq(ChainEvent) /\ \A i \in DOMAIN events : events[i].post = post
<1> DEFINE S == {Event("ValidationRequested", post, p) : p \in assigned}
           f == [p \in assigned |-> Event("ValidationRequested", post, p)]
<1>1. IsFiniteSet(S)
  <2>1. f \in Surjection(assigned, S)
    BY DEF Surjection
  <2> QED BY <2>1, PairsAreFinite, FS_Surjection
<1>2. Cardinality(S) \in Nat
  BY <1>1, FS_CardinalityType
<1>3. events \in [1..Cardinality(S) -> S]
  BY DEF RequestOrders, SetToSeqs
<1>4. S \subseteq ChainEvent /\ \A e \in S : e.post = post
  BY DEF Event, ChainEvent
<1>5. events \in Seq(ChainEvent)
  <2> HIDE DEF S
  <2> QED BY <1>2, <1>3, <1>4
<1>6. \A i \in DOMAIN events : events[i].post = post
  <2> HIDE DEF S
  <2> QED BY <1>3, <1>4
<1> QED BY <1>5, <1>6

LEMMA MineInv == ASSUME IInv, Mine PROVE IInv'
<1> DEFINE post == Len(posts) + 1
           doc == Head(mempool)
<1>1. PICK registered \in SUBSET Validator :
        LET assigned == {p \in Eligible : p[1] <= doc.count /\ p[2] \in registered}
        IN  /\ posts' = Append(posts, [order |-> doc.order, assigned |-> assigned])
            /\ \E requests \in RequestOrders(post, assigned) : logs' = logs \o requests
            /\ asked' = asked \cup ({post} \X assigned)
  BY DEF Mine
<1> DEFINE assigned == {p \in Eligible : p[1] <= doc.count /\ p[2] \in registered}
           new == [order |-> doc.order, assigned |-> assigned]
<1>2. assigned \in SUBSET Pair
  BY EligibleAssumption
<1> HIDE DEF assigned
<1>3. PICK requests \in RequestOrders(post, assigned) : logs' = logs \o requests
  BY <1>1 DEF assigned
<1>4. posts' = Append(posts, new) /\ asked' = asked \cup ({post} \X assigned)
  BY <1>1 DEF assigned
<1>5. /\ UNCHANGED <<orders, consumer, topic, position, committed, uploads, registrations,
                     registrar, cursor>>
      /\ mempool # << >> /\ mempool' = Tail(mempool)
  BY DEF Mine, handlerVars, outsideVars
<1>6. /\ posts \in Seq(Post) /\ logs \in Seq(ChainEvent) /\ mempool \in Seq(Request)
      /\ asked \subseteq Nat \X Pair /\ cursor \in 0..Len(logs)
      /\ registrar \in {NoRegistration} \cup [at : {"wait", "reported"}, doc : Request, tx : Nat]
  BY DEF IInv, TypeInv
<1>7. doc.order \in Order /\ new \in Post
  <2>1. doc \in Request
    BY <1>5, <1>6
  <2>2. doc.order \in Order
    BY <2>1 DEF Request
  <2> HIDE DEF doc
  <2> QED BY <1>2, <2>2 DEF Post
<1>8. /\ posts' \in Seq(Post) /\ DOMAIN posts' = 1..Len(posts) + 1 /\ post \in DOMAIN posts'
      /\ Len(posts') = Len(posts) + 1 /\ Len(posts) \in Nat
      /\ posts'[post] = new /\ \A k \in DOMAIN posts : k \in DOMAIN posts' /\ posts'[k] = posts[k]
  BY <1>4, <1>6, <1>7
<1>9. requests \in Seq(ChainEvent) /\ \A i \in DOMAIN requests : requests[i].post = post
  BY <1>2, <1>3, <1>8, RequestsOfPost
<1>10. /\ logs' \in Seq(ChainEvent) /\ Len(logs') = Len(logs) + Len(requests)
       /\ Len(logs) \in Nat /\ Len(requests) \in Nat
       /\ DOMAIN logs' = 1..Len(logs') /\ DOMAIN logs = 1..Len(logs)
       /\ DOMAIN requests = 1..Len(requests)
       /\ \A i \in 1..Len(logs) + Len(requests) :
            logs'[i] = IF i <= Len(logs) THEN logs[i] ELSE requests[i - Len(logs)]
  BY <1>3, <1>6, <1>9, ConcatProperties
<1>11. \A i \in DOMAIN logs : i \in DOMAIN logs' /\ logs'[i] = logs[i]
  BY <1>10
<1>12. Grown
  BY <1>8, <1>11 DEF Grown
<1>13. \A i \in DOMAIN logs' : logs'[i].post \in DOMAIN posts'
  <2> TAKE i \in DOMAIN logs'
  <2>1. CASE i <= Len(logs)
    <3>1. i \in DOMAIN logs /\ logs'[i] = logs[i]
      BY <1>10, <2>1
    <3>2. logs[i].post \in DOMAIN posts
      BY <3>1 DEF IInv, PostsInv
    <3> QED BY <1>8, <3>1, <3>2
  <2>2. CASE ~ (i <= Len(logs))
    <3>1. i - Len(logs) \in DOMAIN requests /\ logs'[i] = requests[i - Len(logs)]
      BY <1>10, <2>2
    <3> QED BY <1>8, <1>9, <3>1
  <2> QED BY <2>1, <2>2
<1>14. \A r \in asked' : r[1] \in DOMAIN posts'
  BY <1>4, <1>8 DEF IInv, PostsInv
<1>15. registrar'.at = "wait" =>
         \/ registrar'.tx \in DOMAIN posts' /\ posts'[registrar'.tx].order = registrar'.doc.order
         \/ \E i \in DOMAIN mempool' :
              registrar'.tx = Len(posts') + i /\ mempool'[i].order = registrar'.doc.order
  <2> HAVE registrar'.at = "wait"
  <2>1. CASE registrar.tx \in DOMAIN posts /\ posts[registrar.tx].order = registrar.doc.order
    BY <1>5, <1>8, <2>1
  <2>2. ASSUME NEW i \in DOMAIN mempool,
               registrar.tx = Len(posts) + i, mempool[i].order = registrar.doc.order
        PROVE  \/ registrar'.tx \in DOMAIN posts' /\ posts'[registrar'.tx].order = registrar'.doc.order
               \/ \E j \in DOMAIN mempool' :
                    registrar'.tx = Len(posts') + j /\ mempool'[j].order = registrar'.doc.order
    <3>1. /\ DOMAIN mempool = 1..Len(mempool) /\ Len(mempool) \in Nat
          /\ DOMAIN mempool' = 1..Len(mempool) - 1 /\ doc = mempool[1]
          /\ \A j \in 1..Len(mempool) - 1 : mempool'[j] = mempool[j + 1]
      BY <1>5, <1>6
    <3>2. CASE i = 1
      <4>1. registrar'.tx = post /\ posts'[post].order = registrar'.doc.order
        BY <1>5, <1>8, <2>2, <3>1, <3>2
      <4> QED BY <1>8, <4>1
    <3>3. CASE i # 1
      <4>1. i - 1 \in DOMAIN mempool' /\ mempool'[i - 1] = mempool[i]
        BY <3>1, <3>3
      <4>2. registrar'.tx = Len(posts') + (i - 1)
        BY <1>5, <1>8, <2>2, <3>1
      <4> QED BY <1>5, <2>2, <4>1, <4>2
    <3> QED BY <3>2, <3>3
  <2> QED BY <1>5, <2>1, <2>2 DEF IInv, PostsInv
<1>16. PostsInv'
  BY <1>13, <1>14, <1>15 DEF PostsInv
<1>17. TypeInv'
  <2>1. mempool' \in Seq(Request)
    BY <1>5, <1>6
  <2>2. asked' \subseteq Nat \X Pair
    BY <1>2, <1>4, <1>6, <1>8
  <2>3. cursor' \in 0..Len(logs')
    BY <1>5, <1>6, <1>10
  <2> QED BY <1>5, <1>8, <1>10, <2>1, <2>2, <2>3 DEF IInv, TypeInv
<1> QED BY <1>5, <1>12, <1>16, <1>17, ServiceKeeps

LEMMA AgentInv == ASSUME IInv, NEW r \in asked, AgentActs(r) PROVE IInv'
<1>1. /\ UNCHANGED <<orders, consumer, position, committed, uploads, registrations,
                     registrar, mempool, posts, cursor>>
      /\ asked' = asked \ {r}
      /\ \/ SubmitValidation(r) /\ topic' = topic
         \/ ReportError(r) /\ logs' = logs
  BY DEF AgentActs
<1>2. /\ r[1] \in Nat /\ r[2] \in Pair /\ r[1] \in DOMAIN posts
      /\ logs \in Seq(ChainEvent) /\ cursor \in 0..Len(logs)
  BY DEF IInv, TypeInv, PostsInv
<1>3. CASE logs' = logs /\ topic' = topic
  <2>1. TypeInv' /\ PostsInv' /\ Grown
    BY <1>1, <1>3 DEF IInv, TypeInv, PostsInv, Grown
  <2> QED BY <1>1, <1>3, <2>1, ServiceKeeps
<1>4. CASE logs' = Append(logs, Event("ValidationSubmitted", r[1], r[2])) /\ topic' = topic
  <2> DEFINE e == Event("ValidationSubmitted", r[1], r[2])
  <2>1. e \in ChainEvent /\ e.post \in DOMAIN posts
    BY <1>2 DEF Event, ChainEvent
  <2> HIDE DEF e
  <2>2. logs' = Append(logs, e)
    BY <1>4 DEF e
  <2>3. /\ logs' \in Seq(ChainEvent) /\ Len(logs') = Len(logs) + 1
        /\ \A i \in DOMAIN logs : i \in DOMAIN logs' /\ logs'[i] = logs[i]
        /\ \A i \in DOMAIN logs' : i \in DOMAIN logs \/ logs'[i] = e
    BY <1>2, <2>1, <2>2
  <2>4. cursor' \in 0..Len(logs')
    BY <1>1, <1>2, <2>3
  <2>5. TypeInv'
    BY <1>1, <1>4, <2>3, <2>4 DEF IInv, TypeInv
  <2>6. \A i \in DOMAIN logs' : logs'[i].post \in DOMAIN posts'
    BY <1>1, <2>1, <2>3 DEF IInv, PostsInv
  <2>7. PostsInv' /\ Grown
    BY <1>1, <2>3, <2>6 DEF IInv, PostsInv, Grown
  <2> QED BY <1>1, <1>4, <2>5, <2>7, ServiceKeeps
<1>5. CASE topic' = Append(topic, Completed(r[1], r[2], "ERROR")) /\ logs' = logs
  <2>1. /\ Completed(r[1], r[2], "ERROR") \in Message
        /\ Holds(Completed(r[1], r[2], "ERROR"), posts', logs')
    BY <1>1, <1>2 DEF Completed, Message, Outcome, Holds
  <2>2. /\ topic' \in Seq(Message) /\ Len(topic') = Len(topic) + 1
        /\ \A i \in DOMAIN topic' :
             (i \in DOMAIN topic /\ topic'[i] = topic[i]) \/ Holds(topic'[i], posts', logs')
    BY <1>5, <2>1, AppendMessage DEF IInv
  <2>3. TypeInv' /\ PostsInv' /\ Grown
    BY <1>1, <1>5, <2>2 DEF IInv, TypeInv, PostsInv, Grown
  <2> QED BY <1>1, <2>2, <2>3, ServiceKeeps
<1> QED BY <1>1, <1>3, <1>4, <1>5 DEF SubmitValidation, ReportError

LEMMA ListenerInv == ASSUME IInv, Forward \/ ListenerMisses PROVE IInv'
<1>1. /\ UNCHANGED <<orders, consumer, position, committed, uploads, registrations>>
      /\ SameChain
  BY DEF Forward, ListenerMisses, SameChain
<1>2. PostsInv' /\ Grown /\ posts' = posts /\ logs' = logs
  BY <1>1, SameChainKeeps DEF SameChain
<1>3. CASE Forward
  <2> DEFINE e == logs[cursor + 1]
             m == IF e.event = "ValidationRequested"
                  THEN RequestValidation(e.post, e.pair)
                  ELSE Completed(e.post, e.pair, "COMPLETED")
  <2>1. cursor + 1 \in DOMAIN logs /\ e \in ChainEvent /\ cursor' \in 0..Len(logs')
    BY <1>1, <1>3 DEF Forward, IInv, TypeInv, SameChain
  <2>2. /\ e.post \in Nat /\ e.pair \in Pair /\ e.post \in DOMAIN posts
        /\ e.event \in {"ValidationRequested", "ValidationSubmitted"}
        /\ e = [event |-> e.event, post |-> e.post, pair |-> e.pair]
    BY <2>1 DEF ChainEvent, IInv, PostsInv
  <2>3. m \in Message /\ Holds(m, posts', logs')
    <3>1. CASE e.event = "ValidationRequested"
      BY <1>2, <2>2, <3>1 DEF RequestValidation, Message, Holds
    <3>2. CASE e.event = "ValidationSubmitted"
      <4>1. OnChain(e.post, e.pair, logs)
        BY <2>1, <2>2, <3>2 DEF OnChain, Event
      <4>2. m = Completed(e.post, e.pair, "COMPLETED")
        BY <3>2
      <4> QED BY <1>2, <2>2, <4>1, <4>2 DEF Completed, Message, Outcome, Holds
    <3> QED BY <2>2, <3>1, <3>2
  <2>4. topic' = Append(topic, m)
    BY <1>3 DEF Forward
  <2> HIDE DEF m
  <2>5. /\ topic' \in Seq(Message) /\ Len(topic') = Len(topic) + 1
        /\ \A i \in DOMAIN topic' :
             (i \in DOMAIN topic /\ topic'[i] = topic[i]) \/ Holds(topic'[i], posts', logs')
    BY <2>3, <2>4, AppendMessage DEF IInv
  <2>6. TypeInv'
    BY <1>1, <2>1, <2>5 DEF IInv, TypeInv, SameChain
  <2> QED BY <1>1, <1>2, <2>5, <2>6, ServiceKeeps
<1>4. CASE ListenerMisses
  <2>1. topic' = topic /\ cursor' \in 0..Len(logs')
    BY <1>1, <1>4 DEF ListenerMisses, IInv, TypeInv, SameChain
  <2>2. TypeInv'
    BY <1>1, <2>1 DEF IInv, TypeInv, SameChain
  <2> QED BY <1>1, <1>2, <2>1, <2>2, ServiceKeeps
<1> QED BY <1>3, <1>4

-----------------------------------------------------------------------------
(* News-handler                                                            *)

LEMMA PublicationInv ==
  ASSUME IInv, NEW o \in Order, UNCHANGED chainVars,
         \/ PublishNew(o, "BLOCKCHAIN")
         \/ MarkRequested(o)
         \/ PublishWithAssertions(o, "BLOCKCHAIN")
  PROVE  IInv'
<1>1. /\ UNCHANGED <<topic, position, committed, consumer>> /\ SameChain
      /\ UNCHANGED <<uploads, registrations, cursor>>
  BY DEF PublishNew, MarkRequested, PublishWithAssertions, chainVars, SameChain
<1>2. TypeInv' /\ MessagesInv' /\ PostsInv'
  BY <1>1, SameChainKeeps DEF IInv, TypeInv, MessagesInv, SameChain
<1>3. PICK doc \in Doc :
        /\ Set(o, doc) /\ Sound(doc) /\ Faithful(o, doc, posts, logs)
        /\ Missing(doc) = {} \/ (doc.post_id = orders[o].post_id /\ Missing(doc) = Missing(orders[o]))
  <2>1. CASE MarkRequested(o)
    <3> DEFINE new == [orders[o] EXCEPT !.status = "ASSERTIONS_REQUESTED"]
    <3>1. orders[o] \in Doc /\ Sound(orders[o]) /\ Faithful(o, orders[o], posts, logs)
      BY DEF IInv, OrdersInv
    <3>2. "ASSERTIONS_REQUESTED" \in Status /\ "ASSERTIONS_REQUESTED" \notin Terminal
      BY DEF Status, Terminal
    <3>3. /\ new \in Doc /\ new.status \notin Terminal
          /\ new.validators = orders[o].validators /\ new.validations = orders[o].validations
          /\ new.validators_pending = orders[o].validators_pending
          /\ new.post_id = orders[o].post_id /\ Missing(new) = Missing(orders[o])
      BY <3>1, <3>2, NewStatus
    <3>4. Sound(new) /\ Faithful(o, new, posts, logs)
      BY <3>1, <3>3, KeptDocument
    <3> QED BY <2>1, <3>3, <3>4 DEF MarkRequested
  <2>2. ASSUME NEW new \in Doc, Fresh(new), new.post_id = 0, Set(o, new)
        PROVE  \E doc \in Doc :
                 /\ Set(o, doc) /\ Sound(doc) /\ Faithful(o, doc, posts, logs)
                 /\ Missing(doc) = {}
    <3>1. Sound(new) /\ Faithful(o, new, posts, logs) /\ Missing(new) = {}
      BY <2>2, FreshDocument, FreshIsSound DEF Fresh
    <3> QED BY <2>2, <3>1
  <2>3. CASE PublishNew(o, "BLOCKCHAIN")
    <3>1. "CREATED" \in Status /\ "BLOCKCHAIN" \in Mode
      BY DEF Status, Mode
    <3> QED BY <2>2, <2>3, <3>1, SavedDocument DEF PublishNew
  <2>4. CASE PublishWithAssertions(o, "BLOCKCHAIN")
    <3>1. "ASSERTIONS_REQUESTED" \in Status /\ "BLOCKCHAIN" \in Mode /\ TRUE \in BOOLEAN
      BY DEF Status, Mode
    <3> QED BY <2>2, <2>4, <3>1, PublishedDocument DEF PublishWithAssertions
  <2> QED BY <2>1, <2>3, <2>4
<1>4. OrdersInv' /\ orders'[o] = doc /\ \A q \in Order : q # o => orders'[q] = orders[q]
  <2>1. OrdersInv /\ UNCHANGED <<posts, logs>>
    BY <1>1 DEF IInv, SameChain
  <2> QED BY <1>3, <2>1, SetKeeps
<1>5. HandlerInv'
  <2>1. \A q \in Order : Resolves(q)' => Resolves(q) \/ (q = o /\ Missing(doc) = {})
    BY <1>1, <1>3, <1>4 DEF Resolves
  <2>2. \A q \in Order : Missing(orders[q]) = {} \/ (q = o /\ Missing(doc) = {}) =>
                           Missing(orders'[q]) = {}
    BY <1>3, <1>4
  <2>3. \A q \in Order : Missing(orders[q])' = Missing(orders'[q])
    BY DEF Missing, Done
  <2> QED BY <1>1, <2>1, <2>2, <2>3 DEF IInv, HandlerInv
<1> QED BY <1>2, <1>4, <1>5 DEF IInv

LEMMA FetchInv == ASSUME IInv, Fetch, UNCHANGED chainVars PROVE IInv'
<1>1. /\ UNCHANGED <<orders, topic, committed>> /\ SameChain
      /\ UNCHANGED <<uploads, registrations, cursor>>
      /\ position < Len(topic) /\ position' = position + 1
      /\ consumer' = [at |-> "start", msg |-> topic[position + 1], todo |-> {}, plan |-> {}]
  BY DEF Fetch, chainVars, SameChain
<1>2. position + 1 \in DOMAIN topic /\ topic[position + 1] \in Message
      /\ position' \in 0..Len(topic') /\ committed' \in 0..position'
  BY <1>1 DEF IInv, TypeInv
<1>3. consumer' \in [at : Doing, msg : Message, todo : SUBSET Pair, plan : SUBSET Pair]
  BY <1>1, <1>2 DEF Doing
<1>4. TypeInv'
  BY <1>1, <1>2, <1>3 DEF IInv, TypeInv, SameChain
<1>5. MessagesInv' /\ PostsInv'
  BY <1>1, <1>2, SameChainKeeps DEF IInv, MessagesInv, SameChain
<1>6. OrdersInv' /\ HandlerInv'
  BY <1>1 DEF IInv, OrdersInv, Sound, Missing, Done, HandlerInv, SameChain
<1> QED BY <1>4, <1>5, <1>6 DEF IInv

LEMMA CrashInv == ASSUME IInv, Crash, UNCHANGED chainVars PROVE IInv'
<1>1. /\ UNCHANGED <<orders, topic>> /\ SameChain /\ UNCHANGED <<uploads, registrations, cursor>>
      /\ consumer' = Idle
      /\ position' \in committed..position /\ committed' = position'
  BY DEF Crash, chainVars, SameChain
<1>2. position' \in 0..Len(topic') /\ committed' \in 0..position'
  BY <1>1 DEF IInv, TypeInv
<1>3. TypeInv'
  BY <1>1, <1>2 DEF IInv, TypeInv, SameChain
<1>4. MessagesInv' /\ PostsInv'
  BY <1>1, SameChainKeeps DEF IInv, MessagesInv, SameChain, Idle
<1>5. OrdersInv' /\ HandlerInv'
  BY <1>1 DEF IInv, OrdersInv, Sound, Missing, Done, HandlerInv, SameChain, Idle
<1> QED BY <1>3, <1>4, <1>5 DEF IInv

\* A step of a handler: it writes a document, goes on or returns.
LEMMA HandlerKeeps ==
  ASSUME IInv, UNCHANGED <<topic, position, committed, cursor>>, SameChain,
         uploads' \in Seq(Request), registrations' \in Seq(Request),
         OrdersInv', HandlerInv', consumer.at # "idle",
         \/ consumer' = Idle
         \/ /\ consumer' \in [at : Doing, msg : Message, todo : SUBSET Pair, plan : SUBSET Pair]
            /\ consumer'.msg = consumer.msg
  PROVE  IInv'
<1>1. TypeInv'
  BY DEF IInv, TypeInv, SameChain
<1>2. MessagesInv' /\ PostsInv'
  BY SameChainKeeps DEF IInv, MessagesInv, SameChain, Idle
<1> QED BY <1>1, <1>2 DEF IInv

\* A handler that writes one document and returns, or goes on to another write.
LEMMA WriteKeeps ==
  ASSUME IInv, UNCHANGED <<topic, position, committed, cursor, uploads, registrations>>, SameChain,
         consumer.at # "idle",
         NEW o \in Order, NEW doc \in Doc, Set(o, doc), Sound(doc), Faithful(o, doc, posts, logs),
         \/ Return
         \/ /\ consumer.msg.action \in {"assertions_generated", "ipfs_uploaded"}
            /\ \E label \in {"upload", "register"} : Continue(label)
  PROVE  IInv'
<1>1. OrdersInv'
  <2>1. OrdersInv /\ UNCHANGED <<posts, logs>>
    BY DEF IInv, SameChain
  <2> QED BY <2>1, SetKeeps
<1>2. uploads' \in Seq(Request) /\ registrations' \in Seq(Request)
  BY DEF IInv, TypeInv
<1>3. CASE Return
  <2>1. consumer' = Idle /\ HandlerInv'
    BY <1>3, Returned DEF HandlerInv
  <2> QED BY <1>1, <1>2, <2>1, HandlerKeeps
<1>4. ASSUME NEW label \in {"upload", "register"}, Continue(label),
             consumer.msg.action \in {"assertions_generated", "ipfs_uploaded"}
      PROVE  IInv'
  <2>1. label \in Doing
    BY DEF Doing
  <2>2. /\ consumer' \in [at : Doing, msg : Message, todo : SUBSET Pair, plan : SUBSET Pair]
        /\ consumer'.at = label /\ consumer'.msg = consumer.msg
    BY <1>4, <2>1, Continued DEF IInv
  <2>3. HandlerInv'
    BY <1>4, <2>2 DEF HandlerInv
  <2> QED BY <1>1, <1>2, <2>2, <2>3, HandlerKeeps
<1> QED BY <1>3, <1>4

\* A handler that changes the status of its order to one that is not terminal.
LEMMA StatusKeeps ==
  ASSUME IInv, UNCHANGED <<topic, position, committed, cursor, uploads, registrations>>, SameChain,
         consumer.at # "idle", consumer.msg.order \in Order,
         NEW status \in Status \ Terminal,
         Set(consumer.msg.order, [orders[consumer.msg.order] EXCEPT !.status = status]),
         \/ Return
         \/ /\ consumer.msg.action \in {"assertions_generated", "ipfs_uploaded"}
            /\ \E label \in {"upload", "register"} : Continue(label)
  PROVE  IInv'
<1> DEFINE o == consumer.msg.order
           new == [orders[o] EXCEPT !.status = status]
<1>1. orders[o] \in Doc /\ Sound(orders[o]) /\ Faithful(o, orders[o], posts, logs)
  BY DEF IInv, OrdersInv
<1>2. /\ new \in Doc /\ new.status \notin Terminal
      /\ new.validators = orders[o].validators /\ new.validations = orders[o].validations
      /\ new.validators_pending = orders[o].validators_pending
      /\ new.post_id = orders[o].post_id
  BY <1>1, NewStatus
<1>3. Set(o, new)
  OBVIOUS
<1> HIDE DEF new
<1>4. Sound(new) /\ Faithful(o, new, posts, logs)
  BY <1>1, <1>2, KeptDocument
<1> QED BY <1>2, <1>3, <1>4, WriteKeeps

\* A handler that writes nothing.
LEMMA NothingKeeps ==
  ASSUME IInv, UNCHANGED <<orders, topic, position, committed, cursor, uploads, registrations>>,
         SameChain, consumer.at # "idle", Return
  PROVE  IInv'
<1>1. OrdersInv' /\ uploads' \in Seq(Request) /\ registrations' \in Seq(Request)
  BY DEF IInv, OrdersInv, TypeInv, Sound, Missing, Done, SameChain
<1>2. consumer' = Idle /\ HandlerInv'
  BY Returned DEF HandlerInv
<1> QED BY <1>1, <1>2, HandlerKeeps

\* The message in hand is about an order.
LEMMA OrderInHand ==
  ASSUME IInv, consumer.at # "idle",
         \/ consumer.at \in {"upload", "uploading", "register", "registering"}
         \/ consumer.msg.action \in {"assertions_generated", "ipfs_uploaded",
              "assertions_not_generated", "blockchain_registration_failed", "blockchain_registered"}
  PROVE  consumer.msg \in Message /\ consumer.msg.order \in Order
<1>1. consumer.msg \in Message
  BY InHand DEF IInv
<1>2. consumer.msg.action \in {"assertions_generated", "ipfs_uploaded",
        "assertions_not_generated", "blockchain_registration_failed", "blockchain_registered"}
  BY DEF IInv, HandlerInv
<1> QED BY <1>1, <1>2, MessageFields

LEMMA StatusStepsInv ==
  ASSUME IInv,
         \/ AssertionsNotGenerated /\ UNCHANGED chainVars
         \/ MarkIpfsPending \/ MarkBlockchainRequested
         \/ BlockchainRegistrationFailed \/ RegisterRequestFails
  PROVE  IInv'
<1>1. /\ UNCHANGED <<topic, position, committed, cursor, uploads, registrations>> /\ SameChain
      /\ Return /\ consumer.at # "idle"
      /\ \/ consumer.at \in {"uploading", "register", "registering"}
         \/ consumer.msg.action \in {"assertions_not_generated", "blockchain_registration_failed"}
  BY DEF AssertionsNotGenerated, MarkIpfsPending, MarkBlockchainRequested, Handling,
         BlockchainRegistrationFailed, RegisterRequestFails, outsideVars, chainVars, SameChain
<1>2. consumer.msg.order \in Order
  BY <1>1, OrderInHand
<1>3. \E status \in Status \ Terminal :
         Set(consumer.msg.order, [orders[consumer.msg.order] EXCEPT !.status = status])
  <2>1. {"ASSERTIONS_NOT_AVAILABLE", "IPFS_PENDING", "BLOCKCHAIN_REQUESTED", "BLOCKCHAIN_ERROR"}
        \subseteq Status \ Terminal
    BY DEF Status, Terminal
  <2> QED BY <2>1 DEF AssertionsNotGenerated, MarkIpfsPending, MarkBlockchainRequested,
                      BlockchainRegistrationFailed, RegisterRequestFails
<1> QED BY <1>1, <1>2, <1>3, StatusKeeps

LEMMA AssertionsGeneratedInv ==
  ASSUME IInv, QuotaStops \/ CreateDocument
  PROVE  IInv'
<1> DEFINE o == consumer.msg.order
<1>1. /\ UNCHANGED <<topic, position, committed, cursor, uploads, registrations>> /\ SameChain
      /\ consumer.at # "idle" /\ consumer.msg.action = "assertions_generated"
  BY DEF QuotaStops, CreateDocument, Handling, outsideVars, chainVars, SameChain
<1>2. o \in Order
  BY <1>1, OrderInHand
<1>3. orders[o] \in Doc /\ Sound(orders[o]) /\ Faithful(o, orders[o], posts, logs)
  BY <1>2 DEF IInv, OrdersInv
<1>4. CASE QuotaStops /\ orders' = orders
  BY <1>1, <1>4, NothingKeeps DEF QuotaStops
<1>5. ASSUME QuotaStops, orders' # orders PROVE IInv'
  <2> DEFINE new == [orders[o] EXCEPT !.status = "QUOTA_EXCEDED", !.assertions = TRUE]
  <2>1. /\ new \in Doc /\ new.status \notin Terminal
        /\ new.validators = orders[o].validators /\ new.validations = orders[o].validations
        /\ new.validators_pending = orders[o].validators_pending
        /\ new.post_id = orders[o].post_id
    BY <1>3, QuotaDocument
  <2>2. Set(o, new) /\ Return
    BY <1>5 DEF QuotaStops
  <2> HIDE DEF new
  <2>3. Sound(new) /\ Faithful(o, new, posts, logs)
    BY <1>3, <2>1, KeptDocument
  <2> QED BY <1>1, <1>2, <2>1, <2>2, <2>3, WriteKeeps
<1>6. CASE CreateDocument
  <2> DEFINE new == DocumentCreated(orders[o])
  <2>1. new \in Doc /\ Fresh(new) /\ new.post_id = orders[o].post_id
    BY <1>3, NewDocument
  <2>2. Set(o, new) /\ Continue("upload")
    BY <1>6 DEF CreateDocument
  <2> HIDE DEF new
  <2>3. new.post_id # 0 => new.post_id \in DOMAIN posts /\ posts[new.post_id].order = o
    BY <1>3, <2>1 DEF Faithful
  <2>4. Sound(new) /\ Faithful(o, new, posts, logs)
    BY <2>1, <2>3, FreshDocument
  <2> QED BY <1>1, <1>2, <2>1, <2>2, <2>4, WriteKeeps
<1> QED BY <1>4, <1>5, <1>6

LEMMA RequestsInv ==
  ASSUME IInv, SendUpload \/ SendRegister \/ UploadRequestFails
  PROVE  IInv'
<1>1. /\ UNCHANGED <<orders, topic, position, committed, cursor>> /\ SameChain
      /\ consumer.at \in {"upload", "register"}
  BY DEF SendUpload, SendRegister, UploadRequestFails, outsideVars, chainVars, SameChain
<1>2. consumer.msg.action \in {"assertions_generated", "ipfs_uploaded"}
  BY <1>1 DEF IInv, HandlerInv
<1>3. consumer.msg.order \in Order /\ consumer.msg.count \in Assertion
  BY <1>1, <1>2, OrderInHand, MessageFields
<1>4. OrdersInv'
  BY <1>1 DEF IInv, OrdersInv, Sound, Missing, Done, SameChain
<1>5. ASSUME NEW label \in {"uploading", "registering"}, Continue(label),
             uploads' \in Seq(Request), registrations' \in Seq(Request)
      PROVE  IInv'
  <2>1. label \in Doing
    BY DEF Doing
  <2>2. /\ consumer' \in [at : Doing, msg : Message, todo : SUBSET Pair, plan : SUBSET Pair]
        /\ consumer'.at = label /\ consumer'.msg = consumer.msg
    BY <1>1, <1>5, <2>1, Continued DEF IInv
  <2>3. HandlerInv'
    BY <1>2, <1>5, <2>2 DEF HandlerInv
  <2> QED BY <1>1, <1>4, <1>5, <2>2, <2>3, HandlerKeeps
<1>6. Document(consumer.msg.order, consumer.msg.count) \in Request
  BY <1>3 DEF Document, Request
<1>7. uploads \in Seq(Request) /\ registrations \in Seq(Request)
  BY DEF IInv, TypeInv
<1>8. CASE SendUpload
  <2>1. uploads' \in Seq(Request) /\ registrations' \in Seq(Request) /\ Continue("uploading")
    BY <1>6, <1>7, <1>8 DEF SendUpload
  <2> QED BY <1>5, <2>1
<1>9. CASE SendRegister
  <2>1. uploads' \in Seq(Request) /\ registrations' \in Seq(Request) /\ Continue("registering")
    BY <1>6, <1>7, <1>9 DEF SendRegister
  <2> QED BY <1>5, <2>1
<1>10. CASE UploadRequestFails
  BY <1>1, <1>10, NothingKeeps DEF UploadRequestFails, chainVars
<1> QED BY <1>8, <1>9, <1>10

LEMMA UploadedInv == ASSUME IInv, StartUploaded PROVE IInv'
<1> DEFINE o == consumer.msg.order
<1>1. /\ UNCHANGED <<topic, position, committed, cursor, uploads, registrations>> /\ SameChain
      /\ consumer.at # "idle" /\ consumer.msg.action = "ipfs_uploaded"
  BY DEF StartUploaded, Handling, outsideVars, chainVars, SameChain
<1>2. o \in Order
  BY <1>1, OrderInHand
<1>3. CASE orders[o].assertions
  <2>1. "IPFS_UPLOADED" \in Status \ Terminal
    BY DEF Status, Terminal
  <2>2. Set(o, [orders[o] EXCEPT !.status = "IPFS_UPLOADED"]) /\ Continue("register")
    BY <1>3 DEF StartUploaded
  <2> QED BY <1>1, <1>2, <2>1, <2>2, StatusKeeps
<1>4. CASE ~ orders[o].assertions
  BY <1>1, <1>4, NothingKeeps DEF StartUploaded
<1> QED BY <1>3, <1>4

\* The registration of a post tells the order what the contract assigned.
LEMMA RegisteredInv == ASSUME IInv, BlockchainRegistered PROVE IInv'
<1> DEFINE o == consumer.msg.order
           post == consumer.msg.post
           assigned == posts[post].assigned
           new == [orders[o] EXCEPT !.validators = assigned,
                     !.validators_pending = Cardinality(assigned),
                     !.status = "VALIDATION_PENDING", !.post_id = post]
<1>1. /\ UNCHANGED <<topic, position, committed, cursor, uploads, registrations>> /\ SameChain
      /\ consumer.at # "idle" /\ consumer.msg.action = "blockchain_registered"
      /\ Set(o, new) /\ Return
  BY DEF BlockchainRegistered, WaitForPost, Handling, outsideVars, chainVars, SameChain
<1>2. o \in Order
  BY <1>1, OrderInHand
<1>3. post \in DOMAIN posts /\ posts[post].order = o
  BY <1>1 DEF IInv, MessagesInv, Holds
<1>4. posts \in Seq(Post)
  BY DEF IInv, TypeInv
<1>5. post \in Nat /\ assigned \in SUBSET Pair
  <2>1. post \in Nat /\ posts[post] \in Post
    BY <1>3, <1>4
  <2> QED BY <2>1 DEF Post
<1>6. orders[o] \in Doc /\ Faithful(o, orders[o], posts, logs)
  BY <1>2 DEF IInv, OrdersInv
<1> HIDE DEF post, assigned
<1>7. IsFiniteSet(assigned) /\ Cardinality(assigned) \in Nat
  BY <1>5, PairsAreFinite
<1>8. /\ new \in Doc /\ new.status \notin Terminal
      /\ new.validators = assigned /\ new.validations = orders[o].validations
      /\ new.validators_pending = Cardinality(assigned)
      /\ new.post_id = post /\ Missing(new) \subseteq assigned
  BY <1>5, <1>6, <1>7, WaitingDocument
<1> HIDE DEF new
<1>9. Sound(new)
  <2>1. Cardinality(Missing(new)) <= Cardinality(assigned)
    BY <1>7, <1>8, FS_Subset
  <2> QED BY <1>8, <2>1 DEF Sound
<1>10. Faithful(o, new, posts, logs)
  BY <1>3, <1>6, <1>8 DEF Faithful, post, assigned
<1> QED BY <1>1, <1>2, <1>8, <1>9, <1>10, WriteKeeps

LEMMA RequestValidationInv == ASSUME IInv, IgnoreUnresolved \/ RecordRequest PROVE IInv'
<1>1. /\ UNCHANGED <<topic, position, committed, cursor, uploads, registrations>> /\ SameChain
      /\ consumer.at # "idle" /\ Return
  BY DEF IgnoreUnresolved, RecordRequest, Handling, outsideVars, chainVars, SameChain
<1>2. CASE orders' = orders
  BY <1>1, <1>2, NothingKeeps
<1>3. ASSUME NEW o \in Order, consumer.msg.action = "request_validation",
             Set(o, [orders[o] EXCEPT !.validation_requests = @ \cup {consumer.msg.pair}])
      PROVE  IInv'
  <2> DEFINE doc == orders[o]
             pair == consumer.msg.pair
             new == [doc EXCEPT !.validation_requests = @ \cup {pair}]
  <2>1. pair \in Pair
    BY <1>1, <1>3, InHand, MessageFields DEF IInv
  <2>2. doc \in Doc /\ Sound(doc) /\ Faithful(o, doc, posts, logs)
    BY DEF IInv, OrdersInv
  <2>3. Set(o, new)
    BY <1>3
  <2> HIDE DEF doc, pair
  <2>4. /\ new \in Doc /\ new.status = doc.status
        /\ new.validators = doc.validators /\ new.validations = doc.validations
        /\ new.validators_pending = doc.validators_pending
        /\ new.post_id = doc.post_id /\ Missing(new) = Missing(doc)
    BY <2>1, <2>2, RequestedDocument
  <2> HIDE DEF new
  <2>5. Sound(new) /\ Faithful(o, new, posts, logs)
    <3>1. new.status \in Terminal => Missing(new) = {}
      BY <2>2, <2>4 DEF Sound
    <3> QED BY <2>2, <2>4, <3>1, KeptDocument
  <2> QED BY <1>1, <2>3, <2>4, <2>5, WriteKeeps
<1> QED BY <1>2, <1>3 DEF IgnoreUnresolved, RecordRequest, Handling

\* A message that resolves to an order is about the post of that order only.
LEMMA ResolvedOrder ==
  ASSUME IInv, consumer.at # "idle", consumer.msg.action = "validation_completed",
         NEW o \in Order, Resolves(o)
  PROVE  /\ consumer.msg.post \in DOMAIN posts /\ posts[consumer.msg.post].order = o
         /\ \A q \in Order : Resolves(q) => q = o
<1>1. consumer.msg.post \in DOMAIN posts
  BY DEF IInv, MessagesInv, Holds
<1>2. consumer.msg.post # 0
  BY <1>1 DEF IInv, TypeInv
<1>3. \A q \in Order : Resolves(q) => posts[consumer.msg.post].order = q
  BY <1>2 DEF Resolves, IInv, OrdersInv, Faithful
<1> QED BY <1>1, <1>3

\* A step of the handler of an answer.
LEMMA AnswerKeeps ==
  ASSUME IInv, UNCHANGED <<topic, position, committed, cursor, uploads, registrations>>, SameChain,
         consumer.at # "idle", consumer.msg.action = "validation_completed", OrdersInv',
         Return \/ \E label \in {"row", "count"} : Continue(label)
  PROVE  IInv'
<1>1. uploads' \in Seq(Request) /\ registrations' \in Seq(Request)
  BY DEF IInv, TypeInv
<1>2. CASE Return
  <2>1. consumer' = Idle /\ HandlerInv'
    BY <1>2, Returned DEF HandlerInv
  <2> QED BY <1>1, <2>1, HandlerKeeps
<1>3. ASSUME NEW label \in {"row", "count"}, Continue(label) PROVE IInv'
  <2>1. label \in Doing
    BY DEF Doing
  <2>2. /\ consumer' \in [at : Doing, msg : Message, todo : SUBSET Pair, plan : SUBSET Pair]
        /\ consumer'.at = label /\ consumer'.msg = consumer.msg
    BY <1>3, <2>1, Continued DEF IInv
  <2>3. HandlerInv'
    BY <1>3, <2>2 DEF HandlerInv
  <2> QED BY <1>1, <2>2, <2>3, HandlerKeeps
<1> QED BY <1>2, <1>3

LEMMA StartValidationInv == ASSUME IInv, StartValidation PROVE IInv'
<1>1. /\ consumer.at = "start" /\ consumer.msg.action = "validation_completed"
      /\ UNCHANGED <<cursor, uploads, registrations>> /\ SameChain
  BY DEF StartValidation, Handling, chainVars, SameChain
<1>2. PICK o \in Order : Resolves(o) /\ (IgnoreDuplicate(o) \/ RecordAnswer(o))
  BY DEF StartValidation
<1>3. UNCHANGED <<topic, position, committed>>
  BY <1>2 DEF IgnoreDuplicate, RecordAnswer, outsideVars
<1>4. CASE IgnoreDuplicate(o)
  BY <1>1, <1>3, <1>4, NothingKeeps DEF IgnoreDuplicate
<1>5. CASE RecordAnswer(o)
  <2> DEFINE doc == orders[o]
             pair == consumer.msg.pair
             outcome == consumer.msg.outcome
             new == [doc EXCEPT !.validations[pair] = outcome]
  <2>1. pair \in Pair /\ outcome \in Outcome
    BY <1>1, InHand, MessageFields DEF IInv
  <2>2. doc \in Doc /\ Sound(doc) /\ Faithful(o, doc, posts, logs)
    BY DEF IInv, OrdersInv
  <2>3. Set(o, new) /\ Continue("row")
    BY <1>5 DEF RecordAnswer
  <2>4. consumer.msg.post \in DOMAIN posts /\ posts[consumer.msg.post].order = o
    BY <1>1, <1>2, ResolvedOrder
  <2>5. outcome = "COMPLETED" => OnChain(consumer.msg.post, pair, logs)
    BY <1>1 DEF IInv, MessagesInv, Holds
  <2> HIDE DEF doc, pair, outcome
  <2>6. /\ new \in Doc /\ new.status = doc.status
        /\ new.validators = doc.validators
        /\ new.validations = [doc.validations EXCEPT ![pair] = outcome]
        /\ new.validators_pending = doc.validators_pending
        /\ new.post_id = doc.post_id /\ Missing(new) \subseteq Missing(doc)
    BY <2>1, <2>2, AnsweredDocument
  <2> HIDE DEF new
  <2>7. Sound(new)
    <3>1. Missing(doc) \in SUBSET Pair
      BY <2>2 DEF Missing, Doc
    <3>2. /\ Cardinality(Missing(new)) <= Cardinality(Missing(doc))
          /\ Cardinality(Missing(new)) \in Nat /\ Cardinality(Missing(doc)) \in Nat
      BY <2>6, <3>1, PairsAreFinite, FS_Subset, FS_CardinalityType
    <3>3. doc.validators_pending \in Nat
      BY <2>2 DEF Doc
    <3> QED BY <2>2, <2>6, <3>2, <3>3 DEF Sound
  <2>8. Faithful(o, new, posts, logs)
    <3>1. \A p \in Pair : new.validations[p] = IF p = pair THEN outcome ELSE doc.validations[p]
      BY <2>2, <2>6 DEF Doc
    <3> QED BY <2>2, <2>4, <2>5, <2>6, <3>1 DEF Faithful
  <2>9. OrdersInv'
    <3>1. OrdersInv /\ UNCHANGED <<posts, logs>>
      BY <1>1 DEF IInv, SameChain
    <3> QED BY <2>3, <2>7, <2>8, <3>1, SetKeeps
  <2> QED BY <1>1, <1>3, <2>3, <2>9, AnswerKeeps
<1> QED BY <1>2, <1>4, <1>5

LEMMA FinishValidationInv == ASSUME IInv, FinishValidation PROVE IInv'
<1>1. /\ consumer.at \in {"row", "count", "close"} /\ consumer.at # "idle"
      /\ consumer.msg.action = "validation_completed"
      /\ UNCHANGED <<cursor, uploads, registrations>> /\ SameChain
  BY DEF FinishValidation, IInv, HandlerInv, chainVars, SameChain
<1>2. PICK o \in Order : Resolves(o) /\ (LogValidation(o) \/ CountPending(o) \/ CloseOrder(o))
  BY DEF FinishValidation
<1>3. UNCHANGED <<topic, position, committed>>
  BY <1>2 DEF LogValidation, CountPending, CountAs, CloseOrder, outsideVars
<1> DEFINE doc == orders[o]
<1>4. doc \in Doc /\ Sound(doc) /\ Faithful(o, doc, posts, logs)
  BY DEF IInv, OrdersInv
<1>5. OrdersInv /\ UNCHANGED <<posts, logs>>
  BY <1>1 DEF IInv, SameChain
<1>6. CASE LogValidation(o)
  <2>1. orders' = orders /\ (Return \/ Continue("count"))
    BY <1>6 DEF LogValidation
  <2>2. OrdersInv'
    BY <1>5, <2>1 DEF OrdersInv, Sound, Missing, Done
  <2> QED BY <1>1, <1>3, <2>1, <2>2, AnswerKeeps
<1>7. CASE CountPending(o)
  <2> DEFINE n == Cardinality(Missing(doc))
             new == [doc EXCEPT !.validators_pending = n]
  <2>1. Set(o, new) /\ IF Missing(doc) = {} THEN Continue("close") ELSE Return
    BY <1>7 DEF CountPending, CountAs
  <2>2. n \in Nat
    <3>1. Missing(doc) \in SUBSET Pair
      BY <1>4 DEF Missing, Doc
    <3> QED BY <3>1, PairsAreFinite
  <2>3. /\ new \in Doc /\ new.status = doc.status
        /\ new.validators = doc.validators /\ new.validations = doc.validations
        /\ new.validators_pending = n
        /\ new.post_id = doc.post_id /\ Missing(new) = Missing(doc)
    BY <1>4, <2>2, CountedDocument
  <2> HIDE DEF new
  <2>4. Sound(new) /\ Faithful(o, new, posts, logs)
    BY <1>4, <2>2, <2>3 DEF Sound, Faithful
  <2>5. OrdersInv' /\ orders'[o] = new /\ \A q \in Order : q # o => orders'[q] = orders[q]
    BY <1>5, <2>1, <2>4, SetKeeps
  <2>6. CASE Return
    BY <1>1, <1>3, <2>5, <2>6, AnswerKeeps
  <2>7. CASE Missing(doc) = {} /\ Continue("close")
    <3>1. /\ consumer' \in [at : Doing, msg : Message, todo : SUBSET Pair, plan : SUBSET Pair]
          /\ consumer'.at = "close" /\ consumer'.msg = consumer.msg
      BY <1>1, <2>7, Continued DEF IInv, Doing
    <3>2. \A q \in Order : Resolves(q) => q = o
      BY <1>1, <1>2, ResolvedOrder
    <3>3. \A q \in Order : Resolves(q)' => q = o
      BY <1>2, <2>3, <2>5, <3>1, <3>2 DEF Resolves
    <3>4. \A q \in Order : Missing(orders[q])' = Missing(orders'[q])
      BY DEF Missing, Done
    <3>5. Missing(orders'[o]) = {}
      BY <2>3, <2>5, <2>7
    <3>6. HandlerInv'
      BY <1>1, <3>1, <3>3, <3>4, <3>5 DEF HandlerInv
    <3>7. uploads' \in Seq(Request) /\ registrations' \in Seq(Request)
      BY <1>1 DEF IInv, TypeInv
    <3> QED BY <1>1, <1>3, <2>5, <3>1, <3>6, <3>7, HandlerKeeps
  <2> QED BY <2>1, <2>6, <2>7
<1>8. CASE CloseOrder(o)
  <2> DEFINE status == TerminalStatus(doc)
             new == [doc EXCEPT !.status = status]
  <2>1. Set(o, new) /\ Return /\ consumer.at = "close"
    BY <1>8 DEF CloseOrder
  <2>2. Missing(doc) = {}
    BY <1>2, <2>1 DEF IInv, HandlerInv
  <2>3. status \in Status
    BY DEF TerminalStatus, Status, Terminal
  <2> HIDE DEF status
  <2>4. /\ new \in Doc /\ new.validators = doc.validators /\ new.validations = doc.validations
        /\ new.validators_pending = doc.validators_pending
        /\ new.post_id = doc.post_id /\ Missing(new) = Missing(doc)
    BY <1>4, <2>3, NewStatus
  <2> HIDE DEF new
  <2>5. Sound(new) /\ Faithful(o, new, posts, logs)
    BY <1>4, <2>2, <2>4, KeptDocument
  <2>6. OrdersInv'
    BY <1>5, <2>1, <2>5, SetKeeps
  <2> QED BY <1>1, <1>3, <2>1, <2>6, AnswerKeeps
<1> QED BY <1>2, <1>6, <1>7, <1>8

LEMMA HandlerStepsInv == ASSUME IInv, Handler PROVE IInv'
BY AssertionsGeneratedInv, RequestsInv, StatusStepsInv, UploadedInv, RegisteredInv,
   RequestValidationInv, StartValidationInv, FinishValidationInv DEF Handler

LEMMA NextIInv == ASSUME IInv, [Next]_vars PROVE IInv'
<1>1. CASE UNCHANGED vars
  <2>1. SameChain /\ UNCHANGED <<orders, consumer, topic, position, committed, uploads,
                                 registrations, cursor>>
    BY <1>1 DEF vars, handlerVars, outsideVars, chainVars, SameChain
  <2>2. TypeInv' /\ PostsInv' /\ Grown
    BY <2>1, SameChainKeeps DEF IInv, TypeInv, SameChain
  <2> QED BY <2>1, <2>2, ServiceKeeps
<1>2. CASE HandlerNext("BLOCKCHAIN") /\ UNCHANGED chainVars
  BY <1>2, PublicationInv, GenerationInv, FetchInv, CrashInv, StatusStepsInv DEF HandlerNext
<1>3. CASE Handler
  BY <1>3, HandlerStepsInv
<1>4. CASE UploadRequestFails \/ RegisterRequestFails
  BY <1>4, RequestsInv, StatusStepsInv
<1>5. CASE Upload
  BY <1>5, UploadInv
<1>6. CASE NewsChain \/ RegistrationFails \/ RegistrarRestarts
  BY <1>6, RegistrarInv DEF NewsChain
<1>7. CASE Mine
  BY <1>7, MineInv
<1>8. ASSUME NEW r \in asked, AgentActs(r) PROVE IInv'
  BY <1>8, AgentInv
<1>9. CASE Forward \/ ListenerMisses
  BY <1>9, ListenerInv
<1> QED BY <1>1, <1>2, <1>3, <1>4, <1>5, <1>6, <1>7, <1>8, <1>9 DEF Next

\* The invariant in every reachable state.
THEOREM Invariance == Spec => []IInv
<1> QED BY InitIInv, NextIInv, PTL DEF Spec

-----------------------------------------------------------------------------
(* Theorems                                                                *)

\* PostBelongsToOrder: the post an order shows was mined for it, and the order
\* waits for nobody the contract did not ask.
THEOREM PostTheorem == Spec => []PostBelongsToOrder
<1>1. ASSUME IInv PROVE PostBelongsToOrder
  BY <1>1 DEF IInv, OrdersInv, Faithful, PostBelongsToOrder
<1> QED BY <1>1, Invariance, PTL

\* CompletedAreOnChain: what an order shows as completed is in the events of the
\* contract, for a post of that order.
THEOREM OnChainTheorem == Spec => []CompletedAreOnChain
<1>1. ASSUME IInv PROVE CompletedAreOnChain
  <2> SUFFICES ASSUME NEW o \in Order, NEW p \in Pair, orders[o].validations[p] = "COMPLETED"
               PROVE  \E s \in Submitted : s[2] = p /\ posts[s[1]].order = o
    BY DEF CompletedAreOnChain
  <2>1. PICK post \in DOMAIN posts : posts[post].order = o /\ OnChain(post, p, logs)
    BY <1>1 DEF IInv, OrdersInv, Faithful
  <2> DEFINE e == Event("ValidationSubmitted", post, p)
  <2>2. e \in Range(logs) /\ e.event = "ValidationSubmitted" /\ e.post = post /\ e.pair = p
    BY <2>1 DEF OnChain, Range, Event
  <2>3. <<post, p>> \in Submitted
    BY <2>2 DEF Submitted
  <2> QED BY <2>1, <2>3
<1> QED BY <1>1, Invariance, PTL

\* ClosedMeansExpectedDone, for BLOCKCHAIN orders.
THEOREM ClosedTheorem == Spec => []ClosedMeansExpectedDone
<1>1. ASSUME IInv PROVE ClosedMeansExpectedDone
  BY <1>1 DEF IInv, OrdersInv, Sound, ClosedMeansExpectedDone
<1> QED BY <1>1, Invariance, PTL

\* PendingNeverUnderstates, for BLOCKCHAIN orders.
THEOREM PendingTheorem == Spec => []PendingNeverUnderstates
<1>1. ASSUME IInv PROVE PendingNeverUnderstates
  BY <1>1 DEF IInv, OrdersInv, Sound, PendingNeverUnderstates
<1> QED BY <1>1, Invariance, PTL

-----------------------------------------------------------------------------
(* What is published, and the first answers                                *)

Published(o) == publisher[o] # "none"

\* What news-handler is told about a text is about one that was published; the
\* messages of the listener are about posts.
About(m, progress) ==
  m.action \notin {"request_validation", "validation_completed"} => progress[m.order] # "none"

AboutPublished(m) == About(m, publisher)

PublishedInv ==
  /\ publisher \in [Order -> {"none", "saved", "sent", "given", "done", "lost"}]
  /\ generation \in [Order -> {"none", "queued", "answered"}]
  /\ \A o \in Order : ~ Published(o) => generation[o] = "none" /\ orders[o] = Absent
  /\ \A i \in DOMAIN topic : AboutPublished(topic[i])
  /\ consumer.at # "idle" => AboutPublished(consumer.msg)
  /\ \A i \in DOMAIN uploads : Published(uploads[i].order)
  /\ \A i \in DOMAIN registrations : Published(registrations[i].order)
  /\ registrar.at # "idle" => Published(registrar.doc.order)

LEMMA NamesOrder ==
  \A m \in Message :
    m.action \notin {"request_validation", "validation_completed"} => m.order \in Order
BY DEF Message

LEMMA InitPublished == Init => PublishedInv
BY DEF Init, HandlerInit, PublishedInv, Published, Idle, NoRegistration

\* Every request in a queue, and the one in hand, is about an order.
LEMMA QueuesNameOrders ==
  ASSUME TypeInv
  PROVE  /\ \A i \in DOMAIN uploads : uploads[i].order \in Order
         /\ \A i \in DOMAIN registrations : registrations[i].order \in Order
         /\ registrar.at # "idle" => registrar.doc.order \in Order
<1>1. uploads \in Seq(Request) /\ registrations \in Seq(Request)
  BY DEF TypeInv
<1>2. registrar.at # "idle" => registrar.doc \in Request
  BY DEF TypeInv, NoRegistration
<1>3. \A i \in DOMAIN uploads : uploads[i] \in Request
  BY <1>1
<1>4. \A i \in DOMAIN registrations : registrations[i] \in Request
  BY <1>1
<1> QED BY <1>2, <1>3, <1>4 DEF Request

\* A request is put at the end of a queue or at its head, or leaves it.
LEMMA QueueOfPublished ==
  ASSUME NEW q \in Seq(Request), NEW next, NEW r \in Request, Published(r.order),
         \A i \in DOMAIN q : Published(q[i].order),
         next = q \/ next = Append(q, r) \/ next = <<r>> \o q \/ (q # << >> /\ next = Tail(q))
  PROVE  \A i \in DOMAIN next : Published(next[i].order)
<1>1. CASE next = Append(q, r)
  <2>1. \A i \in DOMAIN next : (i \in DOMAIN q /\ next[i] = q[i]) \/ next[i] = r
    BY <1>1
  <2> QED BY <2>1
<1>2. CASE next = <<r>> \o q
  <2>1. \A i \in DOMAIN next : next[i] = r \/ \E j \in DOMAIN q : next[i] = q[j]
    <3>1. <<r>> \in Seq(Request) /\ Len(<<r>>) = 1 /\ <<r>>[1] = r
      OBVIOUS
    <3>2. /\ Len(next) = 1 + Len(q) /\ DOMAIN next = 1..Len(next)
          /\ \A i \in 1..Len(next) : next[i] = IF i <= 1 THEN <<r>>[i] ELSE q[i - 1]
      BY <1>2, <3>1, ConcatProperties
    <3>3. \A i \in DOMAIN next : i = 1 \/ (i - 1 \in DOMAIN q /\ next[i] = q[i - 1])
      BY <3>2
    <3> QED BY <3>1, <3>2, <3>3
  <2> QED BY <2>1
<1>3. CASE q # << >> /\ next = Tail(q)
  <2>1. \A i \in DOMAIN next : i + 1 \in DOMAIN q /\ next[i] = q[i + 1]
    BY <1>3
  <2> QED BY <2>1
<1> QED BY <1>1, <1>2, <1>3

LEMMA HeadOfPublished ==
  ASSUME NEW q \in Seq(Request), q # << >>, \A i \in DOMAIN q : Published(q[i].order)
  PROVE  /\ Head(q) \in Request /\ Published(Head(q).order)
         /\ \A i \in DOMAIN Tail(q) : Published(Tail(q)[i].order)
<1>1. Head(q) = q[1] /\ 1 \in DOMAIN q /\ Head(q) \in Request
  OBVIOUS
<1> QED BY <1>1, QueueOfPublished

\* The topic, with one more message or none.
LEMMA TopicOfPublished ==
  ASSUME TypeInv, \A i \in DOMAIN topic : AboutPublished(topic[i]),
         topic' = topic \/ \E m \in Message : topic' = Append(topic, m) /\ AboutPublished(m)
  PROVE  \A i \in DOMAIN topic' : AboutPublished(topic'[i])
<1>1. CASE topic' = topic
  BY <1>1
<1>2. ASSUME NEW m \in Message, topic' = Append(topic, m), AboutPublished(m)
      PROVE  \A i \in DOMAIN topic' : AboutPublished(topic'[i])
  <2>1. \A i \in DOMAIN topic' : (i \in DOMAIN topic /\ topic'[i] = topic[i]) \/ topic'[i] = m
    BY <1>2 DEF TypeInv
  <2> QED BY <2>1
<1> QED BY <1>1, <1>2

\* The services keep the record of what is published.
LEMMA ServicesPublished ==
  ASSUME IInv, PublishedInv,
         \/ Upload \/ NewsChain \/ RegistrationFails \/ RegistrarRestarts \/ Mine
         \/ \E r \in asked : AgentActs(r)
         \/ Forward \/ ListenerMisses
  PROVE  PublishedInv' /\ UNCHANGED orders
<1>1. UNCHANGED <<orders, publisher, generation, consumer>>
  BY DEF Upload, NewsChain, SubmitRegistration, ReportRegistration, RegistrationFails,
         RegistrarRestarts, Mine, AgentActs, Forward, ListenerMisses, handlerVars, outsideVars
<1>2. /\ uploads \in Seq(Request) /\ registrations \in Seq(Request)
      /\ registrar \in {NoRegistration} \cup [at : {"wait", "reported"}, doc : Request, tx : Nat]
  BY DEF IInv, TypeInv
<1>3. TypeInv /\ \A i \in DOMAIN topic : AboutPublished(topic[i])
  BY DEF IInv, PublishedInv
<1>4. \A m : About(m, publisher') <=> AboutPublished(m)
  BY <1>1 DEF AboutPublished, About, Published
<1> DEFINE Queues ==
      /\ \A i \in DOMAIN uploads' : Published(uploads'[i].order)
      /\ \A i \in DOMAIN registrations' : Published(registrations'[i].order)
      /\ registrar'.at # "idle" => Published(registrar'.doc.order)
      /\ \A i \in DOMAIN topic' : AboutPublished(topic'[i])
<1>5. Queues => PublishedInv'
  BY <1>1 DEF PublishedInv, AboutPublished, About, Published
<1>6. CASE Upload
  <2>1. /\ uploads' = uploads \/ uploads' = Tail(uploads)
        /\ UNCHANGED <<registrations, registrar>> /\ uploads # << >>
        /\ topic' = topic \/ topic' = Append(topic, Uploaded(Head(uploads).order, Head(uploads).count))
    BY <1>6 DEF Upload
  <2>2. /\ Head(uploads) \in Request /\ Published(Head(uploads).order)
        /\ \A i \in DOMAIN Tail(uploads) : Published(Tail(uploads)[i].order)
    BY <1>2, <2>1, HeadOfPublished DEF PublishedInv
  <2>3. Uploaded(Head(uploads).order, Head(uploads).count) \in Message
        /\ AboutPublished(Uploaded(Head(uploads).order, Head(uploads).count))
    BY <2>2, OrderMessages DEF AboutPublished, About, Published, Uploaded, Request
  <2>4. \A i \in DOMAIN topic' : AboutPublished(topic'[i])
    BY <1>3, <2>1, <2>3, TopicOfPublished
  <2> QED BY <1>1, <1>5, <2>1, <2>2, <2>4 DEF PublishedInv
<1>7. CASE SubmitRegistration \/ RegistrationFails
  <2> DEFINE doc == Head(registrations)
  <2>1. /\ registrations # << >> /\ registrations' = Tail(registrations) /\ UNCHANGED uploads
        /\ registrar' = registrar \/ (registrar'.doc = doc /\ registrar'.at = "wait")
        /\ topic' = topic \/ topic' = Append(topic, RegistrationFailed(doc.order))
    BY <1>7 DEF SubmitRegistration, RegistrationFails, handlerVars, outsideVars
  <2>2. /\ doc \in Request /\ Published(doc.order)
        /\ \A i \in DOMAIN registrations' : Published(registrations'[i].order)
    BY <1>2, <2>1, HeadOfPublished DEF PublishedInv
  <2>3. RegistrationFailed(doc.order) \in Message /\ AboutPublished(RegistrationFailed(doc.order))
    BY <2>2, OrderMessages DEF AboutPublished, About, Published, RegistrationFailed, Request
  <2>4. \A i \in DOMAIN topic' : AboutPublished(topic'[i])
    BY <1>3, <2>1, <2>3, TopicOfPublished
  <2> QED BY <1>1, <1>5, <2>1, <2>2, <2>4 DEF PublishedInv
<1>8. CASE ReportRegistration
  <2> DEFINE o == registrar.doc.order
  <2>1. /\ UNCHANGED <<uploads, registrations>> /\ registrar.at = "wait"
        /\ registrar.doc \in Request /\ registrar.tx \in Nat /\ registrar'.doc = registrar.doc
        /\ \/ topic' = Append(topic, Registered(o, registrar.tx))
           \/ topic' = Append(topic, RegistrationFailed(o))
    BY <1>2, <1>8 DEF ReportRegistration, NoRegistration
  <2>2. o \in Order /\ Published(o)
    BY <2>1 DEF PublishedInv, Request
  <2>3. /\ Registered(o, registrar.tx) \in Message /\ AboutPublished(Registered(o, registrar.tx))
        /\ RegistrationFailed(o) \in Message /\ AboutPublished(RegistrationFailed(o))
    BY <2>1, <2>2 DEF AboutPublished, About, Published, RegistrationFailed, Registered, Message
  <2>4. \A i \in DOMAIN topic' : AboutPublished(topic'[i])
    BY <1>3, <2>1, <2>3, TopicOfPublished
  <2> QED BY <1>1, <1>5, <2>1, <2>2, <2>4 DEF PublishedInv
<1>9. CASE RegistrarRestarts
  <2>1. /\ UNCHANGED <<topic, uploads>> /\ registrar.at # "idle" /\ registrar' = NoRegistration
        /\ registrations' = registrations \/ registrations' = <<registrar.doc>> \o registrations
    BY <1>9 DEF RegistrarRestarts
  <2>2. registrar.doc \in Request /\ Published(registrar.doc.order)
    BY <1>2, <2>1 DEF NoRegistration, PublishedInv
  <2>3. \A i \in DOMAIN registrations' : Published(registrations'[i].order)
    BY <1>2, <2>1, <2>2, QueueOfPublished DEF PublishedInv
  <2> QED BY <1>1, <1>5, <2>1, <2>3 DEF PublishedInv, NoRegistration
<1>10. CASE Mine \/ (\E r \in asked : AgentActs(r)) \/ Forward \/ ListenerMisses
  <2>1. UNCHANGED <<uploads, registrations, registrar>>
    BY <1>10 DEF Mine, AgentActs, Forward, ListenerMisses
  <2>2. topic' = topic \/ \E m \in Message : topic' = Append(topic, m) /\ AboutPublished(m)
    <3>1. CASE Mine \/ ListenerMisses
      BY <3>1 DEF Mine, ListenerMisses, handlerVars, outsideVars
    <3>2. ASSUME NEW r \in asked, AgentActs(r)
          PROVE  topic' = topic \/ \E m \in Message : topic' = Append(topic, m) /\ AboutPublished(m)
      <4>1. topic' = topic \/ topic' = Append(topic, Completed(r[1], r[2], "ERROR"))
        BY <3>2 DEF AgentActs, ReportError
      <4>2. r[1] \in Nat /\ r[2] \in Pair
        BY DEF IInv, TypeInv
      <4>3. Completed(r[1], r[2], "ERROR") \in Message
            /\ AboutPublished(Completed(r[1], r[2], "ERROR"))
        BY <4>2 DEF Completed, Message, Outcome, AboutPublished, About, Published
      <4> QED BY <4>1, <4>3
    <3>3. CASE Forward
      <4> DEFINE e == logs[cursor + 1]
      <4>1. e \in ChainEvent
        BY <3>3 DEF Forward, IInv, TypeInv
      <4>2. \/ topic' = Append(topic, RequestValidation(e.post, e.pair))
            \/ topic' = Append(topic, Completed(e.post, e.pair, "COMPLETED"))
        BY <3>3 DEF Forward
      <4>3. \A m \in {RequestValidation(e.post, e.pair), Completed(e.post, e.pair, "COMPLETED")} :
              m \in Message /\ AboutPublished(m)
        BY <4>1 DEF Completed, RequestValidation, Message, ChainEvent, Outcome,
                    AboutPublished, About, Published
      <4> QED BY <4>2, <4>3
    <3> QED BY <1>10, <3>1, <3>2, <3>3
  <2>3. \A i \in DOMAIN topic' : AboutPublished(topic'[i])
    BY <1>3, <2>2, TopicOfPublished
  <2> QED BY <1>1, <1>5, <2>1, <2>3 DEF PublishedInv
<1> QED BY <1>1, <1>6, <1>7, <1>8, <1>9, <1>10 DEF NewsChain

\* The answers a document shows are kept, or dropped all together by a reset.
Kept(old, new) ==
  \/ \A p \in Done(old) : new.validations[p] = old.validations[p]
  \/ Done(new) = {} /\ new.status = "DOCUMENT_CREATED"

\* A step writes nothing, or one document that was published, and keeps its answers.
WritesPublished ==
  \/ orders' = orders
  \/ \E o \in Order, new \in Doc : Published(o) /\ Set(o, new) /\ Kept(orders[o], new)

\* A handler of a message that names an order.
OrderStep ==
  \/ AssertionsNotGenerated /\ UNCHANGED chainVars
  \/ QuotaStops \/ CreateDocument \/ MarkIpfsPending \/ StartUploaded
  \/ RegisterRequestFails \/ MarkBlockchainRequested
  \/ BlockchainRegistered \/ BlockchainRegistrationFailed

\* A handler of a message that names a post.
PostStep == IgnoreUnresolved \/ RecordRequest \/ StartValidation \/ FinishValidation

LEMMA OrderStepWrites == ASSUME IInv, PublishedInv, OrderStep PROVE WritesPublished
<1> DEFINE o == consumer.msg.order
           doc == orders[o]
<1>1. /\ consumer.at # "idle"
      /\ \/ consumer.at \in {"upload", "uploading", "register", "registering"}
         \/ consumer.msg.action \in {"assertions_generated", "ipfs_uploaded",
              "assertions_not_generated", "blockchain_registration_failed", "blockchain_registered"}
  BY DEF OrderStep, AssertionsNotGenerated, QuotaStops, CreateDocument, MarkIpfsPending,
         StartUploaded, RegisterRequestFails, MarkBlockchainRequested, BlockchainRegistered,
         BlockchainRegistrationFailed, Handling
<1>2. o \in Order
  BY <1>1, OrderInHand
<1>3. Published(o)
  <2>1. consumer.msg.action \in {"assertions_generated", "ipfs_uploaded",
          "assertions_not_generated", "blockchain_registration_failed", "blockchain_registered"}
    BY <1>1 DEF IInv, HandlerInv
  <2> QED BY <1>1, <2>1 DEF PublishedInv, AboutPublished, About, Published
<1>4. doc \in Doc
  BY <1>2 DEF IInv, OrdersInv
<1>5. ASSUME NEW new \in Doc, new.validations = doc.validations, Set(o, new)
      PROVE  WritesPublished
  BY <1>2, <1>3, <1>5 DEF WritesPublished, Kept
<1>6. ASSUME NEW status \in Status, Set(o, [doc EXCEPT !.status = status])
      PROVE  WritesPublished
  BY <1>4, <1>5, <1>6, NewStatus
<1>7. {"ASSERTIONS_NOT_AVAILABLE", "IPFS_PENDING", "IPFS_UPLOADED", "BLOCKCHAIN_REQUESTED",
       "BLOCKCHAIN_ERROR"} \subseteq Status
  BY DEF Status
<1>8. CASE \/ AssertionsNotGenerated \/ MarkIpfsPending \/ RegisterRequestFails
           \/ MarkBlockchainRequested \/ BlockchainRegistrationFailed
  BY <1>6, <1>7, <1>8 DEF AssertionsNotGenerated, MarkIpfsPending, RegisterRequestFails,
                          MarkBlockchainRequested, BlockchainRegistrationFailed
<1>9. CASE StartUploaded
  BY <1>6, <1>7, <1>9 DEF StartUploaded, WritesPublished
<1>10. CASE QuotaStops
  BY <1>4, <1>5, <1>10, QuotaDocument DEF QuotaStops, WritesPublished
<1>11. CASE CreateDocument
  <2> DEFINE new == DocumentCreated(doc)
  <2>1. new \in Doc /\ Fresh(new)
    BY <1>4, NewDocument
  <2>2. Done(new) = {} /\ new.status = "DOCUMENT_CREATED"
    BY <1>4, <2>1 DEF Fresh, Done, NoValidations, DocumentCreated, Doc
  <2>3. Set(o, new)
    BY <1>11 DEF CreateDocument
  <2> QED BY <1>2, <1>3, <2>1, <2>2, <2>3 DEF WritesPublished, Kept
<1>12. CASE BlockchainRegistered
  <2> DEFINE post == consumer.msg.post
             assigned == posts[post].assigned
             new == [doc EXCEPT !.validators = assigned, !.validators_pending = Cardinality(assigned),
                                !.status = "VALIDATION_PENDING", !.post_id = post]
  <2>1. Set(o, new)
    BY <1>12 DEF BlockchainRegistered, WaitForPost
  <2>2. post \in Nat /\ assigned \in SUBSET Pair
    <3>1. post \in DOMAIN posts
      BY <1>1, <1>12 DEF BlockchainRegistered, Handling, IInv, MessagesInv, Holds
    <3>2. posts \in Seq(Post)
      BY DEF IInv, TypeInv
    <3>3. post \in Nat /\ posts[post] \in Post
      BY <3>1, <3>2
    <3> QED BY <3>3 DEF Post
  <2> HIDE DEF o, doc, post, assigned
  <2>4. Cardinality(assigned) \in Nat
    BY <2>2, PairsAreFinite
  <2>5. /\ new \in Doc /\ new.status \notin Terminal
        /\ new.validators = assigned /\ new.validations = doc.validations
        /\ new.validators_pending = Cardinality(assigned)
        /\ new.post_id = post /\ Missing(new) \subseteq assigned
    BY <1>4, <2>2, <2>4, WaitingDocument
  <2> HIDE DEF new
  <2> QED BY <1>5, <2>1, <2>5
<1> QED BY <1>8, <1>9, <1>10, <1>11, <1>12 DEF OrderStep

\* A message that resolves to an order: the order was published.
LEMMA ResolvedIsPublished ==
  ASSUME IInv, PublishedInv, consumer.at # "idle",
         consumer.msg.action \in {"request_validation", "validation_completed"},
         NEW o \in Order, Resolves(o)
  PROVE  Published(o)
<1>1. consumer.msg.post # 0
  BY DEF IInv, MessagesInv, Holds, TypeInv
<1> QED BY <1>1 DEF Resolves, PublishedInv, Absent

LEMMA PostStepWrites == ASSUME IInv, PublishedInv, PostStep PROVE WritesPublished
<1>1. /\ consumer.at # "idle"
      /\ consumer.msg.action \in {"request_validation", "validation_completed"}
  BY DEF PostStep, IgnoreUnresolved, RecordRequest, StartValidation, FinishValidation, Handling,
         IInv, HandlerInv
<1>2. consumer.msg.pair \in Pair
      /\ (consumer.msg.action = "validation_completed" => consumer.msg.outcome \in Outcome)
  BY <1>1, InHand, MessageFields DEF IInv
<1>3. \A o \in Order : orders[o] \in Doc
  BY DEF IInv, OrdersInv
<1>4. ASSUME NEW o \in Order, Resolves(o), NEW new \in Doc, Set(o, new),
             \A p \in Done(orders[o]) : new.validations[p] = orders[o].validations[p]
      PROVE  WritesPublished
  BY <1>1, <1>4, ResolvedIsPublished DEF WritesPublished, Kept
<1>5. CASE IgnoreUnresolved
  BY <1>5 DEF IgnoreUnresolved, WritesPublished
<1>6. CASE RecordRequest
  <2>1. PICK o \in Order :
          /\ Resolves(o)
          /\ \/ Set(o, [orders[o] EXCEPT !.validation_requests = @ \cup {consumer.msg.pair}])
             \/ orders' = orders
    BY <1>6 DEF RecordRequest
  <2> QED BY <1>2, <1>3, <1>4, <2>1, RequestedDocument DEF WritesPublished
<1>7. ASSUME NEW o \in Order, Resolves(o), IgnoreDuplicate(o) \/ LogValidation(o)
      PROVE  WritesPublished
  BY <1>7 DEF IgnoreDuplicate, LogValidation, WritesPublished
<1>8. ASSUME NEW o \in Order, Resolves(o), RecordAnswer(o), consumer.msg.outcome \in Outcome
      PROVE  WritesPublished
  <2> DEFINE p == consumer.msg.pair
             outcome == consumer.msg.outcome
             doc == orders[o]
             new == [doc EXCEPT !.validations[p] = outcome]
  <2>1. p \notin Done(orders[o]) /\ Set(o, new)
    BY <1>8 DEF RecordAnswer, AlreadyDone
  <2>2. p \in Pair /\ outcome \in Outcome /\ doc \in Doc
    BY <1>2, <1>3, <1>8
  <2> HIDE DEF p, outcome, doc
  <2>4. new \in Doc /\ new.validations = [doc.validations EXCEPT ![p] = outcome]
    BY <2>2, AnsweredDocument
  <2> HIDE DEF new
  <2>3. \A q \in Done(orders[o]) : new.validations[q] = orders[o].validations[q]
    BY <2>1, <2>2, <2>4 DEF Done, Doc, doc
  <2> QED BY <1>4, <1>8, <2>1, <2>3, <2>4
<1>9. ASSUME NEW o \in Order, Resolves(o), CountPending(o) PROVE WritesPublished
  <2> DEFINE doc == orders[o]
             n == Cardinality(Missing(doc))
             new == [doc EXCEPT !.validators_pending = n]
  <2>1. doc \in Doc /\ n \in Nat
    BY <1>3, PairsAreFinite DEF Missing, Doc
  <2>2. Set(o, new)
    BY <1>9 DEF CountPending, CountAs
  <2> HIDE DEF doc, n
  <2>3. new \in Doc /\ new.validations = doc.validations
    BY <2>1, CountedDocument
  <2> HIDE DEF new
  <2> QED BY <1>4, <1>9, <2>2, <2>3 DEF doc
<1>10. ASSUME NEW o \in Order, Resolves(o), CloseOrder(o) PROVE WritesPublished
  <2> DEFINE doc == orders[o]
             status == TerminalStatus(doc)
             new == [doc EXCEPT !.status = status]
  <2>1. doc \in Doc /\ status \in Status
    BY <1>3 DEF TerminalStatus, Status, Terminal
  <2>2. Set(o, new)
    BY <1>10 DEF CloseOrder
  <2> HIDE DEF doc, status
  <2>3. new \in Doc /\ new.validations = doc.validations
    BY <2>1, NewStatus
  <2> HIDE DEF new
  <2> QED BY <1>4, <1>10, <2>2, <2>3 DEF doc
<1>11. CASE StartValidation
  <2>1. consumer.msg.outcome \in Outcome
    BY <1>2, <1>11 DEF StartValidation, Handling
  <2> QED BY <1>7, <1>8, <1>11, <2>1 DEF StartValidation
<1>12. CASE FinishValidation
  BY <1>7, <1>9, <1>10, <1>12 DEF FinishValidation
<1> QED BY <1>5, <1>6, <1>11, <1>12 DEF PostStep

\* A write of a published document is about nothing else.
LEMMA WritesKeepRest ==
  ASSUME IInv, WritesPublished
  PROVE  /\ \A o \in Order : ~ Published(o) => orders'[o] = orders[o]
         /\ AnswersAreKept
<1>1. CASE orders' = orders
  BY <1>1 DEF AnswersAreKept
<1>2. ASSUME NEW o \in Order, NEW new \in Doc, Published(o), Set(o, new), Kept(orders[o], new)
      PROVE  /\ \A q \in Order : ~ Published(q) => orders'[q] = orders[q]
             /\ AnswersAreKept
  <2>1. orders'[o] = new /\ \A q \in Order : q # o => orders'[q] = orders[q]
    BY <1>2 DEF Set, IInv, OrdersInv
  <2> QED BY <1>2, <2>1 DEF Kept, AnswersAreKept
<1> QED BY <1>1, <1>2 DEF WritesPublished

LEMMA MessageStepPublished ==
  ASSUME IInv, PublishedInv,
         OrderStep \/ PostStep \/ SendUpload \/ SendRegister \/ UploadRequestFails
  PROVE  PublishedInv' /\ AnswersAreKept
<1>1. /\ UNCHANGED <<publisher, generation, topic, registrar>> /\ consumer.at # "idle"
      /\ consumer' = Idle \/ \E label \in Doing : Continue(label)
  BY DEF OrderStep, PostStep, SendUpload, SendRegister, UploadRequestFails,
         AssertionsNotGenerated, QuotaStops, CreateDocument, MarkIpfsPending, StartUploaded,
         RegisterRequestFails, MarkBlockchainRequested, BlockchainRegistered,
         BlockchainRegistrationFailed, IgnoreUnresolved, RecordRequest, StartValidation,
         FinishValidation, IgnoreDuplicate, RecordAnswer, LogValidation, CountPending, CountAs,
         CloseOrder, Handling, Return, Doing, outsideVars, chainVars
<1>2. WritesPublished
  BY OrderStepWrites, PostStepWrites
     DEF SendUpload, SendRegister, UploadRequestFails, WritesPublished
<1>3. /\ \A o \in Order : ~ Published(o) => orders'[o] = orders[o]
      /\ AnswersAreKept
  BY <1>2, WritesKeepRest
<1>4. consumer'.at # "idle" => consumer'.msg = consumer.msg
  BY <1>1, Continued DEF IInv, Idle
<1>5. /\ \A i \in DOMAIN uploads' : Published(uploads'[i].order)
      /\ \A i \in DOMAIN registrations' : Published(registrations'[i].order)
  <2>1. uploads \in Seq(Request) /\ registrations \in Seq(Request)
    BY DEF IInv, TypeInv
  <2>2. CASE UNCHANGED <<uploads, registrations>>
    BY <2>2 DEF PublishedInv
  <2>3. CASE SendUpload \/ SendRegister
    <3> DEFINE r == Document(consumer.msg.order, consumer.msg.count)
    <3>1. /\ consumer.msg.action \in {"assertions_generated", "ipfs_uploaded"}
          /\ consumer.at \in {"upload", "register"}
      BY <2>3 DEF SendUpload, SendRegister, IInv, HandlerInv
    <3>2. r \in Request /\ Published(r.order)
      <4>1. consumer.msg.order \in Order /\ consumer.msg.count \in Assertion
        BY <1>1, <3>1, OrderInHand, MessageFields
      <4>2. Published(consumer.msg.order)
        BY <1>1, <3>1 DEF PublishedInv, AboutPublished, About, Published
      <4> QED BY <4>1, <4>2 DEF Request, Document
    <3>3. /\ uploads' = uploads \/ uploads' = Append(uploads, r)
          /\ registrations' = registrations \/ registrations' = Append(registrations, r)
      BY <2>3 DEF SendUpload, SendRegister, outsideVars
    <3> HIDE DEF r
    <3>4. \A i \in DOMAIN uploads' : Published(uploads'[i].order)
      BY <2>1, <3>2, <3>3, QueueOfPublished DEF PublishedInv
    <3>5. \A i \in DOMAIN registrations' : Published(registrations'[i].order)
      BY <2>1, <3>2, <3>3, QueueOfPublished DEF PublishedInv
    <3> QED BY <3>4, <3>5
  <2>4. CASE OrderStep \/ PostStep \/ UploadRequestFails
    BY <2>2, <2>4
       DEF OrderStep, PostStep, UploadRequestFails, AssertionsNotGenerated, QuotaStops,
           CreateDocument, MarkIpfsPending, StartUploaded, RegisterRequestFails,
           MarkBlockchainRequested, BlockchainRegistered, BlockchainRegistrationFailed,
           IgnoreUnresolved, RecordRequest, StartValidation, FinishValidation, chainVars
  <2> QED BY <2>3, <2>4
<1>6. PublishedInv'
  BY <1>1, <1>3, <1>4, <1>5 DEF PublishedInv, AboutPublished, About, Published
<1> QED BY <1>3, <1>6

\* Publications, the generator, the consumer loop and a crash.
LEMMA PublicationPublished ==
  ASSUME IInv, PublishedInv, NEW o \in Order, UNCHANGED chainVars,
         \/ PublishNew(o, "BLOCKCHAIN") \/ SendGenerate(o) \/ MarkRequested(o)
         \/ PublishWithAssertions(o, "BLOCKCHAIN")
         \/ \E n \in Assertion : SendGiven(o, n)
         \/ GenerateAssertions(o)
  PROVE  PublishedInv' /\ AnswersAreKept
<1>1. /\ UNCHANGED <<consumer, uploads, registrations, registrar>>
  BY DEF PublishNew, SendGenerate, MarkRequested, PublishWithAssertions, SendGiven,
         GenerateAssertions, Generate, chainVars
<1>2. /\ publisher' \in [Order -> {"none", "saved", "sent", "given", "done", "lost"}]
      /\ generation' \in [Order -> {"none", "queued", "answered"}]
  BY DEF PublishedInv, PublishNew, SendGenerate, MarkRequested, PublishWithAssertions, SendGiven,
         GenerateAssertions, Generate
<1>3. /\ publisher'[o] # "none"
      /\ \A q \in Order : q # o => /\ publisher'[q] # "none" <=> Published(q)
                                  /\ generation'[q] = generation[q]
  BY DEF PublishedInv, Published, PublishNew, SendGenerate, MarkRequested,
         PublishWithAssertions, SendGiven, GenerateAssertions, Generate
<1>4. orders' = orders \/ \E new : Set(o, new)
  BY DEF PublishNew, SendGenerate, MarkRequested, PublishWithAssertions, SendGiven,
         GenerateAssertions, Generate
<1>5. \A q \in Order : q # o => orders'[q] = orders[q]
  BY <1>4 DEF Set, IInv, OrdersInv
<1>6. topic' = topic \/ \E m \in Message : topic' = Append(topic, m) /\ About(m, publisher')
  <2>1. \A n \in Assertion : Generated(o, n) \in Message /\ About(Generated(o, n), publisher')
    BY <1>3, OrderMessages DEF AboutPublished, About, Generated, Published
  <2>2. NotGenerated(o) \in Message /\ About(NotGenerated(o), publisher')
    BY <1>3, OrderMessages DEF AboutPublished, About, NotGenerated, Published
  <2> QED BY <2>1, <2>2 DEF PublishNew, SendGenerate, MarkRequested, PublishWithAssertions,
                             SendGiven, GenerateAssertions, Generate
<1>7. \A q \in Order : Published(q) => publisher'[q] # "none"
  BY <1>3
<1>8. \A m \in Message : AboutPublished(m) => About(m, publisher')
  BY <1>7, NamesOrder DEF AboutPublished, About, Published
<1>9. \A i \in DOMAIN topic' : About(topic'[i], publisher')
  <2>1. topic \in Seq(Message)
    BY DEF IInv, TypeInv
  <2>2. \A i \in DOMAIN topic : topic[i] \in Message
    BY <2>1
  <2>3. \A i \in DOMAIN topic : About(topic[i], publisher')
    BY <1>8, <2>2 DEF PublishedInv
  <2>4. ASSUME NEW m \in Message, topic' = Append(topic, m), About(m, publisher')
        PROVE  \A i \in DOMAIN topic' : About(topic'[i], publisher')
    <3>1. \A i \in DOMAIN topic' : (i \in DOMAIN topic /\ topic'[i] = topic[i]) \/ topic'[i] = m
      BY <2>1, <2>4
    <3> QED BY <2>3, <2>4, <3>1
  <2> QED BY <1>6, <2>3, <2>4
<1>10. PublishedInv'
  <2>1. \A q \in Order : publisher'[q] = "none" => generation'[q] = "none" /\ orders'[q] = Absent
    BY <1>3, <1>5 DEF PublishedInv
  <2>2. consumer'.at # "idle" => About(consumer.msg, publisher')
    BY <1>1, <1>8, InHand DEF PublishedInv, IInv
  <2>3. /\ \A i \in DOMAIN uploads' : publisher'[uploads'[i].order] # "none"
        /\ \A i \in DOMAIN registrations' : publisher'[registrations'[i].order] # "none"
        /\ registrar'.at # "idle" => publisher'[registrar'.doc.order] # "none"
    BY <1>1, <1>7, QueuesNameOrders DEF PublishedInv, Published, IInv
  <2> QED BY <1>1, <1>2, <1>9, <2>1, <2>2, <2>3 DEF PublishedInv, AboutPublished, About, Published
<1>11. AnswersAreKept
  <2>1. CASE orders' = orders
    BY <2>1 DEF AnswersAreKept
  <2>2. CASE PublishNew(o, "BLOCKCHAIN") \/ PublishWithAssertions(o, "BLOCKCHAIN")
    <3>1. orders[o] = Absent
      BY <2>2 DEF PublishNew, PublishWithAssertions, PublishedInv, Published
    <3>2. Done(orders[o]) = {}
      BY <3>1 DEF Done, Absent, NoValidations
    <3> QED BY <1>5, <3>2 DEF AnswersAreKept
  <2>3. CASE MarkRequested(o)
    <3>1. orders'[o].validations = orders[o].validations
      BY <2>3 DEF MarkRequested, Set, IInv, OrdersInv, Doc
    <3> QED BY <1>5, <3>1 DEF AnswersAreKept
  <2> QED BY <2>1, <2>2, <2>3 DEF SendGenerate, SendGiven, GenerateAssertions, Generate
<1> QED BY <1>10, <1>11

LEMMA LoopPublished ==
  ASSUME IInv, PublishedInv, UNCHANGED chainVars, Fetch \/ Crash
  PROVE  PublishedInv' /\ UNCHANGED orders
<1>1. UNCHANGED <<orders, generation, topic, uploads, registrations, registrar>>
  BY DEF Fetch, Crash, chainVars
<1>2. publisher' \in [Order -> {"none", "saved", "sent", "given", "done", "lost"}]
      /\ \A o \in Order : publisher'[o] # "none" <=> Published(o)
  BY DEF PublishedInv, Published, Fetch, Crash
<1>3. \A m \in Message : About(m, publisher') <=> AboutPublished(m)
  BY <1>2, NamesOrder DEF AboutPublished, About, Published
<1>4. topic \in Seq(Message)
  BY DEF IInv, TypeInv
<1>5. consumer'.at # "idle" => About(consumer'.msg, publisher')
  <2>1. CASE Fetch
    <3>1. position + 1 \in DOMAIN topic /\ consumer'.msg = topic[position + 1]
      BY <2>1 DEF Fetch, IInv, TypeInv
    <3>2. topic[position + 1] \in Message
      BY <1>4, <3>1
    <3>3. About(topic[position + 1], publisher')
      BY <1>3, <3>1, <3>2 DEF PublishedInv
    <3> QED BY <3>1, <3>3
  <2>2. CASE Crash
    BY <2>2 DEF Crash, Idle
  <2> QED BY <2>1, <2>2
<1>6. \A i \in DOMAIN topic' : About(topic'[i], publisher')
  <2>1. \A i \in DOMAIN topic : topic[i] \in Message
    BY <1>4
  <2>2. \A i \in DOMAIN topic : About(topic[i], publisher')
    BY <1>3, <2>1 DEF PublishedInv
  <2> QED BY <1>1, <2>2
<1>7. /\ \A i \in DOMAIN uploads' : publisher'[uploads'[i].order] # "none"
      /\ \A i \in DOMAIN registrations' : publisher'[registrations'[i].order] # "none"
      /\ registrar'.at # "idle" => publisher'[registrar'.doc.order] # "none"
  BY <1>1, <1>2, QueuesNameOrders DEF PublishedInv, Published, IInv
<1> QED BY <1>1, <1>2, <1>5, <1>6, <1>7 DEF PublishedInv, AboutPublished, About, Published

LEMMA NextPublished == ASSUME IInv, PublishedInv, [Next]_vars PROVE PublishedInv' /\ AnswersAreKept
<1>1. UNCHANGED orders => AnswersAreKept
  BY DEF AnswersAreKept
<1>2. CASE UNCHANGED vars
  BY <1>1, <1>2 DEF vars, handlerVars, outsideVars, chainVars, PublishedInv, AboutPublished, About, Published,
                    Published
<1>3. CASE HandlerNext("BLOCKCHAIN") /\ UNCHANGED chainVars
  BY <1>1, <1>3, PublicationPublished, LoopPublished, MessageStepPublished
     DEF HandlerNext, OrderStep
<1>4. CASE Handler \/ UploadRequestFails \/ RegisterRequestFails
  BY <1>4, MessageStepPublished DEF Handler, OrderStep, PostStep
<1>5. CASE \/ Upload \/ NewsChain \/ RegistrationFails \/ RegistrarRestarts \/ Mine
           \/ \E r \in asked : AgentActs(r)
           \/ Forward \/ ListenerMisses
  BY <1>1, <1>5, ServicesPublished
<1> QED BY <1>2, <1>3, <1>4, <1>5 DEF Next

\* Nothing in the system names an order that was not published: no request, no
\* message, no registration in hand, and no document is written before.
LEMMA PublishedInvariance == Spec => []PublishedInv
<1> QED BY InitPublished, NextPublished, Invariance, PTL DEF Spec

\* FirstAnswerWins, for BLOCKCHAIN orders: neither the receipt of a second
\* registration, nor a redelivered event, nor a late write of the publication
\* replaces an answer that was recorded.
THEOREM FirstAnswerTheorem == Spec => FirstAnswerWins
<1>1. IInv /\ PublishedInv /\ [Next]_vars => [AnswersAreKept]_handlerVars
  BY NextPublished
<1> QED BY <1>1, Invariance, PublishedInvariance, PTL DEF Spec, FirstAnswerWins
=============================================================================
