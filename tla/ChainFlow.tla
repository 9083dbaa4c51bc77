------------------------------ MODULE ChainFlow ------------------------------
(***************************************************************************)
(* BLOCKCHAIN orders: news-handler has the document pinned by ipfs-fastapi *)
(* and registered by news-chain; the contract asks its validators, their   *)
(* agents answer on chain, and the listener of news-chain forwards the     *)
(* events of the contract to the topic news-handler consumes.              *)
(***************************************************************************)
EXTENDS NewsHandler, SequencesExt

CONSTANT
  Eligible        \* <<a, v>>: v may be registered for the category of a

ASSUME EligibleAssumption == Eligible \subseteq Pair

VARIABLES
  uploads,        \* the requests topic of ipfs-fastapi
  registrations,  \* the requests topic of news-chain
  registrar,      \* the registration news-chain has in hand
  mempool,        \* registerNew transactions not mined yet, in nonce order
  posts,          \* posts of the contract; the post id is the position
  logs,           \* ValidationRequested and ValidationSubmitted events, in order
  cursor,         \* events the listener has passed
  asked,          \* <<post, pair>> whose agent has still to act on the request
  unresolved      \* <<post, pair>> of answers no order was found for

chainVars == <<uploads, registrations, registrar, mempool, posts, logs, cursor,
               asked, unresolved>>
vars == <<handlerVars, chainVars>>

-----------------------------------------------------------------------------
(* Messages, events *)

Uploaded(o, n) == [action |-> "ipfs_uploaded", order |-> o, count |-> n]
Registered(o, post) == [action |-> "blockchain_registered", order |-> o, post |-> post]
RegistrationFailed(o) == [action |-> "blockchain_registration_failed", order |-> o]
RequestValidation(post, p) == [action |-> "request_validation", post |-> post, pair |-> p]
\* Mutant: a run that failed is reported like one that ended.
CompletedAnyway(post, p, outcome) ==
  [action |-> "validation_completed", post |-> post, pair |-> p, outcome |-> "COMPLETED"]

Completed(post, p, outcome) ==
  [action |-> "validation_completed", post |-> post, pair |-> p, outcome |-> outcome]

Document(o, n) == [order |-> o, count |-> n]

Event(kind, post, p) == [event |-> kind, post |-> post, pair |-> p]

NoRegistration == [at |-> "idle"]

Init ==
  /\ HandlerInit
  /\ uploads = << >> /\ registrations = << >>
  /\ registrar = NoRegistration
  /\ mempool = << >> /\ posts = << >>
  /\ logs = << >> /\ cursor = 0
  /\ asked = {} /\ unresolved = {}

-----------------------------------------------------------------------------
(* assertions_generated *)

\* The quota of the client does not cover the assertions, or admin is down.
QuotaStops ==
  /\ Handling("start", "assertions_generated")
  /\ \/ /\ Set(consumer.msg.order, [orders[consumer.msg.order] EXCEPT
                                      !.status = "QUOTA_EXCEDED", !.assertions = TRUE])
        /\ faults' = faults
     \/ Fault /\ orders' = orders
  /\ Return
  /\ UNCHANGED <<rows, publisher, generation, topic, position, committed,
                 repeats, chainVars>>

CreateDocument ==
  /\ Handling("start", "assertions_generated")
  /\ Set(consumer.msg.order, DocumentCreated(orders[consumer.msg.order]))
  /\ Continue("upload")
  /\ UNCHANGED <<outsideVars, handled, chainVars>>

SendUpload ==
  /\ consumer.at = "upload"
  /\ uploads' = Append(uploads, Document(consumer.msg.order, consumer.msg.count))
  /\ Continue("uploading")
  /\ UNCHANGED <<orders, outsideVars, handled, registrations, registrar, mempool,
                 posts, logs, cursor, asked, unresolved>>

\* Kafka refuses the request: the exception ends the handler.
UploadRequestFails ==
  /\ consumer.at = "upload"
  /\ Fault
  /\ Return
  /\ UNCHANGED <<orders, rows, publisher, generation, topic, position, committed,
                 repeats, chainVars>>

MarkIpfsPending ==
  /\ consumer.at = "uploading"
  /\ Set(consumer.msg.order, [orders[consumer.msg.order] EXCEPT !.status = "IPFS_PENDING"])
  /\ Return
  /\ UNCHANGED <<outsideVars, chainVars>>

(* ipfs_uploaded *)

StartUploaded ==
  /\ Handling("start", "ipfs_uploaded")
  /\ IF orders[consumer.msg.order].assertions
     THEN /\ Set(consumer.msg.order,
                 [orders[consumer.msg.order] EXCEPT !.status = "IPFS_UPLOADED"])
          /\ Continue("register")
          /\ handled' = handled
     ELSE Return /\ orders' = orders
  /\ UNCHANGED <<outsideVars, chainVars>>

SendRegister ==
  /\ consumer.at = "register"
  /\ registrations' = Append(registrations, Document(consumer.msg.order, consumer.msg.count))
  /\ Continue("registering")
  /\ UNCHANGED <<orders, outsideVars, handled, uploads, registrar, mempool,
                 posts, logs, cursor, asked, unresolved>>

RegisterRequestFails ==
  /\ consumer.at = "register"
  /\ Fault
  /\ Set(consumer.msg.order, [orders[consumer.msg.order] EXCEPT !.status = "BLOCKCHAIN_ERROR"])
  /\ Return
  /\ UNCHANGED <<rows, publisher, generation, topic, position, committed,
                 repeats, chainVars>>

MarkBlockchainRequested ==
  /\ consumer.at = "registering"
  /\ Set(consumer.msg.order,
         [orders[consumer.msg.order] EXCEPT !.status = "BLOCKCHAIN_REQUESTED"])
  /\ Return
  /\ UNCHANGED <<outsideVars, chainVars>>

(* blockchain_registered, blockchain_registration_failed *)

\* Writes what the registration of a post says, from one of the contract's posts.
WaitForPost(post, source, pending) ==
  Set(consumer.msg.order,
      [orders[consumer.msg.order] EXCEPT
         !.validators = posts[source].assigned, !.validators_pending = pending,
         !.status = "VALIDATION_PENDING", !.post_id = post])

\* Mutant: the validators are taken from the newest post.
BlockchainRegisteredNewest ==
  /\ Handling("start", "blockchain_registered")
  /\ WaitForPost(consumer.msg.post, Len(posts), Cardinality(posts[Len(posts)].assigned))
  /\ Return
  /\ UNCHANGED <<outsideVars, chainVars>>

\* Mutant: the count stays at the zero of the reset.
BlockchainRegisteredUncounted ==
  /\ Handling("start", "blockchain_registered")
  /\ WaitForPost(consumer.msg.post, consumer.msg.post, 0)
  /\ Return
  /\ UNCHANGED <<outsideVars, chainVars>>

\* Answers the document already holds are neither cleared nor subtracted.
BlockchainRegistered ==
  /\ Handling("start", "blockchain_registered")
  /\ WaitForPost(consumer.msg.post, consumer.msg.post,
                 Cardinality(posts[consumer.msg.post].assigned))
  /\ Return
  /\ UNCHANGED <<outsideVars, chainVars>>

BlockchainRegistrationFailed ==
  /\ Handling("start", "blockchain_registration_failed")
  /\ Set(consumer.msg.order, [orders[consumer.msg.order] EXCEPT !.status = "BLOCKCHAIN_ERROR"])
  /\ Return
  /\ UNCHANGED <<outsideVars, chainVars>>

(* request_validation, validation_completed: they name a post, not an order. *)

Resolves(o) == orders[o].post_id = consumer.msg.post

\* get_order_id_by_post_id finds nothing: the message is ignored for good.
IgnoreUnresolved ==
  /\ \/ Handling("start", "request_validation")
     \/ Handling("start", "validation_completed")
  /\ ~ \E o \in Order : Resolves(o)
  /\ unresolved' = IF consumer.msg.action = "validation_completed"
                   THEN unresolved \cup {<<consumer.msg.post, consumer.msg.pair>>}
                   ELSE unresolved
  /\ Return
  /\ UNCHANGED <<orders, outsideVars, uploads, registrations, registrar, mempool,
                 posts, logs, cursor, asked>>

RecordRequest ==
  /\ Handling("start", "request_validation")
  /\ \E o \in Order :
       /\ Resolves(o)
       /\ IF consumer.msg.pair \in Missing(orders[o])
          THEN Set(o, [orders[o] EXCEPT !.validation_requests = @ \cup {consumer.msg.pair}])
          ELSE orders' = orders
  /\ Return
  /\ UNCHANGED <<outsideVars, chainVars>>

StartValidation ==
  /\ Handling("start", "validation_completed")
  /\ \E o \in Order : Resolves(o) /\ (IgnoreDuplicate(o) \/ RecordAnswer(o))
  /\ UNCHANGED chainVars

FinishValidation ==
  /\ consumer.at \in {"row", "count", "close"}
  /\ \E o \in Order : Resolves(o) /\ (LogValidation(o) \/ CountPending(o) \/ CloseOrder(o))
  /\ UNCHANGED chainVars

-----------------------------------------------------------------------------
(* ipfs-fastapi: the document is pinned and reported; an error is logged     *)
(* only.  After a restart the request may be served a second time.           *)

Upload ==
  /\ uploads # << >>
  /\ LET doc == Head(uploads) IN
     \/ /\ topic' = Append(topic, Uploaded(doc.order, doc.count))
        /\ \/ uploads' = Tail(uploads) /\ repeats' = repeats
           \/ SendAgain /\ uploads' = uploads
        /\ faults' = faults
     \/ /\ Fault
        /\ uploads' = Tail(uploads)
        /\ UNCHANGED <<topic, repeats>>
  /\ UNCHANGED <<orders, consumer, handled, rows, publisher, generation, position,
                 committed, registrations, registrar, mempool, posts, logs, cursor,
                 asked, unresolved>>

-----------------------------------------------------------------------------
(* news-chain: one registration at a time *)

SubmitRegistration ==
  /\ registrar.at # "wait"
  /\ registrations # << >>
  /\ mempool' = Append(mempool, Head(registrations))
  /\ registrar' = [at |-> "wait", doc |-> Head(registrations),
                   tx |-> Len(posts) + Len(mempool) + 1]
  /\ registrations' = Tail(registrations)
  /\ UNCHANGED <<handlerVars, uploads, posts, logs, cursor, asked, unresolved>>

\* The document cannot be read, or the node refuses the transaction.
RegistrationFails ==
  /\ registrar.at # "wait"
  /\ registrations # << >>
  /\ Fault
  /\ topic' = Append(topic, RegistrationFailed(Head(registrations).order))
  /\ registrations' = Tail(registrations)
  /\ UNCHANGED <<orders, consumer, handled, rows, publisher, generation, position,
                 committed, repeats, uploads, registrar, mempool, posts, logs,
                 cursor, asked, unresolved>>

\* The receipt is there, or the wait for it raised while the transaction lives on.
ReportRegistration ==
  /\ registrar.at = "wait"
  /\ \/ /\ registrar.tx \in DOMAIN posts
        /\ topic' = Append(topic, Registered(registrar.doc.order, registrar.tx))
        /\ faults' = faults
     \/ /\ Fault
        /\ topic' = Append(topic, RegistrationFailed(registrar.doc.order))
  /\ registrar' = [registrar EXCEPT !.at = "reported"]
  /\ UNCHANGED <<orders, consumer, handled, rows, publisher, generation, position,
                 committed, repeats, uploads, registrations, mempool, posts, logs,
                 cursor, asked, unresolved>>

\* Whether the request comes back depends on what auto-commit stored.
RegistrarRestarts ==
  /\ registrar.at # "idle"
  /\ Fault
  /\ \/ registrations' = <<registrar.doc>> \o registrations
     \/ registrar.at = "wait" /\ registrations' = registrations
  /\ registrar' = NoRegistration
  /\ UNCHANGED <<orders, consumer, handled, rows, publisher, generation, topic,
                 position, committed, repeats, uploads, mempool, posts, logs,
                 cursor, asked, unresolved>>

-----------------------------------------------------------------------------
(* The contract, the agents of the validators, and the listener *)

\* The events of a post: assertion by assertion, and for each of them in the
\* order of the category's list of validators, which may be any.
RequestOrders(post, assigned) ==
  {requests \in SetToSeqs({Event("ValidationRequested", post, p) : p \in assigned}) :
     \A i, j \in DOMAIN requests : i < j => requests[i].pair[1] <= requests[j].pair[1]}

\* registerNew emits one request per validator registered for the category of
\* each assertion at that moment.
Mine ==
  /\ mempool # << >>
  /\ \E registered \in SUBSET Validator :
       LET post == Len(posts) + 1
           doc == Head(mempool)
           assigned == {p \in Eligible : p[1] <= doc.count /\ p[2] \in registered}
       IN  /\ posts' = Append(posts, [order |-> doc.order, assigned |-> assigned])
           /\ \E requests \in RequestOrders(post, assigned) : logs' = logs \o requests
           /\ asked' = asked \cup ({post} \X assigned)
  /\ mempool' = Tail(mempool)
  /\ UNCHANGED <<handlerVars, uploads, registrations, registrar, cursor, unresolved>>

\* The agent of a validator takes its requests one at a time, in the order of
\* the events.
Oldest(r) ==
  \A q \in asked : q[2][2] = r[2][2] =>
    q[1] > r[1] \/ (q[1] = r[1] /\ q[2][1] >= r[2][1])

\* registrar_validacion_internal has the transaction mined.  It swallows every
\* exception, so a failure here is reported to nobody.
SubmitValidation(r) ==
  \/ logs' = Append(logs, Event("ValidationSubmitted", r[1], r[2])) /\ faults' = faults
  \/ logs' = logs /\ Fault

\* The run itself failed: the agent tells news-handler, if Kafka lets it.
ReportError(r) ==
  \/ topic' = Append(topic, Completed(r[1], r[2], "ERROR")) /\ faults' = faults
  \/ topic' = topic /\ Fault

AgentActs(r) ==
  /\ r \in asked
  /\ Oldest(r)
  /\ asked' = asked \ {r}
  /\ \/ SubmitValidation(r) /\ topic' = topic
     \/ ReportError(r) /\ logs' = logs
  /\ UNCHANGED <<orders, consumer, handled, rows, publisher, generation, position,
                 committed, repeats, uploads, registrations, registrar, mempool,
                 posts, cursor, unresolved>>

Forward ==
  /\ cursor < Len(logs)
  /\ LET e == logs[cursor + 1] IN
       topic' = Append(topic, IF e.event = "ValidationRequested"
                              THEN RequestValidation(e.post, e.pair)
                              ELSE Completed(e.post, e.pair, "COMPLETED"))
  /\ cursor' = cursor + 1
  /\ UNCHANGED <<orders, consumer, handled, rows, publisher, generation, position,
                 committed, faults, repeats, uploads, registrations, registrar,
                 mempool, posts, logs, asked, unresolved>>

\* A block that cannot be read is skipped; a restart begins at the latest block.
ListenerMisses ==
  /\ Fault
  /\ \E c \in cursor + 1 .. Len(logs) : cursor' = c
  /\ UNCHANGED <<orders, consumer, handled, rows, publisher, generation, topic,
                 position, committed, repeats, uploads, registrations, registrar,
                 mempool, posts, logs, asked, unresolved>>

-----------------------------------------------------------------------------
Handler ==
  \/ QuotaStops \/ CreateDocument \/ SendUpload \/ MarkIpfsPending
  \/ StartUploaded \/ SendRegister \/ MarkBlockchainRequested
  \/ BlockchainRegistered \/ BlockchainRegistrationFailed
  \/ IgnoreUnresolved \/ RecordRequest \/ StartValidation \/ FinishValidation

NewsChain == SubmitRegistration \/ ReportRegistration

Next ==
  \/ HandlerNext("BLOCKCHAIN") /\ UNCHANGED chainVars
  \/ Handler
  \/ UploadRequestFails
  \/ RegisterRequestFails
  \/ Upload
  \/ NewsChain
  \/ RegistrationFails
  \/ RegistrarRestarts
  \/ Mine
  \/ \E r \in asked : AgentActs(r)
  \/ Forward
  \/ ListenerMisses

\* The three consumers, the listener and the agents keep running, the chain
\* mines, and the event loop finishes the coroutines of accepted publications.
Fairness ==
  /\ WF_vars(Fetch /\ UNCHANGED chainVars)
  /\ WF_vars(Handler)
  /\ \A o \in Order :
       WF_vars((\E n \in Assertion : SendGiven(o, n)) /\ UNCHANGED chainVars)
  /\ WF_vars(Upload)
  /\ WF_vars(NewsChain)
  /\ WF_vars(Mine)
  /\ WF_vars(\E r \in asked : AgentActs(r))
  /\ WF_vars(Forward)

Spec == Init /\ [][Next]_vars
FairSpec == Spec /\ Fairness

-----------------------------------------------------------------------------
(* Properties *)

Submitted == {<<e.post, e.pair>> : e \in {x \in Range(logs) : x.event = "ValidationSubmitted"}}

\* What a document says of the chain is true: its post was mined for this very
\* order, and it only waits for validators the contract asked for that post,
\* even when lost receipts and redelivered requests register a text twice.
PostBelongsToOrder ==
  \A o \in Order : orders[o].post_id # 0 =>
    /\ orders[o].post_id \in DOMAIN posts
    /\ posts[orders[o].post_id].order = o
    /\ orders[o].validators \subseteq posts[orders[o].post_id].assigned

\* "the contract is the source of truth": no order shows a completed validation
\* that its validator did not submit on chain for a post of that order.
CompletedAreOnChain ==
  \A o \in Order, p \in Pair : orders[o].validations[p] = "COMPLETED" =>
    \E s \in Submitted : s[2] = p /\ posts[s[1]].order = o

\* "news-handler consumes validation_completed [and] updates validations": what
\* was submitted on chain is in the order in the end.
SubmittedIsRecorded ==
  \A o \in Order, p \in Pair :
    (\E s \in Submitted : s[2] = p /\ posts[s[1]].order = o) ~> p \in Done(orders[o])

\* Without faults an order gets its result, with three exceptions: its quota
\* was exceeded, nobody was registered to validate it, or an answer overtook
\* the registration of its post and was ignored.
PublishedGetsResult ==
  \A o \in Order : publisher[o] = "given" ~>
    \/ orders[o].status \in Terminal \cup {"QUOTA_EXCEDED"}
    \/ orders[o].post_id # 0 /\ posts[orders[o].post_id].assigned = {}
    \/ \E u \in unresolved : posts[u[1]].order = o
=============================================================================
