# TrustNews in TLA+

TrustNews (the repository calls the product Assermetry in places) takes a news
text, extracts its assertions, has independent validators judge each of them,
and shows an order's progress and result.  An order is validated in one of two
modes.  LIGHT orders go straight from news-handler to the validators over
Kafka.  BLOCKCHAIN orders are pinned in IPFS, registered in a contract, and
answered on chain.  A validator judges with evidence that evidence-search
downloads from the sources source-router chooses; admin keeps the accounts of
the clients and the configuration of the services.  This directory models these
parts, checks them with TLC and proves a good share of the properties with
TLAPS.

## 1. The system

### Components, state, operations

| component | state | operations | correct when |
|---|---|---|---|
| `TrustNews.sol` | categories, validators, category lists, index of validators, posts, validations | addCategory, registerValidator, updateValidatorConfig, unregisterValidator, registerNew, addValidation, views | lists, index and views agree with the registrations; one validation per validator and assertion, never lost |
| news-handler, orders (`api/news-handler/main.py`) | MongoDB `orders`, `validations`, `events`; offset in the responses topic | publish_new, publish_with_assertions, one handler per message | an order closes when, and only when, nobody it waits for is missing; answers are neither lost nor replaced; orders do not mix |
| news-handler, validator cache | `validators_cache`, its lock, MongoDB `validator_registry` | refresh from the chain, apply a configuration event, restore | the last event of a validator wins over any snapshot; nothing valid is thrown away; a restart forgets nothing |
| generate-asertions | none | answers `generate_assertions`, `/extraer` | one answer per request, or an error |
| validate-asertions | requests in flight, semaphore, retry budgets, circuit breaker, AI client | LIGHT consumer, agent on chain events, registration and configuration endpoints | every request taken is answered, with ERROR if need be; slots come back; a crash loses only what was in hand; no documentary verdict without a citation |
| evidence-search | response cache, history of unusable URLs, document snapshots | `POST /search/evidence` and what it downloads | limits and source policy hold over all rounds; no citable source is lost; redirects stay safe; retries are accounted |
| source-router | routes and domain profiles in MongoDB | resolve | what is served was classified as eligible for the topic, recently enough |
| ipfs-fastapi | none (IPFS) | answers `upload_ipfs` | the CID of what was pinned is reported |
| news-chain | the transaction in hand, the last block listened to | registration consumer, event listener, read endpoints | every registration and every event is reported once it is on chain |
| admin | client quotas, LLM configuration, type weights, recommendations | endpoints, billing consumer | counters add up; the document of a configuration is honest about the service; advice fits the cost limit |
| scoring (`api/common/utils/scoring.py`) | weights, frozen in validations or dynamic | the result of an assertion | a verdict follows its votes and outlives changes of weights and reputations |
| gateway, stats, web client | none, or read-only | proxying, reports, pages | (not modelled) |

`PROJECT.json` lists every component with its status and reason.

### How they interact

Services talk over Kafka.  Each request topic has one consumer service;
everything that answers news-handler (assertions, uploads, registrations, chain
events, LIGHT verdicts, validator configurations) is published to one responses
topic, which one news-handler process consumes one message at a time; admin
bills from the same topic.  The services are deployed with one replica each.
Offsets are auto-committed: a timer stores the position of the loop, the message
in hand included, so that a restart may repeat messages that were handled and
may also skip the one that was not.  news-handler keeps orders in MongoDB with
single-document updates and no transaction.  The HTTP API and the consumer are
coroutines of one event loop, so they interleave at every `await`; a validator
runs its requests in worker threads.  A validator asks source-router and
evidence-search over HTTP.  Accounts are read and written over the HTTP
interface of admin by news-handler and generate-asertions.

### What is hard

- a handler consists of several writes, and a crash, an auto-commit or another
  coroutine can come between any two;
- messages are redelivered after a restart, here and in every worker;
- registration, listener and agents are independent, so the answer to a post
  can arrive before the message that says the post exists;
- a receipt that cannot be waited for says nothing about its transaction;
- a snapshot of the chain is fetched outside the lock under which it is merged;
- lists with repeated entries and an index that is stored plus one, in the
  contract;
- counters of an account are written back as absolute values, by two services;
- threads share a circuit breaker, and requests a history and a cache, that
  change while each of them waits;
- rounds of one search (refill, second search, second tier) merge and cut the
  results of each other;
- a configuration has three copies (document, service, client of the language
  model) and two processes that may die between any two writes.

The `hazards` of `PROJECT.json` name the line of each, and the properties that
would notice it.

## 2. Modules

| module | models | extends |
|---|---|---|
| `TrustNewsContract` | the contract; one action per transaction that is not reverted | |
| `OrderDocument` | the order document, and what is computed from it | |
| `NewsHandler` | publication, consumer, crash, and the recording of one validation, which both modes share | `OrderDocument` |
| `LightFlow` | the rest of the LIGHT handlers, the requests and the validators | `NewsHandler` |
| `ChainFlow` | the rest of the BLOCKCHAIN handlers, ipfs-fastapi, news-chain, the posts and events of the contract, the agents | `NewsHandler` |
| `OrderLifecycle` | what the client of an order is promised, without queues or restarts | |
| `ValidatorCache` | the cache, its lock, the registry, refreshes, events, and where they come from | |
| `ValidatorService` | a validator process: loop, semaphore, worker threads, retries, circuit breaker, commits, crashes | |
| `Grounding` | from delivered contexts and the reply of the model to the validation published | |
| `Retrieval` | concurrent requests to evidence-search and the cache, history and snapshots they share | |
| `DocumentFetch` | the download of one document: redirects, the www variant, retries | |
| `SourceRouter` | concurrent resolutions, routes, profiles, redeployments | |
| `Quotas` | the account of a client and its five writers | |
| `RuntimeConfig` | updates and restarts around the configuration of one service | |
| `Verdicts` | the result of an assertion while weights and reputations change | |
| `Recommendations` | the model options of the console and their reduction under a cost limit | |
| `MC*` | the constants of the runs; `MCOrders`, `MCEvidence` and `MCConsole` put several modules side by side | |
| `DataTheorems` | lemmas about data that several proofs cite: induction, recursive functions, sums, sequences | |
| `*_proofs` | the theorems: contract, LIGHT flow and its refinement, BLOCKCHAIN flow, cache, validator service, evidence (`DocumentFetch`, `Grounding`, `SourceRouter`, `Retrieval`), console (`Quotas`, `RuntimeConfig`, `Verdicts`, `Recommendations`) | |

`MCOrders`, `MCEvidence`, `MCConsole` and `MCContract` have a variable `focus`:
in a behaviour one part moves and the others stand still.  Their parts are
separate questions with the same bounds to declare, not a composition.
`LightFlow` and `ChainFlow` are the compositions: news-handler with everything
it talks to in that mode.

### Correspondence with the code

*Contract.*  A call that fails a `require` is reverted, so it is not a step and
every `require` is a guard.  Descriptions are abstracted to being empty or not
(addCategory does not check, so an empty one leaves the category missing), and
domains, reputation and hash headers, which nothing decides on, are left out.
`emitted` holds the events of the last transaction.

*Order document.*  An assertion is its number, a `Pair` an assertion and a
validator.  `validators` is what the document expects, `validations` who
answered and how, `validators_pending` the stored count, `post_id` 0 when the
field is missing.  Texts, scores, configurations and times are left out.

*Handlers.*  A handler is cut at its writes: each write to MongoDB or Kafka is
one step, together with the reads and decisions that lead to it, and
`consumer.at` says where it stands.  For a validation: `start` (duplicate or
not, write the answer), `row` (insert the row; the unique index may raise, which
ends the handler), `count` (write the count), `close` (write the status).  What
runs without an `await`, or is only logged, is not a step.  `start_light_flow`
and the dispatch are `start`, one `dispatch` step per request sent, and the
final write.  `publish_new` is insert, send, mark; `publish_with_assertions`
insert, send.  The per-order lock is not modelled because its only users run in
the one consumer.

*Kafka.*  `topic` is the responses topic as a log, `position` the loop's
position, `committed` where the consumer last started.  A crash of news-handler
restarts from any offset in between, because nothing in the code ties the
commit to the end of a handler.  `publisher` is the progress of a publication,
`lost` when its coroutine died.  Request topics are sequences, or counts where
order does not matter.  `handled` is a history variable: how far handlers have
run to their end.

*Workers.*  generate-asertions, the validators and ipfs-fastapi answer a
request, or answer it again (`repeats`) after a restart of their own.  A
validator's verdict is COMPLETED or ERROR.  ipfs-fastapi only logs an error, and
an agent swallows it: these are the steps under `Fault` that answer nothing.

*Chain.*  Transactions of news-chain are mined in nonce order.  Which eligible
validators are registered when `registerNew` is mined is a choice, so the agents
may come and go between posts; that the contract then asks exactly those is what
`RequestsReachTheCategory` checks.  The events of a post follow its assertions
in order, and within an assertion the order of the category's list, which any
sequence of registrations and removals may have produced (`RequestOrders`).  The
agent of a validator takes its requests one at a time in the order of their
events; its submission (IPFS, transaction, receipt) is one step, or none when an
exception was swallowed.  The listener forwards events in order, or misses them.
The quota check before an upload is a choice of its outcome.

*Cache.*  An entry is reduced to the version of its configuration, its
categories and its origin.  A snapshot is read in one step.  Startup restores
the registry and refreshes before the consumer and the HTTP API run.  The
validator's own process waits for its receipt before it announces; deregistering
is an update followed by the removal, which can fail in between.

*Validator service.*  `topic` is what each message is to this process, `held`
the message the loop has taken while it waits for a slot.  A task is `started`
on the event loop, then in its thread `routing`, `asking`, `calling`, `pausing`
or `prompting`, then `sending`.  Times are relative: `Tick` shortens budgets,
pauses and the cool-down.  An answer is the kind of its outcome; of the errors,
those of the open breaker and of a request given up are told apart.  A crash empties everything but
the committed offset.

*Grounding.*  A context is an identifier, a source and whether it may be cited;
two contexts may have one identifier.  The reply is any verdict with any small
set of citations.  `Verified` is the check of one citation, `GroundingStatus` what
the whole amounts to, and `Publish` the three types of validator.

*Retrieval.*  A request is cut at its awaits (cache, each query, the read of the
history, each download, the write of the outcomes), and whatever runs between two
awaits is one step.  `Diversify`, `Merge` and `Joined` are the operations on lists
of candidates, translated in full because the properties are about them.  They
are written by positions (`InOrder`: what a list holds at some positions, sorted
by an order on them), not as folds, so that they can be reasoned about.  A
`Deployment` is a combination of the settings that decide the control flow.

*Download.*  Servers are the environment: any redirect, status or failure.
Outcomes are those of `classify_fetch_outcome`; those treated alike have one
name.  The jitter of a pause is left out, the elapsed time is not: a pause may
last longer than it was meant to.  The retry budget of the deployment is one of
`Budgets`, 0 among them.  `retries` is a history variable: the results that were
retried.

*Source router.*  A topic stands for the signature of a route.  What a search
finds, and which of it is classified, rejected or left unclassified, is open.
`founded` and `accepted` are history variables.

*Quotas.*  An order has one assertion and one validator.  Each endpoint and each
handler is cut at its HTTP calls to admin, and the handler of
`assertions_generated` also at the write of the document, which empties the
recorded validations, and at the upload.  A restart of generate-asertions answers
again what its timer had not committed; a crash of news-handler or admin delivers
messages again; uploads and registrations handled again make another post, and a
message names its post.  admin's own consumer increments in MongoDB in one step.
It never bills a validation: it looks the order up by `order_id`, which that
message leaves empty, or by the field `postId`, where news-handler stored
`post_id`.  `ledger` is what all writes meant to add up to, `tally` counts per
order the charges of its validation, the documents written, the crashes between
a charge and its record, and the generations admin billed; `overlapped` names the
counters that were written while somebody stood between a read and a write of
them.

*Runtime configuration.*  Provider and model are one value.  An update is cut at
its reads and writes; a PUT that outlived admin is `orphaned` and may still
arrive.  `client` is what requests are made with, apart from what the service
reports.

*Verdicts and recommendations.*  The arithmetic is translated as it is, over
integers: weights in units of the least, prices in units of the least.  A
recorded vote is weighed with the weights news-handler had loaded by then; an
old record is weighed when it is read.  `Cheapen` is one round of the reduction,
`CloseTier` the end of one tier.

Helpers of two modules that stand side by side in an MC module carry a trailing
underscore in one of them, because a name may be defined once only.

## 3. Runs

`tlc -workers 2 -config <run>.cfg <module>`; the modules are in `PROJECT.json`.

| run | bounds | distinct states | shows |
|---|---|---|---|
| Contract | 2 accounts; either 2 categories, lists of up to 2 ids and 1 post of up to 2 assertions, or 1 category and 2 posts of 2 documents | 0.6 million | `TypeOK`, `OneValidationEach`, `CidIsNewestPost`, `RegistryIsConsistent`, `IndexIsExact`, `ValidationsAreDurable`, `RequestsReachTheCategory` |
| LightRefines | 1 order published with its assertions, 2 validators (v2 not eligible for a second assertion), 1 fault and 1 repeat; up to 2 assertions as long as nothing went wrong, 1 afterwards (`Explored`) | 0.1 million | `ImplementsLifecycle`, `FirstAnswerWins`, `ClosedMeansExpectedDone`, `PendingNeverUnderstates`, `ClosedMeansAllAnswered`, `ExactAtRest` |
| CalmOrders | no faults, fair: a LIGHT order by either endpoint or a BLOCKCHAIN order, of up to 2 assertions and 2 validators (v2 not eligible for the second), or 2 BLOCKCHAIN orders with 1 validator | 0.3 million | `LightGetsResult`, `LightExpectedAreRecorded`, `ChainGetsResult`, `PostBelongsToOrder` |
| ChainFaults | 1 order, 1 validator, 1 fault of any service (up to two posts of the order) | 2.0 million | `ClosedMeansExpectedDone`, `PendingNeverUnderstates`, `CompletedAreOnChain` |
| CacheRaces | 2 validators, 2 configurations in all, 2 refreshes, 2 faults | 2.4 million | `EventIsAuthoritative`, `RegistryKeepsEvents`, `RefreshPreserves` |
| CacheCatchesUp | the same without faults, fair | 0.1 million | `ConfigCatchesUp` |
| ServiceFaults | 3 messages (all for this validator, or one of three), 2 slots, 2 attempts, budget 2, breaker after 2 failures, 1 crash, 1 answer refused by the broker, fair | 0.7 million | `SlotsBalance`, `NoSilentDrop`, `FailuresAreRequests`, `LossIsBounded`, `EveryRequestEnds` |
| Evidence | `Retrieval`: 2 requests of one key, 3 documents in 2 domains, 2 results, 2 citable wanted, 6 deployments; `DocumentFetch`: 5 URLs (a www variant, plain http, a private host), 1 redirect, 2 attempts, 4 units of time, a budget of 0 or 3; `Grounding`: 1 identifier, 3 sources, up to 2 contexts and 2 citations; `SourceRouter`: 2 requests of a topic, 2 sites, 2 settings, a clock to 2, 1 redeployment | 3.0 million | `PolicyIsKept`, `NoCandidateLeft`, `CitableIsKept`, `ChainIsSafe`, `FetchIsAccounted`, `DocumentaryIsGrounded`, `RoutesAreFounded` |
| Console | `Quotas`: 2 calls (a publication: BLOCKCHAIN by text, or either mode with its own assertions; and an extraction), 2 disturbances (crash of news-handler, generate-asertions or admin, repeated message, operation of the console); `RuntimeConfig`: 2 updates, 3 models, 2 temperatures, 2 restarts; `Verdicts`: 3 voters, one with an old record; `Recommendations`: 3 targets, 4 models, 4 limits | 2.7 million | `QuotasAreAccounted`, `DocumentIsHonest`, `VerdictFollowsVotes`, `NewsCostIsCapped` |

These nine must pass; LightRedelivery, ChainOvertaken and AppliedInUse
(section 5) must be violated.

Why these bounds.  Two validators are the least with which one can be missing
while another answers; two assertions the least with which the count is a sum;
two orders the least that can be confused.  A fault or a repeat may come at any
step, and one of them already leads to every disagreement of section 5.  In the
contract a list in which an id occurs twice, and a removal that moves an entry
of another account into the gap, need lists of two ids and two accounts.  Two
configurations, of one validator or of two, and two refreshes give a stale
snapshot against a newer event, and a second refresh against the persistence of
the first.  Three messages over two slots make one wait for the others, and two
failures of a threshold of two let the breaker open while a third request
pauses.  Three documents, two of one domain, with two results give every round
something to cut; two requests of one key share every structure.  One redirect
is enough to come to a variant, a downgrade or a circle; two attempts and a
budget of three to have a retry that the budget allows and one it ends, and a
budget of 0 to have the attempt it ends although nothing limits the pause.  Two
calls and two disturbances cover each read and write of an account against each
other one, a second document of an order that has its validation, and a charge
cut from its record.  The two sites of `SourceRouter` are symmetric.  Three voters are the
least with which one can tip a majority, and three targets and tiers the least
with which a replacement of one tier loses its own option later.  The theorems of
section 4 hold for any values.

`CHECK_DEADLOCK FALSE` is set where the system really comes to rest: every order
is answered, every configuration delivered, every request served.

A closed order can be reset by a redelivered `assertions_generated`; this is why
`FirstAnswerWins` allows a step that drops all answers together with the status
`DOCUMENT_CREATED`, and why `OrderLifecycle` has `Restart`.
`ClosedMeansAllAnswered` and `ExactAtRest` are promised as long as nothing went
wrong (`Calm`): a crash in the middle of a dispatch is the counterexample of the
first (section 5), a crash between an answer and its count that of the second.

### Fairness

Weak fairness of the consumer's steps (its task runs for the life of the
process), of each accepted publication's coroutine (the event loop finishes it),
and of the first answer of each worker (LIGHT validators answer every request,
with ERROR if the run failed; the others loop over their topics).  In the cache
the consumer has strong fairness, because `asyncio.Lock` serves waiters in
order: a stream of refreshes may take the lock in turn with it but cannot keep
it out.  In the validator service weak fairness of the loop, of every task and
of time: each thread runs, and every call it makes has a timeout; which way a
call ends is not assumed.  Nothing is assumed of users, of the commit timer, of
repeated answers or of faults.  Liveness of orders is checked without faults,
since a lost message or a swallowed error does leave an order waiting in this
code; `EveryRequestEnds` is checked with them, as it says what becomes of the
request in the process that serves it.

`PublishedGetsResult` of `ChainFlow` (`ChainGetsResult`) names three ways in
which an order without faults gets no terminal status: the quota, a registration
with no validators, and an answer that overtook the registration (section 5 has
the last two).

## 4. Proofs

TLAPS checks every theorem for arbitrary constants under the named ASSUMEs of
the modules: finite `Validator`, `MaxAssertions` positive, `Eligible` a set of
pairs, limits and bounds natural numbers, `Owner` an address, and the like.

*Contract* (`TrustNewsContract_proofs`).  `IInv == RegistryInv /\ PostsInv` is
inductive.  `OneValidationEach` alone is not, because nothing in it says that
the stored index is a number or that an entry's validator is an address;
`PostsInv` therefore carries the types of every post, both halves of the
index + 1 correspondence for each assertion, and the relation of `postsCid` to
the posts.  The lemmas `PushMatches` and `RewriteMatches` show the two branches
of addValidation to keep the correspondence, and the steps cite them.  From
`IInv` follow `OneValidationEach`, `CidIsNewestPost`, `IndexIsExact`, and, with a
lemma that a rewrite leaves every other validation as it is, the action property
`ValidationsAreDurable`.

`RegistryIsConsistent` rests on `ListsInv`: an address occurs in the list of a
category as often as the category occurs in its own list, and who is not
registered has no list of its own.  Occurrences are cardinalities of sets of
places.  The pushes of a registration add one each
(`OccurrencesOfRepeated`); a swap-and-pop (`OccurrencesOfSwapRemove`) takes one of the sender's away, wherever the first
occurrence is, and none of anybody else.  The loop of unregisterValidator is then
an induction along the sender's list: in front of the k-th id the sender is still
listed as often as the id is still to come, so the search for it never fails.  The
view is an induction along the index, which repeats nobody.
`RequestsReachTheCategory` is about the events of the last transaction, a
flattened list of lists; `FlattenRange` says what it holds, and `ListsInv` that a
list names exactly the registered.

*LIGHT orders* (`LightFlow_proofs`).  `ClosedMeansExpectedDone` is not inductive
on its own: the step that closes an order decided so one write earlier.
`IInv == TypeOfTheRest /\ SoundOrders /\ CloseIsDue` adds that whenever the
handler stands at `close` nothing is missing in the document of its order.
`SoundOrders` says that each document has its type, that the stored count is at
least the number of missing answers, and that a document with a terminal status
misses none.  That a late write of the publisher cannot break
this, that a crash cannot, and that a row which exists already cannot, are steps
of `NextIInv`, one lemma per kind of step.

`ClosedMeansAllAnswered` and `ExactAtRest` say more than the document, for as long
as nothing went wrong.  `CalmInv` is their invariant: the generator answers an
order once (`OneOpening`), so a dispatch never starts over; the handler works on
the last message handed out; whoever was asked or has answered is in the plan
while requests are sent and in the document afterwards (`InvolvedAreExpected`);
the log of validations is not ahead of the document; and the count and the status
are off by no more than the writes the handler has still to make (`Exact`).  A
fault or a repeat is never forgotten, so `Calm => CalmInv` is inductive beside
`IInv` and `Fresh`.  Both theorems hold for both endpoints, with the late write
of `MarkRequested` included.

*Refinement* (`LightFlow_proofs`).  `FirstAnswerWins` and
`ImplementsLifecycle` need `Fresh`, that an order not yet published has its
initial document and no message or request that concerns it, so that inserting
an order overwrites nothing.  Every step writes at most one order in one of the
ways listed in `NextWrites`, and each of these is a step of `OrderLifecycle` or
leaves its variables unchanged.  The refinement is stated for orders published
with their assertions (`Paths = {"assertions"}`): with the text endpoint the
late write of `MarkRequested` takes a result back, and the lifecycle is not
implemented (section 5).

*BLOCKCHAIN orders* (`ChainFlow_proofs`).  What a document says of the chain
comes from a message, the message from a worker, and the worker from a receipt
or an event, so that no property is inductive without the truth of everything in
between.  `IInv` is the conjunction of `TypeInv`; `OrdersInv`, what documents may
say (they are sound as above, their post was mined for them, their completed
answers were submitted); `MessagesInv`, that every message in the topic tells the
truth of the posts and submissions there are; `PostsInv`, that the transaction
news-chain waits for is in the mempool or mined for the order in its hand, and
that events and requests name posts that exist; and `HandlerInv`, what the handler
in execution has read or decided.  Posts and submissions only grow, which lets
the truth of a message survive every other step.  From `IInv` follow
`PostBelongsToOrder`, `CompletedAreOnChain`, `ClosedMeansExpectedDone` and
`PendingNeverUnderstates`, with two posts of an order, lost receipts, missed
events and restarts included.  `FirstAnswerWins` is proved for these orders too
(the run checks it for LIGHT ones only): inserting an order overwrites no answer
because of `PublishedInv`, that no message, request or registration in hand is
about an order not yet published and that such an order has its initial document,
and every other write is to an order that was published, which keeps its answers,
adds the missing one, or is the reset.

*Cache* (`ValidatorCache_proofs`).  An event is written to the registry before
the cache, a snapshot to the cache before the registry.  `IInv` says how far the
two may be apart: the registry has the last event of every validator always, the
cache has it unless the consumer stands between the two writes (`Installing`),
and whoever writes holds the lock.  `AuthorityTheorem` and `RegistryTheorem`
follow for a free lock; `PreservesTheorem` is the action property.

*Validator service* (`ValidatorService_proofs`).  `SlotsBalance` counts tasks, so
its proof is about cardinalities: a task starts, goes on or ends, one lemma each.
`LoopInv` says which messages nobody has touched, `TaskInv` what a task in each
stage has left behind; with them `NoSilentDrop`, `FailuresAreRequests` (each
failure of the breaker is one more message given up) and the action property
`LossIsBounded`.

*Download* (`Evidence_proofs`).  `ChainInv` adds to `ChainIsSafe` that the
URL to be requested next is no downgrade of anything in the chain, which the
check at the redirect has established and the request relies on.  For
`FetchIsAccounted` the invariant bounds the requests so far by the attempt, the
variant and the position in the chain, and says that every result retried so far
was transient and that a budget of 0 has not let a second attempt begin.

*Grounding* (`Evidence_proofs`).  A citation that passes the three tests of
`Verified` names exactly one context (`VerifiedNamesOne`); the rest is a split
over the types of validator and the status of the reply.

*Source router* (`Evidence_proofs`).  `RoutesAreFounded` speaks of the answer, and
a request reads the routes, then awaits the classifier, then writes.  `RouterInv`
says that what it carries over each await is still true at the end of it: the
sources it found eligible, reused or took over from the previous route were
founded with the provider in use, and no profile is dated after the last
classification that accepted it.  It needs that a missing profile is not a
profile (`RouterAssumption`).

*Searches* (`Evidence_proofs`).  `RetrievalInv` speaks of each search by itself
(`SearchInv`), of the types, and of the cache (`CacheInv`: what is cached is the
answer of a request that was answered and has not changed since).  Of the history
of unusable URLs, which every request changes under the others, it says nothing:
no property may depend on it.  `SearchInv` has six parts.  `Phased`: what a phase
has not reached is empty, and what was tried is what the answer holds followed by
what is being built.  `Fitting`: before the tier, what was tried and what is still
to be tried fit into the results.  `Untried`: batch, pool and the documents tried
have nothing in common and repeat nothing.  `OfficialOnly` and `Budgeted` are the
policy and the budgets of all lists.  `Covered`: what the first search returned
is tried, in the batch or in the pool, until the results are full.  Each action
has a lemma that it leaves one job satisfying these and the others alone.  They
rest on what the list operators do: `InOrder` is a list without repetitions of
exactly the chosen positions (`Enumerates`, from a pigeonhole argument about
ranks), so that `Distinct` loses no document and repeats none, `Diversify` empties
no list that has candidates, whatever the history, and `Joined` puts the citable
evidences first.  `PolicyTheorem`, `NoCandidateTheorem` and `CitableTheorem`
follow.

*Verdicts* (`Console_proofs`).  The weight behind an answer is a sum over its
voters.  A recorded vote adds its own weight to one sum and changes no other,
because the weights of the others are frozen (`VoteAddsItsWeight`); what remains
is the arithmetic of coverage and margin (`VoteMovesTheVerdict`).  The theorem is
the action property itself, for any voters, types, weights and reputations.

*Recommendations* (`Console_proofs`).  `AdviceInv` says that every option shown has
a price, that each tier already closed satisfies the property, and what is open
about the tier under way.  The subtle step is the end of a tier: where no option is
dearer than what is deployed the tier costs no more than the deployment, so a tier
is given up only when the deployment does not fit either (`NothingToGiveWay`, a
comparison of two sums).  Later tiers leave the totals of earlier ones true because
the work on a tier reads the options of the tiers still to come and changes only
its own.

*Data* (`DataTheorems`).  The provers cannot instantiate a theorem with an operator
parameter, so induction is stated about sets: a subset of Nat (of the subsets of a
finite set, of an interval) that has the first and with each the next is everything.
From this follow the values of the recursive functions the models use, of sums of
the community modules (a sum is the sum without one element plus that element; it is
monotone), and the facts about ranks and sequences above.

*Accounts* (`Console_proofs`).  A charge is a read of the account, an await and a
write of an absolute value.  `CountersInv` says what one who stands between the
two knows: the counter is what was read, unless another has written since, and
then the service is in `overlapped`.  The bounds of `QuotasAreAccounted` follow
from four invariants.  `ChargesInv`: a document is good for one charge, so that
the charges of an order are at most its documents and its cut charges, and one
less while the last document has no record.  `AnswersInv`: an order is in the log
as generated no more often than once and once per restart of generate-asertions.
`DeliveriesInv`: each consumer has passed each of these no more often than once
and once per restart of its own, with cardinalities over the log up to its
position; the documents and bills are bounded by what was passed.  `StartedInv`
says what an order has before its first answer.  They assume that a missing client is no account and that no call is named like a
consumer (`QuotasAssumption`).

*Configuration* (`Console_proofs`).  `DocumentIsHonest` holds while updates come
one after another; once two race nothing is claimed.  `CalmInv` says why until
then: at most one update is unsettled, it carries what the document desires, and a
document that says synced means the service runs what is desired and nothing is on
its way to change that.

*Left to TLC.*  Liveness: `LightGetsResult`, `LightExpectedAreRecorded`,
`ChainGetsResult`, `ConfigCatchesUp` and `EveryRequestEnds` assume fairness, and
the provers have no rule for ENABLED.  Every other property of the passing runs is a
theorem, the refinement included.  TLC also checks that the runs of section 5 fail, which is not
a matter of proof.

## 5. Where the code and its documents disagree

Three are runs that TLC must find violated; `findings` in `PROJECT.json` quotes
the line of the document.

| run | what happens |
|---|---|
| LightRedelivery | news-handler restarts before an offset was stored and handles `assertions_generated` again: recorded validations are erased, against "all consumers must be idempotent" |
| ChainOvertaken | without any fault, the answer of a validator is consumed before `blockchain_registered` and dropped for good |
| AppliedInUse | an update that changes only the temperature of a validator is APPLIED and reported, while its AI client, rebuilt only for another provider or model, keeps the old one |

Others were met on the way.  The models contain the behaviour, the properties
above are stated so that they allow it, and it is listed here for whoever
changes the code:

- generation and dispatch can finish before the last write of `publish_new`
  (line 1982), which then takes the status back to ASSERTIONS_REQUESTED.  This is
  why `ImplementsLifecycle` is about orders published with their assertions, and
  why `ExpectedAreRecorded` is stated whatever the status says;
- a dispatch that stops after some requests (crash with a stored offset, refused
  send) leaves a document that expects nobody, and the first answer closes the
  order (`ClosedMeansAllAnswered` is therefore checked without faults, and
  `ClosedMeansExpectedDone`, about what the document expects, with them);
- `blockchain_registered` handled again reopens a closed order with the full
  count, and no further answer closes it;
- a post without validators waits in VALIDATION_PENDING for ever, where LIGHT
  would say NO_VALIDATORS_AVAILABLE (the second exception of `ChainFlow`'s
  `PublishedGetsResult`);
- an event's categories are never corrected by a snapshot, because
  `get_validators_with_config` sends no timestamp and an entry with one wins;
- a counter of an account that two services write at a time loses one of the
  charges, and a publication with its own assertions leaves the counter one below
  where it stood: it is charged once and given back two (`QuotasAreAccounted`
  says when a counter is exact and never that it is always);
- the handler of `assertions_generated` empties the validations of a chain order
  (`main.py:981`), so that after a redelivery, or a second answer of
  generate-asertions without any crash of news-handler, the validation is charged
  again; the charge of the generation is made again too (`QuotasAreAccounted`
  bounds both by the documents written);
- admin discards every `validation_completed`: the message has no order id, and
  admin asks for `postId` where the order has `post_id`;
- `FETCH_RETRY_BUDGET_SECONDS = 0` means "no budget" where a retry is decided and
  "no retry" at the head of the loop (the last conjunct of `FetchIsAccounted`:
  no second attempt begins);
- a validator that dies has lost the LIGHT requests whose offsets the timer had
  committed, and nobody asks again (`LossIsBounded` bounds them);
- unknown votes count against coverage, so one more TRUE vote may end an
  abstention in favour of FALSE, when FALSE had more weight all along; what holds
  is `VerdictFollowsVotes`.

## 6. Not modelled

The gateway, statistics, the web client, the HTTP interface of ipfs-fastapi,
consistency checks and URL import keep no state that could interleave.  Prompts,
the repair and parsing of replies of language models, the extraction of text from
a document, the ranking of chunks and the wording of search queries are left
open as outcomes.  So is everything inside an assertion or a configuration.  The
LIGHT-only deployment without a chain, several replicas of a service,
reorganisations of the chain, nonces taken by two senders at once, and partial
batches of Kafka are left out too, and so is the rebuild of a validator's client
that fails after the new provider was reported.  Topic
`TOPIC_LIGHT_VALIDATION_RESPONSES` is the responses topic in the deployment, so
there is one log.

Some parts are narrower than the code.  In `ValidatorCache` a validator runs one
configuration call at a time, although its endpoints may overlap.  `Verdicts` has
one assertion; the verdicts of several do not look at each other.  In
`DocumentFetch` an address that was checked is still the host's when the request
is made.  `Retrieval` counts as tried the documents that were only listed because
the contexts were full.  In `Recommendations` a model has one price for all
targets.  `Quotas` leaves out the answers of generate-asertions that failed, which
charge nobody.

## 7. Plan

What comes next, in order:

1. A refinement of `OrderLifecycle` by BLOCKCHAIN orders between two
   registrations.
2. A type invariant of the BLOCKCHAIN flow's workers as a theorem of its own, and
   `ExpectedAreRecorded` of the calm LIGHT flow as a safety property of the log.
3. The LIGHT-only deployment, and the failed rebuild of a validator's client.
4. Liveness of orders under faults that are followed by a redelivery.
