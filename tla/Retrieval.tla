------------------------------ MODULE Retrieval ------------------------------
(***************************************************************************)
(* POST /search/evidence of evidence-search: the queries of the plan are   *)
(* sent to the search provider, a batch of the candidates is downloaded    *)
(* and ranked, and while too few sources can be cited further candidates,  *)
(* another search or the second tier of the provider are tried.            *)
(*                                                                         *)
(* Requests run concurrently on one event loop and share the response      *)
(* cache, the history of unusable URLs (in memory and in Mongo) and the    *)
(* document snapshots.  How one URL is downloaded is DocumentFetch; here a *)
(* download either succeeds, leaves the URL in the history, or neither.    *)
(***************************************************************************)
EXTENDS Naturals, FiniteSets, SequencesExt

CONSTANTS
  Request, Key, KeyOf,   \* requests, and the cache key of each
  Doc, DomainOf,         \* the URLs the provider knows, and their domains
  Official,              \* those of an official source type
  Answers,               \* what the provider may return to each request
  Deployments,           \* those that are considered, see Deployment
  MaxResults,            \* search_policy.max_results
  CandidateBudget,       \* max_results * EVIDENCE_CANDIDATE_MULTIPLIER
  Target,                \* target_citable_sources
  InitialBatch,          \* EVIDENCE_INITIAL_BATCH_SIZE
  PerDomain,             \* EVIDENCE_MAX_RESULTS_PER_DOMAIN
  PerSource,             \* EVIDENCE_MAX_CONTEXTS_PER_SOURCE
  MaxContexts,           \* EVIDENCE_MAX_CONTEXTS_TOTAL
  MaxExtracts            \* EVIDENCE_MAX_PROVIDER_EXTRACT_CALLS

\* queries and relaxed: how many base queries and relaxed variants a request has.
Deployment ==
  [fullText : BOOLEAN, tier : BOOLEAN, reuse : BOOLEAN, extract : BOOLEAN,
   mode : {"DIRECT", "PROVIDER", "SMART"},
   strategy : {"LOCAL", "EXT_ONLY_OFFICIAL", "EXT_OFFICIAL_FIRST"},
   queries : Nat \ {0}, relaxed : Nat]

ASSUME RetrievalAssumption ==
  /\ KeyOf \in [Request -> Key]
  /\ Official \subseteq Doc
  /\ \A r \in Request : Answers[r] \subseteq Seq(Doc)
  /\ Deployments \subseteq Deployment
  /\ {MaxResults, CandidateBudget, Target, InitialBatch, PerDomain, PerSource}
       \subseteq Nat \ {0}
  /\ Target <= MaxResults /\ MaxResults <= CandidateBudget
  /\ {MaxContexts, MaxExtracts} \subseteq Nat

VARIABLES
  deployment,  \* the settings of the service and of the policy
  job,         \* what each request has gathered, see NewJob
  history,     \* _recent_unusable_urls
  stored,      \* unusable_url_collection: the active failures
  snapshots,   \* document_collection: the documents that may be reused
  cache        \* cache_collection

shared == <<history, stored, snapshots, cache>>
vars == <<deployment, job, shared>>

NoEntry == <<>>  \* otherwise the one answer that is cached
\* The phase is new, searching, hydrating, fetching, storing, choosing and then
\* answered, hit or failed; the round initial, refill, fallback or tier.  An
\* evidence is [doc, contexts, direct], direct the outcome of its download: ok,
\* unusable (to be remembered), failed, or none.  paid counts extractions.
NewJob == [phase |-> "new", round |-> "initial", next |-> 1, won |-> FALSE,
           raw |-> <<>>, known |-> {}, pool |-> <<>>, batch |-> <<>>,
           built |-> <<>>, evidences |-> <<>>, tried |-> <<>>, extracts |-> 0, paid |-> 0]

-----------------------------------------------------------------------------
(* Sequences of candidates. *)

\* What s holds at the positions I, sorted: the k-th is preceded by k - 1 others.
InOrder(s, I, Before(_, _)) ==
  [k \in 1..Cardinality(I) |->
     s[CHOOSE i \in I : Cardinality({j \in I : Before(j, i)}) = k - 1]]

Those(s, I) == InOrder(s, I, <)

Docs(evidences) == {evidences[i].doc : i \in DOMAIN evidences}
Cut(s, n) == SubSeq(s, 1, IF Len(s) < n THEN Len(s) ELSE n)
Without(s, S) == Those(s, {i \in DOMAIN s : s[i] \notin S})
Within(s, S) == Those(s, {i \in DOMAIN s : s[i] \in S})
Distinct(s) == Those(s, {i \in DOMAIN s : \A j \in 1..i - 1 : s[j] # s[i]})

\* merge_search_results
Merge(s, t) == Cut(Distinct(s \o t), CandidateBudget)

\* Mutant: URLs with a recent failure are left out.
DiversifyFresh(s, unusable, n) == Cut(Without(Distinct(s), unusable), n)
\* diversify_search_results: URLs with a recent failure last, at most
\* PerDomain of a domain, the domains in turn.
Diversify(s, unusable, n) ==
  LET ranked == Without(Distinct(s), unusable) \o Within(Distinct(s), unusable)
      Peers(i) == {j \in DOMAIN ranked : DomainOf[ranked[j]] = DomainOf[ranked[i]]}
      Turn(i) == Cardinality({j \in Peers(i) : j < i})
      First(i) == Min(Peers(i))
      Before(i, j) == Turn(i) < Turn(j) \/ (Turn(i) = Turn(j) /\ First(i) < First(j))
  IN Cut(InOrder(ranked, {i \in DOMAIN ranked : Turn(i) < PerDomain}, Before), n)

\* EXT_ONLY_OFFICIAL is applied to whatever the provider returns.
OnlyOfficial == deployment.strategy = "EXT_ONLY_OFFICIAL"
Allowed(s) == IF OnlyOfficial THEN Within(s, Official) ELSE s

Citable(evidences) == Those(evidences, {i \in DOMAIN evidences : evidences[i].contexts > 0})
Uncitable(evidences) == Those(evidences, {i \in DOMAIN evidences : evidences[i].contexts = 0})
Short(r) == Len(Citable(job[r].evidences)) < Target
HasRoom(r) == Len(job[r].evidences) < MaxResults

\* _search_request_plan: the relaxation_level of each query, in order.  Official
\* sources first means that every query is asked again without that preference.
Plan ==
  LET twice == IF deployment.strategy = "EXT_OFFICIAL_FIRST" THEN 2 ELSE 1
  IN [i \in 1..twice * deployment.queries |-> 0]
       \o [i \in 1..twice * deployment.relaxed |-> (i + twice - 1) \div twice]
\* The other search repeats the queries of the highest relaxation level.
SeedsOfFallback == Cardinality({i \in DOMAIN Plan : \A j \in DOMAIN Plan : Plan[j] <= Plan[i]})

At(r, phase) == job[r].phase = phase

-----------------------------------------------------------------------------
(* The cache and the first search. *)

CacheHit(r) ==
  /\ At(r, "new")
  /\ cache[KeyOf[r]] # NoEntry
  /\ job' = [job EXCEPT ![r].phase = "hit", ![r].evidences = cache[KeyOf[r]][1].evidences]
  /\ UNCHANGED <<deployment, shared>>

\* Nothing is cached, or an evaluation asks for a cold search.
Begin(r) ==
  /\ At(r, "new")
  /\ job' = [job EXCEPT ![r].phase = "searching"]
  /\ UNCHANGED <<deployment, shared>>

\* A relaxed query is only for first searches that have found nothing.
Superfluous(r) ==
  /\ job[r].round = "initial"
  /\ Plan[job[r].next] > 0
  /\ job[r].raw # <<>>

SearchIsOver(r) ==
  /\ At(r, "searching")
  /\ CASE job[r].round = "initial" ->
            job[r].next > Len(Plan) \/ Len(job[r].raw) >= CandidateBudget
       [] job[r].round = "fallback" ->
            job[r].next > SeedsOfFallback \/ Len(job[r].pool) >= CandidateBudget
       [] job[r].round = "tier" ->
            job[r].next > Len(Plan) \/ job[r].pool # <<>>

SkipRelaxed(r) ==
  /\ At(r, "searching") /\ ~ SearchIsOver(r)
  /\ Superfluous(r)
  /\ job' = [job EXCEPT ![r].next = @ + 1]
  /\ UNCHANGED <<deployment, shared>>

CanSearch(r) == At(r, "searching") /\ ~ SearchIsOver(r) /\ ~ Superfluous(r)

Search(r) ==
  /\ CanSearch(r) /\ job[r].round = "initial"
  /\ \E s \in Answers[r] :
       job' = [job EXCEPT ![r].raw = Merge(@, Allowed(s)), ![r].next = @ + 1, ![r].won = TRUE]
  /\ UNCHANGED <<deployment, shared>>

\* Mutant: the other search keeps what the response has already.
SearchAgainUnfiltered(r) ==
  /\ CanSearch(r) /\ job[r].round = "fallback"
  /\ \E s \in Answers[r] :
       job' = [job EXCEPT ![r].pool = Merge(@, Allowed(s)),
                          ![r].next = @ + 1]
  /\ UNCHANGED <<deployment, shared>>

\* The later searches keep what the response does not have yet.
SearchAgain(r) ==
  /\ CanSearch(r) /\ job[r].round = "fallback"
  /\ \E s \in Answers[r] :
       job' = [job EXCEPT ![r].pool = Merge(@, Without(Allowed(s), Docs(job[r].evidences))),
                          ![r].next = @ + 1]
  /\ UNCHANGED <<deployment, shared>>

\* Only those of the second tier count as successful.
SearchTier(r) ==
  /\ CanSearch(r) /\ job[r].round = "tier"
  /\ \E s \in Answers[r] :
       job' = [job EXCEPT ![r].pool = Merge(@, Without(Allowed(s), Docs(job[r].evidences))),
                          ![r].next = @ + 1, ![r].won = TRUE]
  /\ UNCHANGED <<deployment, shared>>

SearchFails(r) ==
  /\ CanSearch(r)
  /\ job' = [job EXCEPT ![r].next = @ + 1]
  /\ UNCHANGED <<deployment, shared>>

\* 502 at once: no search succeeded and there is no second tier.
NoProvider(r) ==
  /\ SearchIsOver(r) /\ job[r].round = "initial"
  /\ ~ job[r].won /\ ~ deployment.tier
  /\ job' = [job EXCEPT ![r].phase = "failed"]
  /\ UNCHANGED <<deployment, shared>>

\* hydrate_unusable_url_history: the failures Mongo knows are read, or cannot be.
Hydrate(r) ==
  /\ SearchIsOver(r) /\ job[r].round = "initial"
  /\ job[r].won \/ deployment.tier
  /\ \E known \in {stored \cap ToSet(job[r].raw), {}} :
       job' = [job EXCEPT ![r].phase = "hydrating", ![r].known = known]
  /\ UNCHANGED <<deployment, shared>>

-----------------------------------------------------------------------------
(* A batch of candidates. *)

FirstBatch ==
  IF deployment.fullText /\ InitialBatch < MaxResults
  THEN IF InitialBatch < Target THEN Target ELSE InitialBatch
  ELSE MaxResults

\* What was read is put in the history, whatever happened to it meanwhile.
Schedule(r) ==
  /\ At(r, "hydrating")
  /\ history' = history \cup job[r].known
  /\ LET batch == Diversify(job[r].raw, history \cup job[r].known, FirstBatch)
     IN job' = [job EXCEPT ![r].phase = "fetching", ![r].batch = batch, ![r].known = {},
                           ![r].pool = Without(job[r].raw, ToSet(batch))]
  /\ UNCHANGED <<deployment, stored, snapshots, cache>>

\* acquire_document: the outcome of the direct download, whether there is a
\* document in the end, whether it can be reused, and the extractions paid.
FromSearch == [direct |-> "none", ok |-> TRUE, saved |-> FALSE, paid |-> 0]
FromCache == FromSearch
Downloaded == [direct |-> "ok", ok |-> TRUE, saved |-> TRUE, paid |-> 0]
Extracted(direct) == [direct |-> direct, ok |-> TRUE, saved |-> TRUE, paid |-> 1]
NotAcquired(direct, paid) == [direct |-> direct, ok |-> FALSE, saved |-> FALSE, paid |-> paid]

Extractions(r, direct) ==
  {NotAcquired(direct, 0)} \cup
  IF deployment.mode # "DIRECT" /\ deployment.extract /\ job[r].extracts < MaxExtracts
  THEN {Extracted(direct), NotAcquired(direct, 1)} ELSE {}

Acquisitions(r, d) ==
  (IF deployment.mode # "DIRECT" THEN {FromSearch} ELSE {}) \cup
  (IF deployment.reuse /\ d \in snapshots /\ (deployment.mode = "PROVIDER" => deployment.extract)
   THEN {FromCache} ELSE {}) \cup
  (IF deployment.mode = "PROVIDER" THEN Extractions(r, "none")
   ELSE {Downloaded} \cup Extractions(r, "unusable") \cup Extractions(r, "failed"))

Used(r) == FoldLeft(LAMBDA n, e : n + e.contexts, 0, job[r].built)
Least(a, b) == IF a < b THEN a ELSE b

\* The next document of the batch.  Without full text, or once the batch has
\* all its contexts, it is listed but not downloaded.
List(r) ==
  /\ At(r, "fetching") /\ job[r].batch # <<>>
  /\ ~ deployment.fullText \/ Used(r) >= MaxContexts
  /\ LET e == [doc |-> Head(job[r].batch), contexts |-> 0, direct |-> "none"]
     IN job' = [job EXCEPT ![r].batch = Tail(@), ![r].built = Append(@, e),
                           ![r].tried = Append(@, e)]
  /\ UNCHANGED <<deployment, shared>>

\* A document may rank no context at all, though it was downloaded.
Acquire(r) ==
  /\ At(r, "fetching") /\ job[r].batch # <<>>
  /\ deployment.fullText /\ Used(r) < MaxContexts
  /\ \E a \in Acquisitions(r, Head(job[r].batch)) :
       \E n \in 0..(IF a.ok THEN Least(PerSource, MaxContexts - Used(r)) ELSE 0) :
         LET e == [doc |-> Head(job[r].batch), contexts |-> n, direct |-> a.direct]
         IN /\ job' = [job EXCEPT ![r].batch = Tail(@), ![r].built = Append(@, e),
                                  ![r].tried = Append(@, e),
                                  ![r].extracts = @ + a.paid, ![r].paid = @ + a.paid]
            /\ snapshots' = IF a.saved THEN snapshots \cup {e.doc} ELSE snapshots
  /\ UNCHANGED <<deployment, history, stored, cache>>

With(direct, evidences) == {e.doc : e \in {f \in ToSet(evidences) : f.direct = direct}}

\* remember_unusable_urls.
Remember(r) ==
  /\ At(r, "fetching") /\ job[r].batch = <<>>
  /\ job' = [job EXCEPT ![r].phase = "storing"]
  /\ history' = (history \ With("ok", job[r].built)) \cup With("unusable", job[r].built)
  /\ UNCHANGED <<deployment, stored, snapshots, cache>>

\* Mutant: the tier's evidences are appended like those of the other rounds.
JoinedInOrder(r) == Cut(job[r].evidences \o job[r].built, MaxResults)
\* The tier's evidences are ordered after what could be cited before.
Joined(r) ==
  LET old == job[r].evidences
      new == job[r].built
  IN IF job[r].round = "tier"
     THEN Cut(Citable(old) \o Citable(new) \o Uncitable(old \o new), MaxResults)
     ELSE old \o new

\* persist_unusable_url_outcomes: Mongo may fail after any of the outcomes.
Persist(r) ==
  /\ At(r, "storing")
  /\ \E k \in 0..Len(job[r].built) :
       LET written == Cut(job[r].built, k)
       IN /\ stored' = (stored \ With("ok", written)) \cup With("unusable", written)
          /\ history' = history \ With("ok", written)
  /\ job' = [job EXCEPT ![r].phase = "choosing", ![r].evidences = Joined(r), ![r].built = <<>>]
  /\ UNCHANGED <<deployment, snapshots, cache>>

-----------------------------------------------------------------------------
(* Further candidates, and the answer. *)

IsFirst(r) == job[r].round \in {"initial", "refill"}

\* What the first search returned is used up before another search.
CanRefill(r) ==
  IsFirst(r) /\ deployment.fullText /\ Short(r) /\ HasRoom(r) /\ Diversify(job[r].pool, history, 1) # <<>>

Refill(r) ==
  /\ At(r, "choosing") /\ CanRefill(r)
  /\ LET batch == Diversify(job[r].pool, history, 1)
     IN job' = [job EXCEPT ![r].phase = "fetching", ![r].round = "refill", ![r].batch = batch,
                           ![r].pool = Without(@, ToSet(batch))]
  /\ UNCHANGED <<deployment, shared>>

\* Another search: the second tier of the provider, or else the same again.
CanRecover(r) ==
  IsFirst(r) /\ ~ CanRefill(r) /\ deployment.fullText /\ Short(r)
    /\ (deployment.tier \/ HasRoom(r))

Recover(r) ==
  /\ At(r, "choosing") /\ CanRecover(r)
  /\ job' = [job EXCEPT ![r].phase = "searching", ![r].next = 1, ![r].pool = <<>>,
                        ![r].round = IF deployment.tier THEN "tier" ELSE "fallback"]
  /\ UNCHANGED <<deployment, shared>>

Missing(r) ==
  Least(MaxResults - Len(job[r].evidences), Target - Len(Citable(job[r].evidences)))

ScheduleAgain(r) ==
  /\ SearchIsOver(r) /\ job[r].round # "initial"
  /\ LET batch == Diversify(job[r].pool, history,
                            IF job[r].round = "tier" THEN CandidateBudget ELSE Missing(r))
     IN job' = [job EXCEPT ![r].phase = IF batch = <<>> THEN "choosing" ELSE "fetching",
                           ![r].batch = batch, ![r].pool = <<>>]
  /\ UNCHANGED <<deployment, shared>>

IsComplete(r) == At(r, "choosing") /\ ~ CanRefill(r) /\ ~ CanRecover(r)

\* The answer replaces whatever is cached by now.
Respond(r) ==
  /\ IsComplete(r) /\ job[r].won
  /\ job' = [job EXCEPT ![r].phase = "answered"]
  /\ cache' = [cache EXCEPT ![KeyOf[r]] = << [by |-> r, evidences |-> job[r].evidences] >>]
  /\ UNCHANGED <<deployment, history, stored, snapshots>>

\* 502: not even the second tier answered.
AllFailed(r) ==
  /\ IsComplete(r) /\ ~ job[r].won
  /\ job' = [job EXCEPT ![r].phase = "failed"]
  /\ UNCHANGED <<deployment, shared>>

\* Mongo cannot be asked or told about the cache: the request fails.
CacheFails(r) ==
  /\ At(r, "new") \/ IsComplete(r)
  /\ job' = [job EXCEPT ![r].phase = "failed"]
  /\ UNCHANGED <<deployment, shared>>

\* Mongo's TTLs and those of the memory.
Expire ==
  /\ \/ \E k \in Key : cache' = [cache EXCEPT ![k] = NoEntry] /\ UNCHANGED <<history, stored>>
     \/ \E d \in history : history' = history \ {d} /\ UNCHANGED <<stored, cache>>
     \/ \E d \in stored : stored' = stored \ {d} /\ UNCHANGED <<history, cache>>
  /\ UNCHANGED <<deployment, job, snapshots>>

-----------------------------------------------------------------------------
Init ==
  /\ deployment \in Deployments
  /\ job = [r \in Request |-> NewJob]
  /\ history = {} /\ stored = {} /\ snapshots = {}
  /\ cache = [k \in Key |-> NoEntry]

RequestStep(r) ==
  \/ CacheHit(r) \/ Begin(r) \/ CacheFails(r)
  \/ SkipRelaxed(r) \/ Search(r) \/ SearchAgain(r) \/ SearchTier(r) \/ SearchFails(r)
  \/ NoProvider(r) \/ Hydrate(r) \/ Schedule(r) \/ List(r) \/ Acquire(r) \/ Remember(r) \/ Persist(r)
  \/ Refill(r) \/ Recover(r) \/ ScheduleAgain(r)
  \/ Respond(r) \/ AllFailed(r)

Next == Expire \/ \E r \in Request : RequestStep(r)

Spec == Init /\ [][Next]_vars

-----------------------------------------------------------------------------
(* However many searches, rounds and tiers return a document, a request      *)
(* downloads it once: a candidate that fails is substituted, not retried.    *)
FetchedOnce(r) ==
  \A i, j \in DOMAIN job[r].tried :
    job[r].tried[i].doc = job[r].tried[j].doc => i = j

(* The rounds together list no more than max_results, and their paid         *)
(* extractions stay within one budget.                                       *)
WithinLimits(r) ==
  /\ At(r, "answered") => Len(job[r].evidences) <= MaxResults
  /\ Len(job[r].raw) <= CandidateBudget /\ Len(job[r].pool) <= CandidateBudget
  /\ job[r].paid <= MaxExtracts

(* Under EXT_ONLY_OFFICIAL no round downloads or lists anything else.        *)
KeepsToOfficial(r) == OnlyOfficial => Docs(job[r].tried) \subseteq Official

(* What the refill, the second search and the tier add keeps the request     *)
(* within its policy, and an outage of the provider is never cached: a       *)
(* cached answer is that of a request for which some search succeeded.       *)
PolicyIsKept ==
  /\ \A r \in Request : FetchedOnce(r) /\ WithinLimits(r) /\ KeepsToOfficial(r)
  /\ \A k \in Key : cache[k] # NoEntry =>
       LET by == cache[k][1].by
       IN At(by, "answered") /\ job[by].won /\ cache[k][1].evidences = job[by].evidences

(* The history of unusable URLs, which requests change under each other, is  *)
(* advisory: a response with too few citable sources and room for more has   *)
(* tried every candidate the first search returned.                          *)
NoCandidateLeft ==
  \A r \in Request :
    At(r, "answered") /\ deployment.fullText /\ Short(r) /\ HasRoom(r)
      => ToSet(job[r].raw) \subseteq Docs(job[r].tried)

(* No citable source that any round found is lost from the response, except  *)
(* to the limit of results.                                                  *)
CitableIsKept ==
  \A r \in Request : At(r, "answered") =>
    Len(Citable(job[r].evidences)) = Least(MaxResults, Len(Citable(job[r].tried)))
=============================================================================
