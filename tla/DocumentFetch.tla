---------------------------- MODULE DocumentFetch ----------------------------
(***************************************************************************)
(* fetch_main_text of evidence-search: one document is downloaded with     *)
(* retries, each attempt follows the redirects of whatever the servers     *)
(* answer, and an attempt whose certificate names another host is repeated *)
(* once at the www variant of the URL.                                     *)
(*                                                                         *)
(* The servers are the environment: a request may be redirected anywhere,  *)
(* answered with any status, or fail.  Time advances only while a request  *)
(* or a pause is under way.                                                *)
(***************************************************************************)
EXTENDS Integers, Sequences

CONSTANTS
  Url,             \* the URLs there are
  Wanted,          \* those that may be asked for
  Public,          \* the well formed URLs of public hosts
  Secure,          \* the https ones
  Variant,         \* www_hostname_variant, for the URLs that have one
  MaxRedirects,    \* MAX_REDIRECTS
  MaxAttempts,     \* FETCH_MAX_ATTEMPTS
  Budgets,         \* values of FETCH_RETRY_BUDGET_SECONDS
  RetryBase,       \* FETCH_RETRY_BASE_SECONDS
  RetryMax,        \* FETCH_RETRY_MAX_SECONDS
  RetryAfter,      \* delays a server may ask for
  MaxElapsed       \* bound: time a fetch may take

ASSUME FetchAssumption ==
  /\ Wanted \cup Public \cup Secure \subseteq Url
  /\ DOMAIN Variant \subseteq Secure
  /\ \A u \in DOMAIN Variant : Variant[u] \in Secure
  /\ MaxAttempts \in Nat \ {0}
  /\ {MaxRedirects, RetryBase, RetryMax, MaxElapsed} \cup Budgets \cup RetryAfter \subseteq Nat

VARIABLES
  budget,     \* FETCH_RETRY_BUDGET_SECONDS of this process
  wanted,     \* the URL asked for
  attempt,    \* attempt_number
  chain,      \* the URLs requested since the attempt or the variant began
  current,    \* the URL to request next
  aliased,    \* whether the attempt has moved to the www variant
  stage,      \* "deciding", "checking", "requesting", "pausing", "done"
  result,     \* [outcome, stable code, retryable, after], as FetchResult
  elapsed,    \* since the fetch started
  delay,      \* what is left of the pause
  requests,   \* requests sent
  records,    \* entries of FetchResult.attempts
  retries     \* "RETRY" entries of FetchResult.retry_trace: the results retried

progress == <<attempt, chain, current, aliased>>
counts == <<requests, records, retries>>
given == <<budget, wanted>>
fetchVars == <<given, progress, stage, result, elapsed, delay, counts>>

(* classify_fetch_outcome and failure_metadata: what an answer, a failure or *)
(* an extraction amounts to, and whether its code is marked retryable.  What *)
(* is treated alike has one name: CONNECT is any other network exception.    *)
Classified ==
  [EXTRACTED |-> FALSE, PENDING |-> TRUE, ACCESS_DENIED |-> FALSE,
   NOT_FOUND |-> FALSE, RATE_LIMITED |-> TRUE, SERVER_FAILURE |-> TRUE,
   TIMEOUT |-> TRUE, CONNECT |-> TRUE, TLS |-> TRUE,
   EMPTY_CONTENT |-> TRUE, UNSUPPORTED_CONTENT |-> FALSE,
   EXTRACTION_FAILURE |-> FALSE, REDIRECT_FAILURE |-> FALSE]
Outcome == DOMAIN Classified

\* The server's own Retry-After, or none.
NoDelay == -1
AnswersWithDelay == {"PENDING", "RATE_LIMITED", "SERVER_FAILURE"}
Result == [outcome : Outcome, after : RetryAfter \cup {NoDelay}]
NoResult == [outcome |-> "TIMEOUT", after |-> NoDelay]

-----------------------------------------------------------------------------
Shorter(a, b) == IF a < b THEN a ELSE b
Less(n) == IF n > 0 THEN n - 1 ELSE 0
Redirects == Len(chain) - 1
Visited == {chain[i] : i \in DOMAIN chain}

\* should_retry_fetch.  Connection and TLS failures and pending documents
\* without a date ask for another candidate, not for the same URL again.
ShouldRetry(r) ==
  /\ Classified[r.outcome]
  /\ \/ r.outcome \in {"RATE_LIMITED", "SERVER_FAILURE", "TIMEOUT"}
     \/ r.outcome = "PENDING" /\ r.after # NoDelay

\* retry_delay_seconds, without its jitter.
RetryDelay(r) ==
  IF r.after # NoDelay THEN r.after
  ELSE Shorter(RetryBase * 2^(attempt - 1), RetryMax)

\* A result ends the attempt.
Conclude(o, after) ==
  /\ stage' = "deciding"
  /\ result' = [outcome |-> o, after |-> after]
  /\ records' = records + 1

-----------------------------------------------------------------------------
\* The head of the retry loop.  A budget of 0, which the other two tests read
\* as "no budget", stops every retry here.
BeginAttempt ==
  /\ stage = "pausing"
  /\ delay = 0
  /\ attempt = 0 \/ elapsed < budget
  /\ stage' = "checking"
  /\ attempt' = attempt + 1
  /\ chain' = <<>>
  /\ current' = wanted
  /\ aliased' = FALSE
  /\ UNCHANGED <<given, result, elapsed, delay, counts>>

BudgetSpent ==
  /\ stage = "pausing"
  /\ delay = 0
  /\ attempt > 0
  /\ elapsed >= budget
  /\ stage' = "done"
  /\ UNCHANGED <<given, progress, result, elapsed, delay, counts>>

\* _validate_fetch_url of the first URL, or a URL met before in the chain.
Refuse ==
  /\ stage = "checking"
  /\ current \notin Public \/ current \in Visited
  /\ Conclude("REDIRECT_FAILURE", NoDelay)
  /\ UNCHANGED <<given, progress, elapsed, delay, requests, retries>>

SendRequest ==
  /\ stage = "checking"
  /\ current \in Public
  /\ current \notin Visited
  /\ stage' = "requesting"
  /\ chain' = Append(chain, current)
  /\ requests' = requests + 1
  /\ UNCHANGED <<given, attempt, current, aliased, result, elapsed, delay, records, retries>>

\* Mutant: a target is only checked when it is requested (no downgrade test).
FollowsDowngrade(target) ==
  /\ stage = "requesting"
  /\ Redirects < MaxRedirects
  /\ target \in Public
  /\ stage' = "checking"
  /\ current' = target
  /\ records' = records + 1
  /\ UNCHANGED <<given, attempt, chain, aliased, result, elapsed, delay, requests, retries>>

FollowRedirect(target) ==
  /\ stage = "requesting"
  /\ Redirects < MaxRedirects
  /\ target \in Public
  /\ current \in Secure => target \in Secure
  /\ stage' = "checking"
  /\ current' = target
  /\ records' = records + 1
  /\ UNCHANGED <<given, attempt, chain, aliased, result, elapsed, delay, requests, retries>>

\* No location, too many redirects, a target that is not public, a downgrade.
RefuseRedirect ==
  /\ stage = "requesting"
  /\ Conclude("REDIRECT_FAILURE", NoDelay)
  /\ UNCHANGED <<given, progress, elapsed, delay, requests, retries>>

\* An answer that is no redirect, downloaded and extracted.
Received(o, after) ==
  /\ stage = "requesting"
  /\ Conclude(o, after)
  /\ UNCHANGED <<given, progress, elapsed, delay, requests, retries>>

\* The certificate belongs to another host: once per attempt, start again at
\* the www variant of the URL asked for, wherever the redirects had led.
TryVariant ==
  /\ stage = "requesting"
  /\ ~ aliased
  /\ wanted \in DOMAIN Variant
  /\ stage' = "checking"
  /\ current' = Variant[wanted]
  /\ chain' = <<>>
  /\ aliased' = TRUE
  /\ records' = records + 1
  /\ UNCHANGED <<given, attempt, result, elapsed, delay, requests, retries>>

RequestFails(o) ==
  /\ stage = "requesting"
  /\ o = "TLS" => aliased \/ wanted \notin DOMAIN Variant
  /\ Conclude(o, NoDelay)
  /\ UNCHANGED <<given, progress, elapsed, delay, requests, retries>>

\* Mutant: a retry that is skipped is traced like one that is made.
GiveUpTraced ==
  /\ stage = "deciding"
  /\ \/ attempt >= MaxAttempts
     \/ ~ ShouldRetry(result)
     \/ RetryDelay(result) > RetryMax
     \/ budget > 0 /\ elapsed + RetryDelay(result) >= budget
  /\ stage' = "done"
  /\ retries' = Append(retries, result)
  /\ UNCHANGED <<given, progress, result, elapsed, delay, requests, records>>

\* The foot of the loop.
GiveUp ==
  /\ stage = "deciding"
  /\ \/ attempt >= MaxAttempts
     \/ ~ ShouldRetry(result)
     \/ RetryDelay(result) > RetryMax
     \/ budget > 0 /\ elapsed + RetryDelay(result) >= budget
  /\ stage' = "done"
  /\ UNCHANGED <<given, progress, result, elapsed, delay, counts>>

RetryLater ==
  /\ stage = "deciding"
  /\ attempt < MaxAttempts
  /\ ShouldRetry(result)
  /\ RetryDelay(result) <= RetryMax
  /\ budget > 0 => elapsed + RetryDelay(result) < budget
  /\ stage' = "pausing"
  /\ delay' = RetryDelay(result)
  /\ retries' = Append(retries, result)
  /\ UNCHANGED <<given, progress, result, elapsed, requests, records>>

\* A pause may last longer than asked for.
Tick ==
  /\ stage = "requesting" \/ (stage = "pausing" /\ attempt > 0)
  /\ elapsed < MaxElapsed
  /\ elapsed' = elapsed + 1
  /\ delay' = Less(delay)
  /\ UNCHANGED <<given, progress, stage, result, counts>>

-----------------------------------------------------------------------------
FetchInit ==
  /\ budget \in Budgets /\ wanted \in Wanted
  /\ attempt = 0 /\ chain = <<>> /\ current = wanted /\ aliased = FALSE
  /\ stage = "pausing"
  /\ result = NoResult
  /\ elapsed = 0 /\ delay = 0
  /\ requests = 0 /\ records = 0 /\ retries = <<>>

FetchStep ==
  \/ BeginAttempt \/ BudgetSpent
  \/ Refuse \/ SendRequest
  \/ \E target \in Url : FollowRedirect(target)
  \/ RefuseRedirect
  \/ \E o \in Outcome \ {"TIMEOUT", "CONNECT", "TLS", "REDIRECT_FAILURE"} :
       \E after \in {NoDelay} \cup (IF o \in AnswersWithDelay THEN RetryAfter ELSE {}) :
         Received(o, after)
  \/ TryVariant
  \/ \E o \in {"TIMEOUT", "CONNECT", "TLS", "EXTRACTION_FAILURE"} : RequestFails(o)
  \/ GiveUp \/ RetryLater

FetchNext == FetchStep \/ Tick

FetchSpec == FetchInit /\ [][FetchNext]_fetchVars

-----------------------------------------------------------------------------
(* However the servers redirect, and whichever host the certificate error    *)
(* came from, only public hosts are asked, no URL is asked twice in a chain  *)
(* and https is never left once it was reached.                              *)
ChainIsSafe ==
  /\ Visited \subseteq Public
  /\ \A i, j \in DOMAIN chain : i < j => chain[i] # chain[j]
  /\ \A i, j \in DOMAIN chain : i < j /\ chain[i] \in Secure => chain[j] \in Secure

(* However the servers answer, the work of one fetch is bounded, every       *)
(* request that was sent is among the attempts the summary counts, and the   *)
(* retry trace tells what happened: nothing but a transient outcome has ever *)
(* been retried, and there is one entry per attempt after the first, and one *)
(* more only if the budget was used up by the end of the pause.  A budget of *)
(* 0 never lets a second attempt begin, though its retry may be in the trace.*)
FetchIsAccounted ==
  /\ requests <= MaxAttempts * 2 * (MaxRedirects + 1)
  /\ IF stage = "requesting" THEN requests <= records + 1 ELSE requests <= records
  /\ \A i \in DOMAIN retries : ShouldRetry(retries[i])
  /\ stage = "done" => \/ Len(retries) = attempt - 1
                       \/ Len(retries) = attempt /\ elapsed >= budget
  /\ budget = 0 => attempt <= 1
=============================================================================
