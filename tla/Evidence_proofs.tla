--------------------------- MODULE Evidence_proofs --------------------------
(***************************************************************************)
(* Proofs about the way of an evidence, for any servers, topics, providers, *)
(* contexts and replies: one fetch of a document, the routes and profiles of *)
(* source-router, the grounding of the verdicts that are published, and the *)
(* searches that gather the evidences, however many run concurrently.      *)
(***************************************************************************)
EXTENDS DocumentFetch, Grounding, SourceRouter, Retrieval, DataTheorems

-----------------------------------------------------------------------------
(* The chain of redirects                                                  *)

\* Where the chain stands, and that its last hop is no downgrade of it.
ChainInv ==
  /\ stage \in {"deciding", "checking", "requesting", "pausing", "done"}
  /\ wanted \in Url /\ current \in Url /\ chain \in Seq(Url)
  /\ stage = "requesting" => chain # <<>> /\ current = chain[Len(chain)]
  /\ stage = "checking" =>
       \A i \in DOMAIN chain : chain[i] \in Secure => current \in Secure
  /\ ChainIsSafe

\* A public URL that is new to the chain may join it unless https is left.
LEMMA AppendIsSafe ==
  ASSUME ChainInv, current \in Public \ Visited, chain' = Append(chain, current),
         \A i \in DOMAIN chain : chain[i] \in Secure => current \in Secure
  PROVE  ChainIsSafe'
<1> DEFINE n == Len(chain)
<1>1. /\ n \in Nat /\ DOMAIN chain = 1..n /\ DOMAIN chain' = 1..(n + 1)
      /\ \A i \in 1..n : chain'[i] = chain[i]
      /\ chain'[n + 1] = current
  BY DEF ChainInv
<1>2. \A i \in 1..n : chain[i] \in Public /\ chain[i] # current
  BY <1>1 DEF ChainInv, ChainIsSafe, Visited
<1>3. (Visited \subseteq Public)'
  BY <1>1, <1>2 DEF Visited
<1>4. ASSUME NEW i \in 1..(n + 1), NEW j \in 1..(n + 1), i < j
      PROVE  chain'[i] # chain'[j] /\ (chain'[i] \in Secure => chain'[j] \in Secure)
  <2>1. CASE j \in 1..n
    BY <1>1, <1>4, <2>1 DEF ChainInv, ChainIsSafe
  <2>2. CASE j = n + 1
    BY <1>1, <1>2, <1>4, <2>2
  <2> QED BY <1>1, <2>1, <2>2
<1> QED BY <1>1, <1>3, <1>4 DEF ChainIsSafe

\* Nothing is visited yet.
LEMMA EmptyIsSafe == ASSUME chain = <<>> PROVE ChainIsSafe
BY DEF ChainIsSafe, Visited

LEMMA InitChainInv == FetchInit => ChainInv
<1> SUFFICES ASSUME FetchInit PROVE ChainInv
  OBVIOUS
<1>1. ChainIsSafe
  BY EmptyIsSafe DEF FetchInit
<1> QED BY <1>1, FetchAssumption DEF FetchInit, ChainInv

LEMMA NextChainInv == ChainInv /\ [FetchNext]_fetchVars => ChainInv'
<1> SUFFICES ASSUME ChainInv, [FetchNext]_fetchVars
             PROVE  ChainInv'
  OBVIOUS
<1> USE DEF ChainInv
<1>1. ASSUME UNCHANGED <<wanted, progress>>,
             stage' \in {"deciding", "pausing", "done"} \/ stage' = stage
      PROVE  ChainInv'
  BY <1>1 DEF progress, ChainIsSafe, Visited
<1>2. CASE BeginAttempt
  <2>1. ChainIsSafe'
    BY <1>2, EmptyIsSafe DEF BeginAttempt, given, ChainIsSafe, Visited
  <2> QED BY <1>2, <2>1 DEF BeginAttempt, given
<1>3. CASE SendRequest
  <2>1. ChainIsSafe'
    BY <1>3, AppendIsSafe DEF SendRequest, given
  <2>2. chain' \in Seq(Url) /\ chain' # <<>> /\ current = chain'[Len(chain')]
    BY <1>3 DEF SendRequest, given
  <2> QED BY <1>3, <2>1, <2>2 DEF SendRequest, given
<1>4. ASSUME NEW target \in Url, FollowRedirect(target)
      PROVE  ChainInv'
  <2>1. ChainIsSafe'
    BY <1>4 DEF FollowRedirect, given, ChainIsSafe, Visited
  <2>2. ASSUME NEW i \in DOMAIN chain, chain[i] \in Secure
        PROVE  current \in Secure
    <3>1. Len(chain) \in DOMAIN chain /\ (i < Len(chain) \/ i = Len(chain))
      BY <1>4 DEF FollowRedirect, given
    <3> QED BY <1>4, <2>2, <3>1 DEF FollowRedirect, given, ChainIsSafe
  <2> QED BY <1>4, <2>1, <2>2 DEF FollowRedirect, given
<1>5. CASE TryVariant
  <2>1. Variant[wanted] \in Url
    BY <1>5, FetchAssumption DEF TryVariant, given
  <2>2. ChainIsSafe'
    BY <1>5 DEF TryVariant, given, ChainIsSafe, Visited
  <2> QED BY <1>5, <2>1, <2>2 DEF TryVariant, given
<1>6. CASE BudgetSpent
  BY <1>1, <1>6 DEF BudgetSpent, given
<1>7. CASE Refuse
  BY <1>1, <1>7 DEF Refuse, given, Conclude
<1>8. CASE RefuseRedirect
  BY <1>1, <1>8 DEF RefuseRedirect, given, Conclude
<1>9. ASSUME NEW o, NEW after, Received(o, after)
      PROVE  ChainInv'
  BY <1>1, <1>9 DEF Received, given, Conclude
<1>10. ASSUME NEW o, RequestFails(o)
       PROVE  ChainInv'
  BY <1>1, <1>10 DEF RequestFails, given, Conclude
<1>11. CASE GiveUp
  BY <1>1, <1>11 DEF GiveUp, given
<1>12. CASE RetryLater
  BY <1>1, <1>12 DEF RetryLater, given
<1>13. CASE Tick
  BY <1>1, <1>13 DEF Tick, given
<1>14. CASE UNCHANGED fetchVars
  BY <1>1, <1>14 DEF fetchVars, given
<1> QED BY <1>2, <1>3, <1>4, <1>5, <1>6, <1>7, <1>8, <1>9, <1>10, <1>11, <1>12, <1>13, <1>14
        DEF FetchNext, FetchStep

THEOREM ChainInvariance == FetchSpec => []ChainInv
BY InitChainInv, NextChainInv, PTL DEF FetchSpec

\* Whatever the servers answer, no request leaves the public hosts, repeats a
\* URL of its chain or falls back from https.
THEOREM ChainTheorem == FetchSpec => []ChainIsSafe
<1>1. ChainInv => ChainIsSafe
  BY DEF ChainInv
<1> QED BY <1>1, ChainInvariance, PTL

-----------------------------------------------------------------------------
(* The account of the work                                                 *)

\* Requests of one host name: the first and MaxRedirects redirects.
PerName == MaxRedirects + 1

\* What the attempt under way, or the last one, may have used so far: its chain,
\* and before it a whole chain if it moved to the www variant.
UsedByAttempt == Len(chain) + (IF aliased THEN PerName ELSE 0)

\* What the attempts before it may have used: two chains each.
UsedBefore == (attempt - 1) * (2 * PerName)

\* The results that are retried.
Retryable == {r \in Result : ShouldRetry(r)}

\* Requests are those of finished attempts, two chains each, and of this one;
\* records follow them; and the trace has one entry per attempt after the first.
CountInv ==
  /\ stage \in {"deciding", "checking", "requesting", "pausing", "done"}
  /\ attempt \in 0..MaxAttempts /\ chain \in Seq(Url) /\ aliased \in BOOLEAN
  /\ wanted \in Url /\ current \in Url
  /\ requests \in Nat /\ records \in Nat /\ elapsed \in Nat /\ budget \in Nat
  /\ result \in Result /\ retries \in Seq(Retryable)
  /\ stage # "pausing" => attempt > 0
  /\ Len(chain) <= PerName
  /\ stage = "checking" => Len(chain) < PerName
  /\ attempt = 0 => requests = 0
  /\ attempt > 0 => requests <= UsedBefore + UsedByAttempt
  /\ requests <= records + 1 /\ (stage # "requesting" => requests <= records)
  /\ stage = "pausing" => attempt < MaxAttempts /\ Len(retries) = attempt
  /\ stage \in {"checking", "requesting", "deciding"} => Len(retries) = attempt - 1
  /\ stage = "done" => \/ Len(retries) = attempt - 1
                       \/ Len(retries) = attempt /\ elapsed >= budget
  /\ budget = 0 => attempt <= 1

\* A new attempt adds the two chains of the last one to those that are over.
LEMMA OneMoreAttempt ==
  ASSUME NEW n \in Nat \ {0}, NEW k \in Nat
  PROVE  (n - 1) * k + k = ((n + 1) - 1) * k
OBVIOUS

\* Requests of at most MaxAttempts attempts.
LEMMA AtMost ==
  ASSUME NEW n \in Nat \ {0}, NEW m \in Nat, n <= m, NEW k \in Nat
  PROVE  (n - 1) * k + k <= m * k
OBVIOUS

LEMMA BoundsAreNumbers ==
  /\ MaxRedirects \in Nat /\ MaxAttempts \in Nat \ {0}
  /\ PerName \in Nat \ {0} /\ 2 * PerName \in Nat
<1>1. MaxRedirects \in Nat /\ MaxAttempts \in Nat \ {0}
  BY FetchAssumption
<1> QED BY <1>1 DEF PerName

\* The two parts of the bound are numbers once an attempt has begun.
LEMMA UsedAreNumbers ==
  ASSUME CountInv
  PROVE  /\ UsedByAttempt \in Nat /\ UsedByAttempt <= 2 * PerName
         /\ attempt > 0 => UsedBefore \in Nat
<1>1. UsedByAttempt \in Nat /\ UsedByAttempt <= 2 * PerName
  BY BoundsAreNumbers DEF CountInv, UsedByAttempt
<1>2. attempt > 0 => attempt - 1 \in Nat
  BY BoundsAreNumbers DEF CountInv
<1> QED BY <1>1, <1>2, BoundsAreNumbers DEF UsedBefore

\* What is bounded stays so.
LEMMA AtMostWithMore ==
  ASSUME NEW n \in Nat, NEW m \in Nat, NEW k \in Nat, n <= m
  PROVE  n <= m + k
OBVIOUS

LEMMA InitCountInv == FetchInit => CountInv
<1> SUFFICES ASSUME FetchInit PROVE CountInv
  OBVIOUS
<1>1. wanted \in Url /\ attempt = 0 /\ attempt \in 0..MaxAttempts /\ attempt < MaxAttempts
  BY FetchAssumption, BoundsAreNumbers DEF FetchInit
<1>2. chain \in Seq(Url) /\ Len(chain) = 0
  BY DEF FetchInit
<1>3. aliased \in BOOLEAN
  BY Zenon DEF FetchInit
<1>4. result \in Result
  BY DEF FetchInit, NoResult, Result, Outcome, Classified
<1>5. retries \in Seq(Retryable) /\ Len(retries) = 0
  BY DEF FetchInit
<1>6. budget \in Nat
  BY FetchAssumption DEF FetchInit
<1> QED BY <1>1, <1>2, <1>3, <1>4, <1>5, <1>6, BoundsAreNumbers DEF FetchInit, CountInv

LEMMA NextCountInv == CountInv /\ [FetchNext]_fetchVars => CountInv'
<1> SUFFICES ASSUME CountInv, [FetchNext]_fetchVars
             PROVE  CountInv'
  OBVIOUS
<1>0. /\ MaxRedirects \in Nat /\ MaxAttempts \in Nat \ {0}
      /\ PerName \in Nat \ {0}
      /\ UsedByAttempt \in Nat /\ UsedByAttempt <= 2 * PerName
      /\ attempt > 0 => UsedBefore \in Nat
  <2>1. /\ UsedByAttempt \in Nat /\ UsedByAttempt <= 2 * PerName
        /\ attempt > 0 => UsedBefore \in Nat
    BY UsedAreNumbers
  <2> QED BY <2>1, BoundsAreNumbers
<1>1. CASE BeginAttempt
  <2>1. attempt' = attempt + 1 /\ chain' = <<>> /\ aliased' = FALSE /\ requests' = requests
    BY <1>1 DEF BeginAttempt, given, counts
  <2>2. requests' <= UsedBefore' /\ UsedBefore' \in Nat
    <3>1. CASE attempt = 0
      <4>1. UsedBefore' = 0
        BY <2>1, <3>1, BoundsAreNumbers DEF UsedBefore
      <4> QED BY <2>1, <3>1, <4>1 DEF CountInv
    <3>2. CASE attempt > 0
      <4>1. attempt \in Nat \ {0} /\ 2 * PerName \in Nat
        BY <1>0, <3>2, BoundsAreNumbers DEF CountInv
      <4>2. UsedBefore + 2 * PerName = ((attempt + 1) - 1) * (2 * PerName)
        BY <4>1, OneMoreAttempt DEF UsedBefore
      <4>3. UsedBefore' = ((attempt + 1) - 1) * (2 * PerName)
        BY <2>1 DEF UsedBefore, PerName
      <4> QED BY <1>0, <2>1, <3>2, <4>1, <4>2, <4>3 DEF CountInv
    <3> QED BY <3>1, <3>2 DEF CountInv
  <2>3. chain' \in Seq(Url) /\ Len(chain') = 0
    BY <2>1
  <2>4. UsedByAttempt' = 0
    BY <2>1, <2>3 DEF UsedByAttempt
  <2>5. aliased' \in BOOLEAN
    BY <2>1, Zenon
  <2>6. requests' \in Nat
    BY <2>1 DEF CountInv
  <2>7. Len(chain') < PerName' /\ Len(chain') <= PerName'
    BY <1>0, <2>3 DEF PerName
  <2>8. requests' <= UsedBefore' + UsedByAttempt'
    <3>1. requests' \in Nat /\ UsedBefore' \in Nat
      BY <2>2, <2>6
    <3>2. UsedByAttempt' \in Nat
      BY <2>4
    <3> QED BY <2>2, <3>1, <3>2, AtMostWithMore, Zenon
  <2> QED BY <1>0, <1>1, <2>3, <2>5, <2>7, <2>8 DEF BeginAttempt, given, counts, CountInv, PerName
<1>2. CASE SendRequest
  <2>1. /\ Len(chain') = Len(chain) + 1 /\ chain' \in Seq(Url)
        /\ attempt' = attempt /\ aliased' = aliased /\ requests' = requests + 1
    BY <1>2 DEF SendRequest, given, CountInv
  <2>2. UsedByAttempt' = UsedByAttempt + 1
    BY <1>0, <2>1 DEF UsedByAttempt, PerName, CountInv
  <2>3. attempt > 0 /\ UsedBefore' = UsedBefore
    BY <1>2, <2>1 DEF SendRequest, given, CountInv, UsedBefore, PerName
  <2>5. requests' <= UsedBefore' + UsedByAttempt'
    BY <1>0, <2>1, <2>2, <2>3 DEF CountInv
  <2> QED BY <1>0, <1>2, <2>1, <2>5 DEF SendRequest, given, CountInv, PerName
<1>3. ASSUME NEW target \in Url, FollowRedirect(target)
      PROVE  CountInv'
  <2>1. UNCHANGED <<UsedBefore, UsedByAttempt>>
    BY <1>3 DEF FollowRedirect, given, UsedBefore, UsedByAttempt, PerName
  <2>2. Len(chain) < PerName
    BY <1>0, <1>3 DEF FollowRedirect, given, Redirects, PerName, CountInv
  <2> QED BY <1>0, <1>3, <2>1, <2>2 DEF FollowRedirect, given, CountInv, PerName
<1>4. CASE TryVariant
  <2>1. /\ chain' = <<>> /\ aliased' /\ ~ aliased /\ attempt' = attempt
        /\ requests' = requests /\ Variant[wanted] \in Url
    BY <1>4, FetchAssumption DEF TryVariant, given, CountInv
  <2>2. UsedByAttempt <= UsedByAttempt' /\ UsedByAttempt' \in Nat
    BY <1>0, <2>1 DEF UsedByAttempt, PerName, CountInv
  <2>3. attempt > 0 /\ UsedBefore' = UsedBefore
    BY <1>4, <2>1 DEF TryVariant, given, CountInv, UsedBefore, PerName
  <2>5. requests' <= UsedBefore' + UsedByAttempt'
    BY <1>0, <2>1, <2>2, <2>3 DEF CountInv
  <2> QED BY <1>0, <1>4, <2>1, <2>5 DEF TryVariant, given, CountInv, PerName
<1>5. ASSUME UNCHANGED <<given, progress, requests, retries, elapsed>>, stage' = "deciding",
             stage \in {"checking", "requesting"}, records' = records + 1, result' \in Result
      PROVE  CountInv'
  <2>1. UNCHANGED <<UsedBefore, UsedByAttempt>>
    BY <1>5 DEF progress, UsedBefore, UsedByAttempt, PerName
  <2> QED BY <1>0, <1>5, <2>1 DEF given, progress, CountInv, PerName
<1>6. CASE Refuse
  BY <1>5, <1>6 DEF Refuse, given, Conclude, Result, Outcome, Classified
<1>7. CASE RefuseRedirect
  BY <1>5, <1>7 DEF RefuseRedirect, given, Conclude, Result, Outcome, Classified
<1>8. ASSUME NEW o \in Outcome, NEW after \in RetryAfter \cup {NoDelay}, Received(o, after)
      PROVE  CountInv'
  BY <1>5, <1>8 DEF Received, given, Conclude, Result
<1>9. ASSUME NEW o \in Outcome, RequestFails(o)
      PROVE  CountInv'
  BY <1>5, <1>9 DEF RequestFails, given, Conclude, Result
<1>10. CASE BudgetSpent
  <2>1. UNCHANGED <<UsedBefore, UsedByAttempt, Len(chain)>>
    BY <1>10 DEF BudgetSpent, given, progress, UsedBefore, UsedByAttempt, PerName
  <2> QED BY <1>0, <1>10, <2>1 DEF BudgetSpent, given, progress, counts, CountInv, PerName
<1>11. CASE GiveUp
  <2>1. UNCHANGED <<UsedBefore, UsedByAttempt, Len(chain)>>
    BY <1>11 DEF GiveUp, given, progress, UsedBefore, UsedByAttempt, PerName
  <2> QED BY <1>0, <1>11, <2>1 DEF GiveUp, given, progress, counts, CountInv, PerName
<1>12. CASE RetryLater
  <2>0. retries' \in Seq(Retryable) /\ Len(retries') = Len(retries) + 1
    <3>1. result \in Retryable /\ retries \in Seq(Retryable)
      BY <1>12 DEF RetryLater, CountInv, Retryable
    <3> QED BY <1>12, <3>1 DEF RetryLater
  <2>1. UNCHANGED <<UsedBefore, UsedByAttempt, Len(chain)>>
    BY <1>12 DEF RetryLater, given, progress, UsedBefore, UsedByAttempt, PerName
  <2> QED BY <1>0, <1>12, <2>0, <2>1 DEF RetryLater, given, progress, counts, CountInv, PerName
<1>13. CASE Tick
  <2>1. elapsed' = elapsed + 1
    BY <1>13 DEF Tick, given
  <2>2. elapsed >= budget => elapsed' >= budget
    BY <1>0, <2>1 DEF CountInv
  <2>3. UNCHANGED <<UsedBefore, UsedByAttempt>>
    BY <1>13 DEF Tick, given, progress, UsedBefore, UsedByAttempt, PerName
  <2> QED BY <1>0, <1>13, <2>1, <2>2, <2>3 DEF Tick, given, progress, counts, CountInv, PerName
<1>14. CASE UNCHANGED fetchVars
  BY <1>14 DEF fetchVars, given, progress, counts, CountInv, UsedBefore, UsedByAttempt, PerName
<1>15. CASE \E o \in Outcome \ {"TIMEOUT", "CONNECT", "TLS", "REDIRECT_FAILURE"} :
              \E after \in {NoDelay} \cup (IF o \in AnswersWithDelay THEN RetryAfter ELSE {}) :
                Received(o, after)
  BY <1>8, <1>15
<1>16. CASE \E o \in {"TIMEOUT", "CONNECT", "TLS", "EXTRACTION_FAILURE"} : RequestFails(o)
  <2>1. {"TIMEOUT", "CONNECT", "TLS", "EXTRACTION_FAILURE"} \subseteq Outcome
    BY DEF Outcome, Classified
  <2> QED BY <1>9, <1>16, <2>1
<1> QED BY <1>1, <1>2, <1>3, <1>4, <1>6, <1>7, <1>10, <1>11, <1>12, <1>13, <1>14, <1>15, <1>16
        DEF FetchNext, FetchStep

\* The bound of the whole fetch, from that of its attempts.
LEMMA CountsImplyAccount == CountInv => FetchIsAccounted
<1> SUFFICES ASSUME CountInv PROVE FetchIsAccounted
  OBVIOUS
<1>1. PerName \in Nat /\ 2 * PerName \in Nat /\ MaxAttempts \in Nat
  BY BoundsAreNumbers
<1>2. requests <= MaxAttempts * (2 * PerName)
  <2>1. CASE attempt = 0
    BY <1>1, <2>1 DEF CountInv
  <2>2. CASE attempt > 0
    <3>1. requests <= UsedBefore + 2 * PerName
      BY <1>1, <2>2, UsedAreNumbers DEF CountInv
    <3>2. attempt \in Nat \ {0} /\ attempt <= MaxAttempts
      BY <1>1, <2>2 DEF CountInv
    <3>3. UsedBefore + 2 * PerName <= MaxAttempts * (2 * PerName)
      BY <1>1, <3>2, AtMost DEF UsedBefore
    <3>4. UsedBefore \in Nat /\ MaxAttempts * (2 * PerName) \in Nat /\ requests \in Nat
      BY <1>1, <2>2, UsedAreNumbers DEF CountInv
    <3> QED BY <1>1, <3>1, <3>3, <3>4
  <2> QED BY <2>1, <2>2 DEF CountInv
<1>3. MaxAttempts * (2 * PerName) = MaxAttempts * 2 * (MaxRedirects + 1)
  BY BoundsAreNumbers DEF PerName
<1>4. \A i \in DOMAIN retries : ShouldRetry(retries[i])
  <2>1. retries \in Seq(Retryable)
    BY DEF CountInv
  <2>2. \A i \in DOMAIN retries : retries[i] \in Retryable
    BY <2>1
  <2> QED BY <2>2 DEF Retryable
<1> QED BY <1>2, <1>3, <1>4 DEF CountInv, FetchIsAccounted

\* However the servers answer, a fetch makes a bounded number of requests, has
\* a record for each and a truthful retry trace.
THEOREM AccountTheorem == FetchSpec => []FetchIsAccounted
<1>1. FetchSpec => []CountInv
  BY InitCountInv, NextCountInv, PTL DEF FetchSpec
<1> QED BY <1>1, CountsImplyAccount, PTL

-----------------------------------------------------------------------------
(* A verified claim names exactly one delivered context, which may be cited. *)

NamesOneContext(id) ==
  \E i \in DOMAIN delivered :
    /\ \A j \in DOMAIN delivered : delivered[j].id = id <=> j = i
    /\ delivered[i].quality = "citable"
    /\ delivered[i].source \in Navigable \ Original

\* What validate_payload_v2 keeps between its steps.
GroundInv ==
  /\ judged.at \in {"retrieving", "retrieved", "replied", "published"}
  /\ validator \in {"rag", "search", "memory"}
  /\ delivered \in Seq(Context)
  /\ reply.verdict \in {"TRUE", "FALSE", "UNKNOWN"} /\ reply.claims \subseteq Claim
  /\ judged.at \in {"retrieving", "retrieved"} => reply.verdict = "UNKNOWN"
  /\ judged.at # "published" => judged.status = "none"
  /\ DocumentaryIsGrounded

\* The check of a citation: no second citable context and no other context with
\* its identifier, and one that is citable.
LEMMA VerifiedNamesOne ==
  ASSUME delivered \in Seq(Context), NEW c \in Claim, Verified(c)
  PROVE  NamesOneContext(c.id)
<1>1. PICK i \in PlacesOf(c.id, {"citable"}) : delivered[i].source \in Navigable \ Original
  BY DEF Verified
<1>2. /\ i \in DOMAIN delivered /\ delivered[i].id = c.id
      /\ delivered[i].quality = "citable"
  BY <1>1 DEF PlacesOf
<1>3. ASSUME NEW j \in DOMAIN delivered, delivered[j].id = c.id
      PROVE  j = i
  <2>1. delivered[j] \in Context
    OBVIOUS
  <2>2. delivered[j].quality = "citable"
    BY <1>3, <2>1 DEF Verified, Ineligible, PlacesOf, Context, Quality
  <2>3. j \in PlacesOf(c.id, {"citable"})
    BY <1>3, <2>2 DEF PlacesOf
  <2> QED BY <1>1, <2>3 DEF Verified, Ambiguous
<1> QED BY <1>1, <1>2, <1>3 DEF NamesOneContext

LEMMA InitGroundInv == GroundInit => GroundInv
BY DEF GroundInit, GroundInv, Reached, DocumentaryIsGrounded


\* The verdict of a documentary reply, by the status of its citations.
LEMMA PublishedIsGrounded ==
  ASSUME GroundInv, Publish
  PROVE  DocumentaryIsGrounded'
<1> DEFINE verified == {c \in reply.claims : Verified(c)}
           status == GroundingStatus(reply.verdict, reply.claims, verified)
<1> USE DEF Publish, Published, Failed, DocumentaryIsGrounded
<1>1. UNCHANGED <<validator, delivered, reply>>
  OBVIOUS
<1>2. ASSUME NEW c \in verified
      PROVE  NamesOneContext(c.id)
  BY <1>2, VerifiedNamesOne DEF GroundInv
<1>3. /\ status = "UNSUPPORTED" => Decisive(reply.verdict)
      /\ Decisive(reply.verdict) /\ status # "UNSUPPORTED" =>
           \E c \in verified : c.supports = (reply.verdict = "TRUE")
  BY DEF GroundingStatus, Support
<1>4. CASE ~ Parses
  BY <1>4
<1>5. CASE Parses /\ validator = "memory"
  BY <1>1, <1>5
<1>6. CASE Parses /\ validator = "search"
  BY <1>1, <1>6
<1>7. CASE Parses /\ validator = "rag"
  <2>1. judged' = Published("COMPLETED",
                            IF status = "UNSUPPORTED" THEN "UNKNOWN" ELSE reply.verdict,
                            verified, status)
    BY <1>7
  <2>2. /\ judged'.verdict = IF status = "UNSUPPORTED" THEN "UNKNOWN" ELSE reply.verdict
        /\ judged'.used = verified /\ judged'.validation = status
    BY <2>1
  <2>3. \A c \in judged'.used : NamesOneContext(c.id)'
    BY <1>1, <1>2, <2>2 DEF NamesOneContext
  <2>4. Decisive(judged'.verdict) =>
          \E c \in judged'.used : c.supports = (judged'.verdict = "TRUE")
    BY <1>3, <2>2 DEF Decisive
  <2>5. judged'.validation = "UNSUPPORTED" <=> judged'.verdict # reply'.verdict
    BY <1>1, <1>3, <2>2 DEF Decisive
  <2> QED BY <1>1, <2>2, <2>3, <2>4, <2>5 DEF NamesOneContext
<1> QED BY <1>4, <1>5, <1>6, <1>7

LEMMA NextGroundInv == GroundInv /\ [GroundNext]_groundVars => GroundInv'
<1> SUFFICES ASSUME GroundInv, [GroundNext]_groundVars
             PROVE  GroundInv'
  OBVIOUS
<1>1. CASE FetchFails
  BY <1>1 DEF FetchFails, Failed, Published, Reached, GroundInv, DocumentaryIsGrounded
<1>2. CASE Retrieve
  <2>1. delivered' \in Seq(Context)
    BY <1>2, GroundingAssumption DEF Retrieve
  <2> QED BY <1>2, <2>1 DEF Retrieve, Reached, GroundInv, DocumentaryIsGrounded
<1>3. CASE Abstain
  BY <1>3 DEF Abstain, Published, Reached, GroundInv, DocumentaryIsGrounded, Decisive
<1>4. CASE Ask
  BY <1>4 DEF Ask, Reply, Failed, Published, Reached, GroundInv, DocumentaryIsGrounded
<1>5. CASE Publish
  <2>1. judged'.at = "published"
    BY <1>5 DEF Publish, Published, Failed
  <2>2. UNCHANGED <<validator, delivered, reply>>
    BY <1>5 DEF Publish
  <2> QED BY <1>5, <2>1, <2>2, PublishedIsGrounded DEF GroundInv
<1>6. CASE UNCHANGED groundVars
  BY <1>6 DEF groundVars, GroundInv, DocumentaryIsGrounded
<1> QED BY <1>1, <1>2, <1>3, <1>4, <1>5, <1>6 DEF GroundNext

\* A documentary verdict never rests on a citation that is missing, ambiguous,
\* withheld or of the document itself, for any number of contexts and claims.
THEOREM GroundedTheorem == GroundSpec => []DocumentaryIsGrounded
<1>1. GroundInv => DocumentaryIsGrounded
  BY DEF GroundInv
<1> QED BY <1>1, InitGroundInv, NextGroundInv, PTL DEF GroundSpec

-----------------------------------------------------------------------------
(* The sources of a topic                                                  *)

\* Domains that were eligible for a topic when a provider had found them.
Founded(t, S, provider) ==
  S \subseteq Domain /\ \A d \in S : <<t, d, provider>> \in founded

\* A request under way, with all it has read.
IsBusy(j) ==
  j = [at |-> j.at, force |-> j.force, now |-> j.now, previous |-> j.previous,
       eligible |-> j.eligible, rejected |-> j.rejected, failed |-> j.failed,
       topics |-> j.topics, reused |-> j.reused]

UnderWay == {"discovering", "discovered", "classified", "profiling", "profiled", "saving", "ranking"}

\* What a request carries from one await to the next is still true.
BusyInv(r, j) ==
  /\ IsBusy(j) /\ j.at \in UnderWay /\ j.now \in 0..clock
  /\ j.failed \subseteq Domain
  /\ j.previous # NoRoute => /\ j.previous.provider = settings.provider
                             /\ Founded(TopicOf[r], j.previous.candidates, settings.provider)
  /\ Founded(TopicOf[r], j.eligible, settings.provider)
  /\ Founded(TopicOf[r], j.reused, settings.provider)
  /\ \A d \in j.eligible : accepted[d] >= j.now
  /\ \A d \in j.reused : accepted[d] + Refresh > j.now
  /\ j.reused # {} => j.failed # {}
  /\ j.at = "profiling" => j.topics \in [j.eligible -> SUBSET Topic]
  /\ j.at \in {"saving", "ranking"} => j.eligible # {} \/ j.reused # {}

JobInv(r) == resolves[r] \in {Waiting, Resolved} \/ BusyInv(r, resolves[r])

ServedInv(r) ==
  /\ Founded(TopicOf[r], served[r], settings.provider)
  /\ \A d \in served[r] : profileOf[d] # NoProfile_

RouteInv(t) ==
  route[t] # NoRoute =>
    /\ route[t].until \in Nat
    /\ Founded(t, route[t].candidates, route[t].provider)
    /\ \E d \in route[t].candidates : route[t].until < accepted[d] + Refresh + ShortRefresh

ProfileInv(d) ==
  profileOf[d] # NoProfile_ => profileOf[d] \in Profile /\ profileOf[d].verified <= accepted[d]

TypesInv ==
  /\ settings \in Settings /\ clock \in 0..LastTime
  /\ route = [t \in Topic |-> route[t]]
  /\ profileOf = [d \in Domain |-> profileOf[d]]
  /\ resolves = [r \in Resolve |-> resolves[r]]
  /\ served = [r \in Resolve |-> served[r]]
  /\ accepted \in [Domain -> Int] /\ \A d \in Domain : accepted[d] <= clock

RouterInv ==
  /\ TypesInv
  /\ \A t \in Topic : RouteInv(t)
  /\ \A d \in Domain : ProfileInv(d)
  /\ \A r \in Resolve : JobInv(r) /\ ServedInv(r)

LEMMA RouterInvImplies == RouterInv => RoutesAreFounded
BY DEF RouterInv, RouteInv, ProfileInv, ServedInv, Founded, RoutesAreFounded

LEMMA RouterBounds ==
  /\ Refresh \in Nat \ {0} /\ ShortRefresh \in Nat \ {0} /\ LastTime \in Nat
  /\ NoProfile_ \notin Profile
BY RouterAssumption

LEMMA InitRouterInv == RouterInit => RouterInv
<1> SUFFICES ASSUME RouterInit PROVE RouterInv
  OBVIOUS
<1> QED BY RouterBounds
        DEF RouterInit, RouterInv, TypesInv, RouteInv, ProfileInv, JobInv, ServedInv, Founded

-----------------------------------------------------------------------------
(* What stays true                                                         *)

\* Time passes, and classifications are added.
LaterOn ==
  /\ settings' = settings
  /\ clock' \in 0..LastTime /\ clock <= clock'
  /\ founded \subseteq founded'
  /\ accepted' \in [Domain -> Int]
  /\ \A d \in Domain : accepted[d] <= accepted'[d] /\ accepted'[d] <= clock'

LEMMA StaysFounded ==
  ASSUME LaterOn, NEW t, NEW S, NEW p, Founded(t, S, p)
  PROVE  Founded(t, S, p)'
BY DEF LaterOn, Founded

LEMMA JobStays ==
  ASSUME RouterInv, LaterOn, NEW r \in Resolve, resolves'[r] = resolves[r]
  PROVE  JobInv(r)'
<1>1. CASE resolves[r] \in {Waiting, Resolved}
  BY <1>1 DEF JobInv
<1>2. CASE BusyInv(r, resolves[r])
  <2> DEFINE j == resolves[r]
  <2>1. /\ j.now \in 0..clock /\ j.failed \subseteq Domain
        /\ j.eligible \subseteq Domain /\ j.reused \subseteq Domain
    BY <1>2 DEF BusyInv, Founded
  <2>2. j.now \in 0..clock'
    BY <2>1 DEF LaterOn, RouterInv, TypesInv
  <2>3. \A d \in j.eligible : accepted'[d] >= j.now
    BY <1>2, <2>1 DEF LaterOn, BusyInv, RouterInv, TypesInv
  <2>4. \A d \in j.reused : accepted'[d] + Refresh > j.now
    BY <1>2, <2>1, RouterBounds DEF LaterOn, BusyInv, RouterInv, TypesInv
  <2>5. /\ Founded(TopicOf[r], j.eligible, settings.provider)'
        /\ Founded(TopicOf[r], j.reused, settings.provider)'
        /\ j.previous # NoRoute => Founded(TopicOf[r], j.previous.candidates, settings.provider)'
    BY <1>2 DEF LaterOn, BusyInv, Founded
  <2> QED BY <1>2, <2>2, <2>3, <2>4, <2>5 DEF JobInv, BusyInv, LaterOn
<1> QED BY <1>1, <1>2 DEF RouterInv, JobInv

LEMMA ServedStays ==
  ASSUME RouterInv, LaterOn, NEW r \in Resolve, served'[r] = served[r],
         \A d \in Domain : profileOf[d] # NoProfile_ => profileOf'[d] # NoProfile_
  PROVE  ServedInv(r)'
BY DEF RouterInv, LaterOn, ServedInv, Founded

LEMMA RouteStays ==
  ASSUME RouterInv, LaterOn, NEW t \in Topic, route'[t] = route[t]
  PROVE  RouteInv(t)'
<1> SUFFICES ASSUME route[t] # NoRoute PROVE RouteInv(t)'
  BY DEF RouteInv
<1>1. RouteInv(t)
  BY DEF RouterInv
<1>2. /\ route[t].until \in Nat
      /\ Founded(t, route[t].candidates, route[t].provider)
  BY <1>1 DEF RouteInv
<1>3. PICK d \in route[t].candidates : route[t].until < accepted[d] + Refresh + ShortRefresh
  BY <1>1 DEF RouteInv
<1>4. d \in Domain
  BY <1>2 DEF Founded
<1>5. route[t].until < accepted'[d] + Refresh + ShortRefresh
  BY <1>2, <1>3, <1>4, RouterBounds DEF LaterOn, RouterInv, TypesInv
<1> QED BY <1>2, <1>3, <1>5 DEF RouteInv, Founded, LaterOn

LEMMA ProfileStays ==
  ASSUME RouterInv, LaterOn, NEW d \in Domain, profileOf'[d] = profileOf[d]
  PROVE  ProfileInv(d)'
<1>1. profileOf[d] # NoProfile_ => profileOf[d].verified \in Int
  BY RouterBounds DEF RouterInv, ProfileInv, Profile
<1> QED BY <1>1 DEF RouterInv, LaterOn, ProfileInv, TypesInv

\* A step of one request that leaves the database alone.
LEMMA RequestMoves ==
  ASSUME RouterInv, LaterOn, UNCHANGED database, NEW r \in Resolve,
         resolves' = [resolves EXCEPT ![r] = resolves'[r]], JobInv(r)',
         served' = [served EXCEPT ![r] = served'[r]], ServedInv(r)'
  PROVE  RouterInv'
<1>1. TypesInv'
  BY DEF RouterInv, TypesInv, LaterOn, database
<1>2. \A q \in Resolve : JobInv(q)' /\ ServedInv(q)'
  <2> TAKE q \in Resolve
  <2>1. CASE q = r
    BY <2>1
  <2>2. CASE q # r
    <3>1. resolves'[q] = resolves[q] /\ served'[q] = served[q]
      BY <2>2 DEF RouterInv, TypesInv
    <3> QED BY <3>1, JobStays, ServedStays DEF database
  <2> QED BY <2>1, <2>2
<1>3. \A t \in Topic : RouteInv(t)'
  BY RouteStays DEF database
<1>4. \A d \in Domain : ProfileInv(d)'
  BY ProfileStays DEF database
<1> QED BY <1>1, <1>2, <1>3, <1>4 DEF RouterInv

\* What a request answers with was eligible, if its candidates were.
LEMMA RankedIsFounded ==
  ASSUME NEW t, NEW known, NEW p,
         known # NoRoute => Founded(t, known.candidates, p)
  PROVE  /\ Founded(t, Ranked(known), p)
         /\ \A d \in Ranked(known) : profileOf[d] # NoProfile_
BY DEF Ranked, Founded

LEMMA Stutters ==
  ASSUME RouterInv, settings' = settings, UNCHANGED clock, UNCHANGED past
  PROVE  LaterOn
BY DEF RouterInv, TypesInv, LaterOn, past

\* A request that ends with an answer.
LEMMA AnswerKept ==
  ASSUME RouterInv, LaterOn, UNCHANGED database, NEW r \in Resolve,
         NEW known, known # NoRoute => Founded(TopicOf[r], known.candidates, settings.provider),
         Answer(r, Ranked(known))
  PROVE  RouterInv'
<1>1. resolves'[r] = Resolved /\ served'[r] = Ranked(known)
  BY DEF Answer, RouterInv, TypesInv
<1>2. ServedInv(r)'
  <2>1. Founded(TopicOf[r], Ranked(known), settings.provider)
    BY RankedIsFounded
  <2>2. \A d \in Ranked(known) : profileOf[d] # NoProfile_
    BY RankedIsFounded
  <2> QED BY <1>1, <2>1, <2>2 DEF ServedInv, LaterOn, database, Founded
<1>3. JobInv(r)'
  BY <1>1 DEF JobInv, Resolved
<1> QED BY <1>1, <1>2, <1>3, RequestMoves DEF Answer

\* A request that goes on.
LEMMA GoesOn ==
  ASSUME RouterInv, LaterOn, UNCHANGED database, NEW r \in Resolve, NEW j,
         resolves' = [resolves EXCEPT ![r] = j], BusyInv(r, j)', UNCHANGED served
  PROVE  RouterInv'
<1>1. resolves'[r] = j
  BY DEF RouterInv, TypesInv
<1>2. JobInv(r)'
  BY <1>1 DEF JobInv
<1>3. ServedInv(r)'
  BY ServedStays DEF database
<1>4. served' = [served EXCEPT ![r] = served'[r]]
  BY DEF RouterInv, TypesInv
<1> QED BY <1>1, <1>2, <1>3, <1>4, RequestMoves

LEMMA IsUnderWay ==
  ASSUME RouterInv, NEW r \in Resolve, resolves[r] \notin {Waiting, Resolved}
  PROVE  BusyInv(r, resolves[r])
BY DEF RouterInv, JobInv

LEMMA AtMeansUnderWay ==
  ASSUME RouterInv, NEW r \in Resolve, resolves[r].at \in UnderWay
  PROVE  BusyInv(r, resolves[r])
BY IsUnderWay DEF UnderWay, Waiting, Resolved

-----------------------------------------------------------------------------
(* The steps of a request                                                  *)

LEMMA StartStep == ASSUME RouterInv, NEW r \in Resolve, Start_(r) PROVE RouterInv'
<1>0. LaterOn /\ UNCHANGED database
  BY Stutters DEF Start_
<1>9. PICK force \in BOOLEAN : \E previous :
        /\ previous = IF ~ force /\ Usable(route[TopicOf[r]]) THEN route[TopicOf[r]] ELSE NoRoute
        /\ \/ Answer(r, Ranked(previous))
           \/ /\ resolves' = [resolves EXCEPT ![r] =
                   [at |-> "discovering", force |-> force, now |-> clock, previous |-> previous,
                    eligible |-> {}, rejected |-> {}, failed |-> {}, topics |-> << >>,
                    reused |-> {}]]
              /\ UNCHANGED served
  BY DEF Start_
<1>1. PICK previous :
        /\ previous = IF ~ force /\ Usable(route[TopicOf[r]]) THEN route[TopicOf[r]] ELSE NoRoute
        /\ \/ Answer(r, Ranked(previous))
           \/ /\ resolves' = [resolves EXCEPT ![r] =
                   [at |-> "discovering", force |-> force, now |-> clock, previous |-> previous,
                    eligible |-> {}, rejected |-> {}, failed |-> {}, topics |-> << >>,
                    reused |-> {}]]
              /\ UNCHANGED served
  BY <1>9
<1>2. previous # NoRoute =>
        /\ previous.provider = settings.provider
        /\ Founded(TopicOf[r], previous.candidates, settings.provider)
  BY <1>1 DEF RouterInv, RouteInv, Usable, Topic
<1>3. CASE Answer(r, Ranked(previous))
  BY <1>0, <1>2, <1>3, AnswerKept
<1>4. CASE ~ Answer(r, Ranked(previous))
  <2>1. PICK j :
          j = [at |-> "discovering", force |-> force, now |-> clock, previous |-> previous,
               eligible |-> {}, rejected |-> {}, failed |-> {}, topics |-> << >>, reused |-> {}]
    OBVIOUS
  <2>2. clock \in 0..clock /\ UNCHANGED <<founded, accepted, settings, clock>>
    BY RouterBounds DEF RouterInv, TypesInv, Start_, past
  <2>3. BusyInv(r, j)'
    BY <2>1, <2>2, <1>2 DEF BusyInv, IsBusy, UnderWay, Founded
  <2> QED BY <1>0, <1>1, <1>4, <2>1, <2>3, GoesOn
<1> QED BY <1>3, <1>4

LEMMA ClassifyStep ==
  ASSUME RouterInv, NEW r \in Resolve, resolves[r].at \in {"discovering", "discovered"},
         NEW at \in {"discovered", "classified"}, NEW fresh \in SUBSET Domain,
         Classify(r, at, fresh),
         UNCHANGED <<settings, database, served, clock, redeploys>>
  PROVE  RouterInv'
<1>0. PICK eligible \in SUBSET fresh : \E failed \in SUBSET (fresh \ eligible) :
        /\ resolves' = [resolves EXCEPT
             ![r].at = at, ![r].eligible = eligible,
             ![r].rejected = @ \cup (fresh \ (eligible \cup failed)),
             ![r].failed = @ \cup failed]
        /\ founded' = founded \cup {<<TopicOf[r], d, settings.provider>> : d \in eligible}
        /\ accepted' = [d \in Domain |-> IF d \in eligible THEN clock ELSE accepted[d]]
  BY DEF Classify
<1>1. PICK failed \in SUBSET (fresh \ eligible) :
        /\ resolves' = [resolves EXCEPT
             ![r].at = at, ![r].eligible = eligible,
             ![r].rejected = @ \cup (fresh \ (eligible \cup failed)),
             ![r].failed = @ \cup failed]
        /\ founded' = founded \cup {<<TopicOf[r], d, settings.provider>> : d \in eligible}
        /\ accepted' = [d \in Domain |-> IF d \in eligible THEN clock ELSE accepted[d]]
  BY <1>0
<1>2. BusyInv(r, resolves[r])
  BY AtMeansUnderWay DEF UnderWay
<1>3. LaterOn
  BY <1>1, RouterBounds DEF LaterOn, RouterInv, TypesInv
<1>4. PICK i : i = resolves[r]
  OBVIOUS
<1>5. PICK j : j = [i EXCEPT !.at = at, !.eligible = eligible,
                             !.rejected = @ \cup (fresh \ (eligible \cup failed)),
                             !.failed = @ \cup failed]
  OBVIOUS
<1>6. resolves' = [resolves EXCEPT ![r] = j]
  BY <1>1, <1>4, <1>5
<1>7. IsBusy(i)
  BY <1>2, <1>4 DEF BusyInv
<1>8. /\ j.at = at /\ j.eligible = eligible /\ j.failed = i.failed \cup failed
      /\ j.now = i.now /\ j.previous = i.previous
      /\ j.reused = i.reused /\ IsBusy(j)
  BY <1>5, <1>7 DEF IsBusy
<1>9. i.now \in 0..clock /\ i.failed \subseteq Domain
  BY <1>2, <1>4 DEF BusyInv
<1>10. \A d \in j.eligible : accepted'[d] >= j.now
  BY <1>1, <1>8, <1>9, RouterBounds DEF RouterInv, TypesInv
<1>11. \A d \in j.reused : accepted'[d] + Refresh > j.now
  <2> TAKE d \in j.reused
  <2>1. d \in Domain /\ accepted[d] + Refresh > j.now
    BY <1>2, <1>4, <1>8 DEF BusyInv, Founded
  <2> QED BY <2>1, <1>3, <1>8, <1>9, RouterBounds DEF LaterOn, RouterInv, TypesInv
<1>12. Founded(TopicOf[r], j.eligible, settings.provider)'
  BY <1>1, <1>3, <1>8 DEF Founded, LaterOn
<1>13. /\ Founded(TopicOf[r], j.reused, settings.provider)'
       /\ j.previous # NoRoute => /\ j.previous.provider = settings'.provider
                                  /\ Founded(TopicOf[r], j.previous.candidates, settings.provider)'
  BY <1>2, <1>3, <1>4, <1>8 DEF Founded, BusyInv, LaterOn
<1>14. j.at \in UnderWay /\ j.at \notin {"profiling", "saving", "ranking"}
  BY <1>8 DEF UnderWay
<1>15. j.now \in 0..clock' /\ j.failed \subseteq Domain /\ (j.reused # {} => j.failed # {})
  BY <1>2, <1>4, <1>8, <1>9 DEF BusyInv
<1>16. BusyInv(r, j)'
  BY <1>8, <1>10, <1>11, <1>12, <1>13, <1>14, <1>15 DEF BusyInv
<1> QED BY <1>3, <1>6, <1>16, GoesOn

LEMMA DiscoverSteps ==
  ASSUME RouterInv, NEW r \in Resolve, Discover(r) \/ DiscoverMore(r)
  PROVE  RouterInv'
<1>1. CASE Discover(r)
  BY <1>1, ClassifyStep DEF Discover
<1>2. CASE DiscoverMore(r)
  <2>1. PICK found \in SUBSET (Domain \ (resolves[r].rejected \cup resolves[r].failed)) :
          Classify(r, "classified", found)
    BY <1>2 DEF DiscoverMore
  <2> QED BY <1>2, <2>1, ClassifyStep DEF DiscoverMore
<1> QED BY <1>1, <1>2

LEMMA ReadProfilesStep ==
  ASSUME RouterInv, NEW r \in Resolve, ReadProfiles(r)
  PROVE  RouterInv'
<1>0. LaterOn /\ UNCHANGED database
  BY Stutters DEF ReadProfiles
<1>1. BusyInv(r, resolves[r])
  BY AtMeansUnderWay DEF ReadProfiles, UnderWay
<1>2. PICK i : i = resolves[r]
  OBVIOUS
<1>3. PICK named \in [i.eligible -> SUBSET Topic] :
        resolves' = [resolves EXCEPT ![r].at = "profiling", ![r].rejected = {},
          ![r].topics = [d \in i.eligible |->
            named[d] \cup (IF profileOf[d] = NoProfile_ THEN {} ELSE profileOf[d].topics)]]
  BY <1>2 DEF ReadProfiles
<1>4. PICK topics : topics = [d \in i.eligible |->
            named[d] \cup (IF profileOf[d] = NoProfile_ THEN {} ELSE profileOf[d].topics)]
  OBVIOUS
<1>5. topics \in [i.eligible -> SUBSET Topic]
  <2>1. ASSUME NEW d \in i.eligible, profileOf[d] # NoProfile_ PROVE profileOf[d].topics \in SUBSET Topic
    BY <1>1, <1>2, <2>1 DEF BusyInv, Founded, RouterInv, ProfileInv, Profile
  <2> QED BY <1>4, <2>1
<1>6. PICK j : j = [i EXCEPT !.at = "profiling", !.rejected = {}, !.topics = topics]
  OBVIOUS
<1>7. resolves' = [resolves EXCEPT ![r] = j]
  BY <1>2, <1>3, <1>4, <1>6
<1>8. /\ IsBusy(j) /\ j.at = "profiling" /\ j.topics = topics
      /\ j.eligible = i.eligible /\ j.failed = i.failed /\ j.now = i.now
      /\ j.previous = i.previous /\ j.reused = i.reused
  BY <1>1, <1>2, <1>6 DEF BusyInv, IsBusy
<1>9. UNCHANGED <<settings, clock, founded, accepted>>
  BY DEF ReadProfiles, past
<1>10. BusyInv(r, j)'
  BY <1>1, <1>2, <1>5, <1>8, <1>9 DEF BusyInv, UnderWay, Founded
<1> QED BY <1>0, <1>7, <1>10, GoesOn DEF ReadProfiles

LEMMA SaveProfilesStep ==
  ASSUME RouterInv, NEW r \in Resolve, SaveProfiles(r)
  PROVE  RouterInv'
<1>0. LaterOn
  BY Stutters DEF SaveProfiles
<1>1. BusyInv(r, resolves[r])
  BY AtMeansUnderWay DEF SaveProfiles, UnderWay
<1>2. PICK i : i = resolves[r]
  OBVIOUS
<1>3. PICK j : j = [i EXCEPT !.at = "profiled", !.topics = << >>]
  OBVIOUS
<1>4. resolves' = [resolves EXCEPT ![r] = j]
  BY <1>2, <1>3 DEF SaveProfiles
<1>5. /\ IsBusy(j) /\ j.at = "profiled"
      /\ j.eligible = i.eligible /\ j.failed = i.failed /\ j.now = i.now
      /\ j.previous = i.previous /\ j.reused = i.reused
  BY <1>1, <1>2, <1>3 DEF BusyInv, IsBusy
<1>6. UNCHANGED <<settings, clock, founded, accepted, route, served>>
  BY DEF SaveProfiles, past
<1>7. BusyInv(r, j)'
  BY <1>1, <1>2, <1>5, <1>6 DEF BusyInv, UnderWay, Founded
<1>8. ASSUME NEW d \in Domain, d \in i.eligible
      PROVE  profileOf'[d] \in Profile /\ profileOf'[d].verified <= accepted[d]
  <2>1. i.topics[d] \in SUBSET Topic /\ i.now \in 0..clock /\ accepted[d] >= i.now
    BY <1>1, <1>2, <1>8 DEF BusyInv, SaveProfiles
  <2>2. profileOf'[d] = [topics |-> i.topics[d], verified |-> i.now, version |-> settings.version]
    BY <1>2, <1>8 DEF SaveProfiles
  <2>3. i.now \in 0..LastTime /\ settings \in Settings
    BY <2>1, RouterBounds DEF RouterInv, TypesInv
  <2> QED BY <2>1, <2>2, <2>3 DEF Profile
<1>9. ASSUME NEW d \in Domain, d \notin i.eligible
      PROVE  profileOf'[d] = profileOf[d]
  BY <1>2, <1>9 DEF SaveProfiles
<1>10. \A d \in Domain : ProfileInv(d)'
  BY <1>0, <1>6, <1>8, <1>9, ProfileStays DEF ProfileInv
<1>11. \A d \in Domain : profileOf[d] # NoProfile_ => profileOf'[d] # NoProfile_
  BY <1>8, <1>9, RouterBounds
<1>12. \A q \in Resolve : JobInv(q)' /\ ServedInv(q)'
  <2> TAKE q \in Resolve
  <2>1. ServedInv(q)'
    BY <1>0, <1>6, <1>11, ServedStays
  <2>2. CASE q = r
    BY <1>4, <1>7, <2>1, <2>2 DEF JobInv, RouterInv, TypesInv
  <2>3. CASE q # r
    <3>1. resolves'[q] = resolves[q]
      BY <1>4, <2>3 DEF RouterInv, TypesInv
    <3> QED BY <1>0, <2>1, <3>1, JobStays
  <2> QED BY <2>2, <2>3
<1>13. \A t \in Topic : RouteInv(t)'
  BY <1>0, <1>6, RouteStays
<1>14. TypesInv'
  BY <1>4, <1>6 DEF SaveProfiles, RouterInv, TypesInv
<1> QED BY <1>10, <1>12, <1>13, <1>14 DEF RouterInv

LEMMA ReuseStep ==
  ASSUME RouterInv, NEW r \in Resolve, Reuse(r)
  PROVE  RouterInv'
<1>1. BusyInv(r, resolves[r])
  BY AtMeansUnderWay DEF Reuse, UnderWay
<1>2. PICK i : i = resolves[r]
  OBVIOUS
<1>3. PICK reused \in SUBSET {d \in i.failed : ~ i.force /\ Recent(r, d)} :
        /\ founded' = founded \cup {<<TopicOf[r], d, settings.provider>> : d \in reused}
        /\ IF i.eligible \cup reused = {}
             THEN Answer(r, Ranked(i.previous))
             ELSE /\ resolves' = [resolves EXCEPT ![r].at = "saving", ![r].reused = reused]
                  /\ UNCHANGED served
  BY <1>2 DEF Reuse
<1>4. UNCHANGED <<settings, database, clock, accepted>>
  BY DEF Reuse
<1>5. LaterOn
  BY <1>3, <1>4 DEF LaterOn, RouterInv, TypesInv
<1>6. CASE i.eligible \cup reused = {}
  <2>1. i.previous # NoRoute => Founded(TopicOf[r], i.previous.candidates, settings.provider)
    BY <1>1, <1>2 DEF BusyInv
  <2> QED BY <1>3, <1>4, <1>5, <1>6, <2>1, AnswerKept
<1>7. CASE i.eligible \cup reused # {}
  <2>1. PICK j : j = [i EXCEPT !.at = "saving", !.reused = reused]
    OBVIOUS
  <2>2. resolves' = [resolves EXCEPT ![r] = j]
    BY <1>2, <1>3, <1>7, <2>1
  <2>3. /\ IsBusy(j) /\ j.at = "saving"
        /\ j.eligible = i.eligible /\ j.failed = i.failed /\ j.now = i.now
        /\ j.previous = i.previous /\ j.reused = reused
    BY <1>1, <1>2, <2>1 DEF BusyInv, IsBusy
  <2>4. \A d \in reused : d \in Domain /\ accepted'[d] + Refresh > i.now
    <3> TAKE d \in reused
    <3>1. d \in Domain /\ Recent(r, d)
      BY <1>1, <1>2, <1>3 DEF BusyInv
    <3>2. profileOf[d] \in Profile /\ profileOf[d].verified <= accepted[d]
      BY <3>1 DEF Recent, RouterInv, ProfileInv
    <3>3. profileOf[d].verified + Refresh > i.now
      BY <3>1, <1>2 DEF Recent
    <3>4. accepted[d] \in Int /\ profileOf[d].verified \in Int /\ i.now \in 0..clock
      BY <1>1, <1>2, <3>1, <3>2, RouterBounds DEF RouterInv, TypesInv, Profile, BusyInv
    <3> QED BY <1>4, <3>1, <3>2, <3>3, <3>4, RouterBounds DEF RouterInv, TypesInv
  <2>5. /\ Founded(TopicOf[r], j.reused, settings.provider)'
        /\ Founded(TopicOf[r], j.eligible, settings.provider)'
        /\ j.previous # NoRoute => /\ j.previous.provider = settings'.provider
                                   /\ Founded(TopicOf[r], j.previous.candidates, settings.provider)'
    BY <1>1, <1>2, <1>3, <1>4, <2>3, <2>4 DEF BusyInv, Founded
  <2>6. j.reused # {} => j.failed # {}
    BY <1>3, <2>3
  <2>7. \A d \in j.eligible : accepted'[d] >= j.now
    BY <1>1, <1>2, <1>4, <2>3 DEF BusyInv
  <2>8. BusyInv(r, j)'
    BY <1>1, <1>2, <1>4, <1>7, <2>3, <2>4, <2>5, <2>6, <2>7 DEF BusyInv, UnderWay
  <2> QED BY <1>3, <1>4, <1>5, <1>7, <2>2, <2>8, GoesOn
<1> QED BY <1>6, <1>7

\* Some domain of the route was accepted late enough for its refresh date.
LEMMA SaveRouteStep ==
  ASSUME RouterInv, NEW r \in Resolve, SaveRoute(r)
  PROVE  RouterInv'
<1>0. LaterOn
  BY Stutters DEF SaveRoute
<1>1. BusyInv(r, resolves[r])
  BY AtMeansUnderWay DEF SaveRoute, UnderWay
<1>2. PICK i : i = resolves[r]
  OBVIOUS
<1>3. PICK j : j = [i EXCEPT !.at = "ranking"]
  OBVIOUS
<1>4. resolves' = [resolves EXCEPT ![r] = j]
  BY <1>2, <1>3 DEF SaveRoute
<1>5. /\ IsBusy(j) /\ j.at = "ranking"
      /\ j.eligible = i.eligible /\ j.failed = i.failed /\ j.now = i.now
      /\ j.previous = i.previous /\ j.reused = i.reused
  BY <1>1, <1>2, <1>3 DEF BusyInv, IsBusy
<1>6. UNCHANGED <<settings, clock, founded, accepted, profileOf, served>>
  BY DEF SaveRoute, past
<1>7. BusyInv(r, j)'
  BY <1>1, <1>2, <1>5, <1>6 DEF BusyInv, UnderWay, Founded, SaveRoute
<1>8. PICK new :
        /\ new = [candidates |-> i.eligible \cup i.reused
                    \cup (IF i.previous = NoRoute THEN {} ELSE i.previous.candidates),
                  provider |-> settings.provider,
                  version |-> settings.version, until |-> i.now + FreshFor(r)]
        /\ route' = [route EXCEPT ![TopicOf[r]] = new]
  BY <1>2 DEF SaveRoute
<1>9. Founded(TopicOf[r], new.candidates, new.provider)
  BY <1>1, <1>2, <1>8 DEF BusyInv, Founded
<1>10. FreshFor(r) \in Nat /\ FreshFor(r) <= Refresh /\ (i.failed # {} => FreshFor(r) <= ShortRefresh)
  BY <1>2, RouterBounds DEF FreshFor, Min_
<1>11. i.now \in Nat
  BY <1>1, <1>2, RouterBounds DEF BusyInv, RouterInv, TypesInv
<1>12. new.until \in Nat /\ \E d \in new.candidates : new.until < accepted[d] + Refresh + ShortRefresh
  <2>1. CASE i.eligible # {}
    <3>1. PICK d \in i.eligible : TRUE
      BY <2>1
    <3>2. d \in new.candidates /\ d \in Domain /\ accepted[d] >= i.now /\ accepted[d] \in Int
      BY <1>1, <1>2, <1>8 DEF BusyInv, Founded, RouterInv, TypesInv
    <3>3. new.until \in Nat /\ new.until < accepted[d] + Refresh + ShortRefresh
      BY <1>8, <1>10, <1>11, <3>2, RouterBounds
    <3> QED BY <3>2, <3>3
  <2>2. CASE i.eligible = {}
    <3>1. i.reused # {} /\ i.failed # {}
      BY <1>1, <1>2, <2>2 DEF BusyInv, SaveRoute
    <3>2. PICK d \in i.reused : TRUE
      BY <3>1
    <3>3. d \in new.candidates /\ d \in Domain /\ accepted[d] + Refresh > i.now /\ accepted[d] \in Int
      BY <1>1, <1>2, <1>8 DEF BusyInv, Founded, RouterInv, TypesInv
    <3>4. new.until \in Nat /\ new.until < accepted[d] + Refresh + ShortRefresh
      BY <1>8, <1>10, <1>11, <3>1, <3>3, RouterBounds
    <3> QED BY <3>3, <3>4
  <2> QED BY <2>1, <2>2
<1>13. \A t \in Topic : RouteInv(t)'
  <2> TAKE t \in Topic
  <2>1. CASE t = TopicOf[r]
    <3>1. route'[t] = new
      BY <1>8, <2>1 DEF RouterInv, TypesInv
    <3> QED BY <1>6, <1>9, <1>12, <2>1, <3>1 DEF RouteInv, Founded
  <2>2. CASE t # TopicOf[r]
    <3>1. route'[t] = route[t]
      BY <1>8, <2>2 DEF RouterInv, TypesInv
    <3> QED BY <1>0, <3>1, RouteStays
  <2> QED BY <2>1, <2>2
<1>14. \A q \in Resolve : JobInv(q)' /\ ServedInv(q)'
  <2> TAKE q \in Resolve
  <2>1. ServedInv(q)'
    BY <1>0, <1>6, ServedStays
  <2>2. CASE q = r
    BY <1>4, <1>7, <2>1, <2>2 DEF JobInv, RouterInv, TypesInv
  <2>3. CASE q # r
    <3>1. resolves'[q] = resolves[q]
      BY <1>4, <2>3 DEF RouterInv, TypesInv
    <3> QED BY <1>0, <2>1, <3>1, JobStays
  <2> QED BY <2>2, <2>3
<1>15. \A d \in Domain : ProfileInv(d)'
  BY <1>0, <1>6, ProfileStays
<1>16. TypesInv'
  BY <1>4, <1>6, <1>8 DEF RouterInv, TypesInv
<1> QED BY <1>13, <1>14, <1>15, <1>16 DEF RouterInv

LEMMA RankStep ==
  ASSUME RouterInv, NEW r \in Resolve, Rank(r)
  PROVE  RouterInv'
<1>0. LaterOn /\ UNCHANGED database
  BY Stutters DEF Rank
<1>1. BusyInv(r, resolves[r])
  BY AtMeansUnderWay DEF Rank, UnderWay
<1>2. PICK known :
        known = [candidates |-> resolves[r].eligible \cup resolves[r].reused
                   \cup (IF resolves[r].previous = NoRoute THEN {}
                         ELSE resolves[r].previous.candidates)]
  OBVIOUS
<1>3. Founded(TopicOf[r], known.candidates, settings.provider)
  BY <1>1, <1>2 DEF BusyInv, Founded
<1>4. Answer(r, Ranked(known))
  BY <1>2 DEF Rank
<1> QED BY <1>0, <1>3, <1>4, AnswerKept

LEMMA FailsStep ==
  ASSUME RouterInv, NEW r \in Resolve, Fails(r)
  PROVE  RouterInv'
<1>0. LaterOn /\ UNCHANGED database
  BY Stutters DEF Fails
<1>1. BusyInv(r, resolves[r])
  BY IsUnderWay DEF Fails
<1>2. PICK known : known = resolves[r].previous
  OBVIOUS
<1>3. known # NoRoute => Founded(TopicOf[r], known.candidates, settings.provider)
  BY <1>1, <1>2 DEF BusyInv
<1>4. Answer(r, Ranked(known))
  BY <1>2 DEF Fails
<1> QED BY <1>0, <1>3, <1>4, AnswerKept

-----------------------------------------------------------------------------
(* The theorem                                                             *)

\* A request under way is lost, an answer forgotten; the database stays.
LEMMA RedeployStep == ASSUME RouterInv, Redeploy PROVE RouterInv'
<1>1. UNCHANGED <<route, profileOf, clock, founded, accepted>> /\ settings' \in Settings
  BY DEF Redeploy, database, past
<1>2. \A r \in Resolve : resolves'[r] \in {Waiting, Resolved} /\ served'[r] = {}
  BY DEF Redeploy
<1>3. TypesInv'
  BY <1>1 DEF Redeploy, RouterInv, TypesInv
<1>4. \A r \in Resolve : JobInv(r)' /\ ServedInv(r)'
  BY <1>2 DEF JobInv, ServedInv, Founded
<1>5. (\A t \in Topic : RouteInv(t))' /\ (\A d \in Domain : ProfileInv(d))'
  BY <1>1 DEF RouterInv, RouteInv, ProfileInv, Founded
<1> QED BY <1>3, <1>4, <1>5 DEF RouterInv

LEMMA NothingMoves ==
  ASSUME RouterInv, LaterOn, UNCHANGED <<database, resolves, served>>
  PROVE  RouterInv'
<1>1. TypesInv'
  BY DEF RouterInv, TypesInv, LaterOn, database
<1>2. \A r \in Resolve : JobInv(r)' /\ ServedInv(r)'
  BY JobStays, ServedStays DEF database
<1>3. (\A t \in Topic : RouteInv(t))' /\ (\A d \in Domain : ProfileInv(d))'
  <2>1. \A t \in Topic : RouteInv(t)'
    BY RouteStays DEF database
  <2>2. \A d \in Domain : ProfileInv(d)'
    BY ProfileStays DEF database
  <2>3. UNCHANGED <<Topic, Domain>>
    BY DEF Topic
  <2> QED BY <2>1, <2>2, <2>3
<1> QED BY <1>1, <1>2, <1>3 DEF RouterInv

LEMMA NextRouterInv == RouterInv /\ [RouterNext]_routerVars => RouterInv'
<1> SUFFICES ASSUME RouterInv, [RouterNext]_routerVars
             PROVE  RouterInv'
  OBVIOUS
<1>1. ASSUME NEW r \in Resolve,
             \/ Start_(r) \/ Discover(r) \/ DiscoverMore(r) \/ ReadProfiles(r)
             \/ SaveProfiles(r) \/ Reuse(r) \/ SaveRoute(r) \/ Rank(r) \/ Fails(r)
      PROVE  RouterInv'
  BY <1>1, StartStep, DiscoverSteps, ReadProfilesStep, SaveProfilesStep, ReuseStep,
     SaveRouteStep, RankStep, FailsStep
<1>2. CASE Redeploy
  BY <1>2, RedeployStep
<1>3. CASE Tick_
  <2>1. LaterOn
    BY <1>3, RouterBounds DEF Tick_, LaterOn, RouterInv, TypesInv, past
  <2> QED BY <1>3, <2>1, NothingMoves DEF Tick_
<1>4. CASE UNCHANGED routerVars
  <2>1. LaterOn
    BY <1>4, Stutters DEF routerVars
  <2> QED BY <1>4, <2>1, NothingMoves DEF routerVars
<1> QED BY <1>1, <1>2, <1>3, <1>4 DEF RouterNext

\* Whatever requests share, lose and overwrite, and however often the service is
\* deployed anew, routes and answers rest on classifications of their topic.
THEOREM RoutesTheorem == RouterSpec => []RoutesAreFounded
BY InitRouterInv, NextRouterInv, RouterInvImplies, PTL DEF RouterSpec

-----------------------------------------------------------------------------
(* Sequences of candidates                                                 *)

\* Those(s, I) takes the positions I by their rank, so it takes each once.
LEMMA ThoseAreAll ==
  ASSUME NEW s, NEW I \in SUBSET Nat, IsFiniteSet(I)
  PROVE  Enumerates(Those(s, I), s, I)
<1> DEFINE R == {p \in I \X I : p[1] < p[2]}
           n == Cardinality(I)
           at == [k \in 1..n |-> CHOOSE i \in I : Cardinality({j \in I : j < i}) = k - 1]
<1>1. n \in Nat
  BY FS_CardinalityType
<1>2. OrdersStrictly(R, I)
  <2>1. \A i, j \in I : <<i, j>> \in R <=> i < j
    OBVIOUS
  <2> HIDE DEF R
  <2> QED BY <2>1 DEF OrdersStrictly
<1>3. \A i \in I : RankIn(R, I, i) = Cardinality({j \in I : j < i})
  <2> SUFFICES ASSUME NEW i \in I PROVE {j \in I : <<j, i>> \in R} = {j \in I : j < i}
    BY DEF RankIn
  <2> QED OBVIOUS
<1>4. IsRanked(R, I)
  <2> HIDE DEF R
  <2> QED BY <1>2, StrictOrderRanks
<1>5. ASSUME NEW k \in 1..n PROVE at[k] \in I /\ RankIn(R, I, at[k]) = k - 1
  <2>1. k - 1 \in 0..(n - 1)
    BY <1>1
  <2>2. \E i \in I : Cardinality({j \in I : j < i}) = k - 1
    <3> HIDE DEF R, n
    <3>1. PICK i \in I : RankIn(R, I, i) = k - 1
      BY <1>4, <2>1 DEF IsRanked, n
    <3> QED BY <1>3, <3>1
  <2>3. at[k] \in I /\ Cardinality({j \in I : j < at[k]}) = k - 1
    BY <2>2
  <2> HIDE DEF R, at
  <2> QED BY <1>3, <2>3
<1>6. Those(s, I) = Listed(s, at, n)
  <2>1. Those(s, I) = [k \in 1..n |-> s[CHOOSE i \in I : Cardinality({j \in I : j < i}) = k - 1]]
    BY Zenon DEF Those, InOrder
  <2>2. Listed(s, at, n) = [k \in 1..n |-> s[at[k]]]
    BY DEF Listed
  <2>3. \A k \in 1..n : at[k] = CHOOSE i \in I : Cardinality({j \in I : j < i}) = k - 1
    OBVIOUS
  <2> HIDE DEF at
  <2> QED BY <2>1, <2>2, <2>3, Zenon
<1>7. at \in [1..n -> I]
  BY <1>5
<1> HIDE DEF R, at
<1> QED BY <1>4, <1>5, <1>6, <1>7, RankedEnumerate

\* So it is a sequence of what s holds there.
LEMMA ThoseOfSequence ==
  ASSUME NEW X, NEW s \in Seq(X), NEW I \in SUBSET DOMAIN s
  PROVE  /\ Those(s, I) \in Seq(X) /\ Len(Those(s, I)) = Cardinality(I)
         /\ IsFiniteSet(I) /\ Cardinality(I) \in Nat /\ Cardinality(I) <= Len(s)
         /\ ToSet(Those(s, I)) = {s[i] : i \in I}
         /\ (\A i, j \in I : s[i] = s[j] => i = j) => IsInjective(Those(s, I))
<1>1. DOMAIN s = 1..Len(s) /\ Len(s) \in Nat /\ I \subseteq Nat
  OBVIOUS
<1>2. IsFiniteSet(I)
  <2>1. PICK m \in Nat : m = Len(s)
    BY <1>1
  <2>2. I \in SUBSET Nat /\ \A i \in I : i <= m
    BY <1>1, <2>1
  <2> QED BY <2>2, FS_BoundedSetOfNaturals
<1>3. Enumerates(Those(s, I), s, I)
  BY <1>1, <1>2, ThoseAreAll
<1> QED BY <1>2, <1>3, EnumeratedSequence DEF IsInjective

\* What Without and Within keep.
LEMMA WithoutFacts ==
  ASSUME NEW X, NEW s \in Seq(X), NEW S
  PROVE  /\ Without(s, S) \in Seq(X) /\ Len(Without(s, S)) <= Len(s)
         /\ ToSet(Without(s, S)) = ToSet(s) \ S
         /\ IsInjective(s) => IsInjective(Without(s, S))
<1> DEFINE I == {i \in DOMAIN s : s[i] \notin S}
<1>1. I \in SUBSET DOMAIN s
  OBVIOUS
<1>2. {s[i] : i \in I} = ToSet(s) \ S
  BY DEF ToSet
<1>3. IsInjective(s) => \A i, j \in I : s[i] = s[j] => i = j
  BY DEF IsInjective
<1>4. Without(s, S) = Those(s, I)
  BY DEF Without
<1> HIDE DEF I
<1> QED BY <1>1, <1>2, <1>3, <1>4, ThoseOfSequence

\* The counterpart.
LEMMA WithinFacts ==
  ASSUME NEW X, NEW s \in Seq(X), NEW S
  PROVE  /\ Within(s, S) \in Seq(X) /\ Len(Within(s, S)) <= Len(s)
         /\ ToSet(Within(s, S)) = ToSet(s) \cap S
         /\ IsInjective(s) => IsInjective(Within(s, S))
<1> DEFINE I == {i \in DOMAIN s : s[i] \in S}
<1>1. I \in SUBSET DOMAIN s
  OBVIOUS
<1>2. {s[i] : i \in I} = ToSet(s) \cap S
  BY DEF ToSet
<1>3. IsInjective(s) => \A i, j \in I : s[i] = s[j] => i = j
  BY DEF IsInjective
<1>4. Within(s, S) = Those(s, I)
  BY DEF Within
<1> HIDE DEF I
<1> QED BY <1>1, <1>2, <1>3, <1>4, ThoseOfSequence

\* Every element has a first occurrence.
LEMMA DistinctFacts ==
  ASSUME NEW X, NEW s \in Seq(X)
  PROVE  /\ Distinct(s) \in Seq(X) /\ IsInjective(Distinct(s))
         /\ ToSet(Distinct(s)) = ToSet(s)
<1> DEFINE I == {i \in DOMAIN s : \A j \in 1..i - 1 : s[j] # s[i]}
<1>1. DOMAIN s = 1..Len(s) /\ Len(s) \in Nat
  OBVIOUS
<1>2. I \in SUBSET DOMAIN s
  OBVIOUS
<1>3. ASSUME NEW i \in DOMAIN s PROVE \E j \in I : s[j] = s[i]
  <2> DEFINE T == {j \in DOMAIN s : s[j] = s[i]}
  <2>1. T \in SUBSET Nat /\ T # {}
    BY <1>1
  <2>2. PICK j \in T : \A k \in T : j <= k
    <3> HIDE DEF T
    <3> QED BY <2>1, LeastNatural
  <2>3. \A k \in 1..j - 1 : k \in DOMAIN s /\ ~ (j <= k)
    BY <1>1
  <2>4. \A k \in 1..j - 1 : s[k] # s[j]
    BY <2>2, <2>3
  <2>5. j \in I /\ s[j] = s[i]
    BY <2>4
  <2> QED BY <2>5
<1>4. {s[i] : i \in I} = ToSet(s)
  <2>1. ToSet(s) \subseteq {s[i] : i \in I}
    <3> HIDE DEF I
    <3> QED BY <1>3 DEF ToSet
  <2>2. {s[i] : i \in I} \subseteq ToSet(s)
    BY DEF ToSet
  <2> QED BY <2>1, <2>2
<1>5. \A i, j \in I : s[i] = s[j] => i = j
  <2> SUFFICES ASSUME NEW i \in I, NEW j \in I, s[i] = s[j], i < j PROVE FALSE
    BY <1>1
  <2>1. i \in 1..j - 1
    BY <1>1
  <2> QED BY <2>1
<1>6. Distinct(s) = Those(s, I)
  BY DEF Distinct
<1> HIDE DEF I
<1>7. /\ Those(s, I) \in Seq(X) /\ ToSet(Those(s, I)) = {s[i] : i \in I}
      /\ IsInjective(Those(s, I))
  BY <1>2, <1>5, ThoseOfSequence
<1> QED BY <1>4, <1>6, <1>7

\* A cut sequence is a prefix.
LEMMA CutFacts ==
  ASSUME NEW X, NEW s \in Seq(X), NEW n \in Nat
  PROVE  /\ Cut(s, n) \in Seq(X)
         /\ Len(Cut(s, n)) = Least(Len(s), n) /\ Len(Cut(s, n)) \in Nat
         /\ Len(Cut(s, n)) <= n /\ Len(Cut(s, n)) <= Len(s)
         /\ DOMAIN Cut(s, n) \subseteq DOMAIN s
         /\ \A k \in DOMAIN Cut(s, n) : Cut(s, n)[k] = s[k]
         /\ ToSet(Cut(s, n)) \subseteq ToSet(s)
         /\ IsInjective(s) => IsInjective(Cut(s, n))
<1> DEFINE m == IF Len(s) < n THEN Len(s) ELSE n
<1>1. m \in 0..Len(s) /\ m <= n /\ m = Least(Len(s), n) /\ m \in Nat
  BY DEF Least
<1>2. Cut(s, n) = SubSeq(s, 1, m)
  BY DEF Cut
<1> HIDE DEF m
<1>3. /\ Cut(s, n) \in Seq(X) /\ Len(Cut(s, n)) = m /\ DOMAIN Cut(s, n) = 1..m
      /\ \A k \in 1..m : Cut(s, n)[k] = s[k]
  BY <1>1, <1>2
<1>4. DOMAIN s = 1..Len(s) /\ DOMAIN Cut(s, n) \subseteq DOMAIN s
  BY <1>1, <1>3
<1> QED BY <1>1, <1>3, <1>4 DEF ToSet, IsInjective

\* Merged candidates are of either list, and within the budget.
LEMMA MergeFacts ==
  ASSUME NEW s \in Seq(Doc), NEW t \in Seq(Doc)
  PROVE  /\ Merge(s, t) \in Seq(Doc) /\ Len(Merge(s, t)) <= CandidateBudget
         /\ ToSet(Merge(s, t)) \subseteq ToSet(s) \cup ToSet(t)
<1>1. s \o t \in Seq(Doc) /\ ToSet(s \o t) = ToSet(s) \cup ToSet(t)
  BY ConcatSet
<1>2. Distinct(s \o t) \in Seq(Doc) /\ ToSet(Distinct(s \o t)) = ToSet(s \o t)
  BY <1>1, DistinctFacts
<1>3. CandidateBudget \in Nat
  BY RetrievalAssumption
<1> QED BY <1>1, <1>2, <1>3, CutFacts DEF Merge

\* However the candidates are ordered, the batch is within its size, of candidates
\* of the list and without repetition; and it is not empty unless there is none.
LEMMA DiversifyFacts ==
  ASSUME NEW s \in Seq(Doc), NEW U, NEW n \in Nat
  PROVE  /\ Diversify(s, U, n) \in Seq(Doc) /\ Len(Diversify(s, U, n)) <= n
         /\ ToSet(Diversify(s, U, n)) \subseteq ToSet(s)
         /\ IsInjective(Diversify(s, U, n))
         /\ s # <<>> /\ n > 0 => Diversify(s, U, n) # <<>>
<1> DEFINE ranked == Without(Distinct(s), U) \o Within(Distinct(s), U)
<1>1. /\ ranked \in Seq(Doc) /\ IsInjective(ranked) /\ ToSet(ranked) = ToSet(s)
  <2>1. Distinct(s) \in Seq(Doc) /\ IsInjective(Distinct(s)) /\ ToSet(Distinct(s)) = ToSet(s)
    BY DistinctFacts
  <2>2. /\ Without(Distinct(s), U) \in Seq(Doc) /\ IsInjective(Without(Distinct(s), U))
        /\ ToSet(Without(Distinct(s), U)) = ToSet(s) \ U
    BY <2>1, WithoutFacts
  <2>3. /\ Within(Distinct(s), U) \in Seq(Doc) /\ IsInjective(Within(Distinct(s), U))
        /\ ToSet(Within(Distinct(s), U)) = ToSet(s) \cap U
    BY <2>1, WithinFacts
  <2>4. (ToSet(s) \ U) \cap (ToSet(s) \cap U) = {} /\ (ToSet(s) \ U) \cup (ToSet(s) \cap U) = ToSet(s)
    OBVIOUS
  <2>5. IsInjective(ranked)
    BY <2>2, <2>3, <2>4, ConcatInjective
  <2>6. /\ ranked \in Seq(Doc)
        /\ ToSet(ranked) = ToSet(Without(Distinct(s), U)) \cup ToSet(Within(Distinct(s), U))
    BY <2>2, <2>3, ConcatSet
  <2> HIDE DEF ranked
  <2> QED BY <2>2, <2>3, <2>4, <2>5, <2>6
<1> HIDE DEF ranked
<1> DEFINE Peers(i) == {j \in DOMAIN ranked : DomainOf[ranked[j]] = DomainOf[ranked[i]]}
           Turn(i) == Cardinality({j \in Peers(i) : j < i})
           First(i) == Min(Peers(i))
           Before(i, j) == Turn(i) < Turn(j) \/ (Turn(i) = Turn(j) /\ First(i) < First(j))
           chosen == {i \in DOMAIN ranked : Turn(i) < PerDomain}
           N == Cardinality(chosen)
           at == [k \in 1..N |-> CHOOSE i \in chosen : Cardinality({j \in chosen : Before(j, i)}) = k - 1]
           R == {p \in chosen \X chosen : Before(p[1], p[2])}
<1>2. Diversify(s, U, n) = Cut(InOrder(ranked, chosen, Before), n)
  BY DEF Diversify, ranked
<1>3. DOMAIN ranked = 1..Len(ranked) /\ Len(ranked) \in Nat /\ IsFiniteSet(DOMAIN ranked)
  <2>1. DOMAIN ranked = 1..Len(ranked) /\ Len(ranked) \in Nat
    BY <1>1
  <2> QED BY <2>1, FS_Interval
<1>4. ASSUME NEW i \in DOMAIN ranked
      PROVE  /\ Turn(i) \in Nat /\ First(i) \in Peers(i) /\ First(i) \in Nat
             /\ IsFiniteSet({j \in Peers(i) : j < i})
  <2>1. Peers(i) \in SUBSET Nat /\ i \in Peers(i) /\ Peers(i) \subseteq DOMAIN ranked
    BY <1>3
  <2>2. IsFiniteSet({j \in Peers(i) : j < i}) /\ Turn(i) \in Nat
    <3>1. {j \in Peers(i) : j < i} \subseteq DOMAIN ranked
      BY <2>1
    <3> HIDE DEF Peers
    <3> QED BY <1>3, <3>1, FS_Subset, FS_CardinalityType
  <2>3. First(i) \in Peers(i)
    <3> HIDE DEF Peers
    <3>1. \E k \in Peers(i) : \A m \in Peers(i) : k <= m
      BY <2>1, LeastNatural
    <3> QED BY <3>1 DEF Min
  <2> HIDE DEF Peers, Turn, First
  <2> QED BY <2>1, <2>2, <2>3
<1>5. ASSUME NEW i \in DOMAIN ranked, NEW j \in DOMAIN ranked, First(i) = First(j), i < j
      PROVE  Turn(i) < Turn(j)
  <2>1. Peers(i) = Peers(j) /\ i \in Peers(j)
    <3>1. First(i) \in Peers(i) /\ First(i) \in Peers(j)
      BY <1>4, <1>5
    <3>2. DomainOf[ranked[i]] = DomainOf[ranked[j]]
      <4> HIDE DEF First
      <4> QED BY <3>1
    <3> QED BY <3>2
  <2>2. {k \in Peers(i) : k < i} \subseteq {k \in Peers(j) : k < j} \ {i} /\ i \in {k \in Peers(j) : k < j}
    <3> HIDE DEF First
    <3>1. Peers(j) \subseteq Nat
      BY <1>3
    <3>2. i \in Nat /\ j \in Nat
      BY <1>3
    <3> HIDE DEF Peers
    <3> QED BY <1>5, <2>1, <3>1, <3>2
  <2>3. /\ IsFiniteSet({k \in Peers(j) : k < j}) /\ Turn(j) \in Nat /\ Turn(i) \in Nat
    BY <1>4
  <2> DEFINE A == {k \in Peers(i) : k < i}
             B == {k \in Peers(j) : k < j}
  <2>4. Turn(i) = Cardinality(A) /\ Turn(j) = Cardinality(B) /\ IsFiniteSet(B) /\ A \subseteq B \ {i} /\ i \in B
    BY <2>2, <2>3
  <2> HIDE DEF A, B, Turn, Peers, First
  <2>5. IsFiniteSet(B \ {i}) /\ Cardinality(B \ {i}) = Cardinality(B) - 1
    BY <2>4, FS_RemoveElement
  <2>6. Cardinality(A) <= Cardinality(B \ {i})
    BY <2>4, <2>5, FS_Subset
  <2> QED BY <2>3, <2>4, <2>5, <2>6
<1>6. chosen \subseteq DOMAIN ranked /\ IsFiniteSet(chosen) /\ N \in Nat
  <2>1. chosen \subseteq DOMAIN ranked
    OBVIOUS
  <2> HIDE DEF chosen
  <2> QED BY <1>3, <2>1, FS_Subset, FS_CardinalityType
<1>7. OrdersStrictly(R, chosen)
  <2>1. \A i \in chosen : Turn(i) \in Nat /\ First(i) \in Nat /\ i \in Nat
    BY <1>3, <1>4
  <2>2. \A i, j \in chosen : i # j => Turn(i) # Turn(j) \/ First(i) # First(j)
    <3> SUFFICES ASSUME NEW i \in chosen, NEW j \in chosen, i # j, First(i) = First(j)
                 PROVE  Turn(i) # Turn(j)
      OBVIOUS
    <3>1. i \in DOMAIN ranked /\ j \in DOMAIN ranked /\ (i < j \/ j < i)
      BY <2>1
    <3>2. Turn(i) \in Nat /\ Turn(j) \in Nat /\ (Turn(i) < Turn(j) \/ Turn(j) < Turn(i))
      <4> HIDE DEF Turn, First, chosen
      <4> QED BY <1>5, <2>1, <3>1
    <3> HIDE DEF Turn
    <3> QED BY <3>2
  <2>3. \A i, j \in chosen : <<i, j>> \in R <=> Before(i, j)
    <3> HIDE DEF Before, chosen
    <3> QED OBVIOUS
  <2> HIDE DEF R, Turn, First, chosen
  <2> QED BY <2>1, <2>2, <2>3 DEF OrdersStrictly
<1>8. IsRanked(R, chosen)
  <2> HIDE DEF R, chosen
  <2> QED BY <1>6, <1>7, StrictOrderRanks
<1>9. \A i \in chosen : RankIn(R, chosen, i) = Cardinality({j \in chosen : Before(j, i)})
  <2> HIDE DEF Before, chosen
  <2> SUFFICES ASSUME NEW i \in chosen
               PROVE {j \in chosen : <<j, i>> \in R} = {j \in chosen : Before(j, i)}
    BY DEF RankIn
  <2> QED OBVIOUS
<1>10. ASSUME NEW k \in 1..N PROVE at[k] \in chosen /\ RankIn(R, chosen, at[k]) = k - 1
  <2>1. k - 1 \in 0..(N - 1)
    BY <1>6
  <2> HIDE DEF Before, R, chosen
  <2>2. \E i \in chosen : Cardinality({j \in chosen : Before(j, i)}) = k - 1
    <3>1. PICK i \in chosen : RankIn(R, chosen, i) = k - 1
      BY <1>8, <2>1 DEF IsRanked
    <3> QED BY <1>9, <3>1
  <2>3. at[k] \in chosen /\ Cardinality({j \in chosen : Before(j, at[k])}) = k - 1
    BY <2>2
  <2> HIDE DEF at
  <2> QED BY <1>9, <2>3
<1>11. InOrder(ranked, chosen, Before) = Listed(ranked, at, N)
  <2> HIDE DEF Before, chosen
  <2>1. InOrder(ranked, chosen, Before) =
          [k \in 1..N |-> ranked[CHOOSE i \in chosen : Cardinality({j \in chosen : Before(j, i)}) = k - 1]]
    BY Zenon DEF InOrder
  <2>2. Listed(ranked, at, N) = [k \in 1..N |-> ranked[at[k]]]
    BY DEF Listed
  <2>3. \A k \in 1..N : at[k] = CHOOSE i \in chosen : Cardinality({j \in chosen : Before(j, i)}) = k - 1
    OBVIOUS
  <2> HIDE DEF at
  <2> QED BY <2>1, <2>2, <2>3, Zenon
<1>12. at \in [1..N -> chosen]
  <2> HIDE DEF chosen, Before, R
  <2> QED BY <1>10
<1> DEFINE t == InOrder(ranked, chosen, Before)
<1>13. Enumerates(t, ranked, chosen)
  <2> HIDE DEF chosen, R, at, Before
  <2> QED BY <1>6, <1>8, <1>10, <1>11, <1>12, RankedEnumerate
<1>14. /\ t \in Seq(Doc) /\ Len(t) = N /\ IsInjective(t) /\ ToSet(t) \subseteq ToSet(s)
  <2> HIDE DEF chosen, t
  <2>1. \A i, j \in chosen : ranked[i] = ranked[j] => i = j
    BY <1>1, <1>6 DEF IsInjective
  <2>2. /\ t \in Seq(Doc) /\ Len(t) = Cardinality(chosen) /\ ToSet(t) = {ranked[i] : i \in chosen}
        /\ \A k, l \in DOMAIN t : t[k] = t[l] => k = l
    BY <1>1, <1>6, <1>13, <2>1, EnumeratedSequence
  <2>3. {ranked[i] : i \in chosen} \subseteq ToSet(ranked)
    BY <1>6 DEF ToSet
  <2> QED BY <1>1, <2>2, <2>3 DEF IsInjective
<1>15. Diversify(s, U, n) = Cut(t, n)
  BY <1>2
<1>16. ASSUME s # <<>> PROVE N > 0
  <2>1. ranked # <<>>
    <3>1. Len(s) > 0 /\ 1 \in DOMAIN s
      BY <1>16
    <3>2. s[1] \in ToSet(ranked)
      BY <1>1, <3>1 DEF ToSet
    <3> QED BY <3>2 DEF ToSet
  <2>2. 1 \in DOMAIN ranked
    BY <1>1, <2>1
  <2>3. {j \in Peers(1) : j < 1} = {}
    BY <1>3
  <2>4. Turn(1) = 0
    <3> HIDE DEF Peers
    <3> QED BY <2>3, FS_EmptySet
  <2>5. 1 \in chosen
    BY <2>2, <2>4, RetrievalAssumption
  <2> HIDE DEF chosen
  <2>6. N # 0
    BY <1>6, <2>5, FS_EmptySet
  <2> QED BY <1>6, <2>6
<1> HIDE DEF t, chosen
<1>17. /\ Cut(t, n) \in Seq(Doc) /\ Len(Cut(t, n)) = Least(Len(t), n) /\ Len(Cut(t, n)) <= n
       /\ ToSet(Cut(t, n)) \subseteq ToSet(t) /\ IsInjective(Cut(t, n))
  BY <1>14, CutFacts
<1>18. s # <<>> /\ n > 0 => Cut(t, n) # <<>>
  BY <1>6, <1>14, <1>16, <1>17 DEF Least
<1> QED BY <1>14, <1>15, <1>17, <1>18

-----------------------------------------------------------------------------
(* What can be cited of a response                                         *)

\* The documents of a request, and what is recorded of one.
Evidence == [doc : Doc, contexts : Nat, direct : {"none", "ok", "unusable", "failed"}]

\* How many of the evidences can be cited.
Cited(s) == Cardinality({i \in DOMAIN s : s[i].contexts > 0})

\* A set of positions is finite.
LEMMA IndicesOf ==
  ASSUME NEW X, NEW s \in Seq(X), NEW I \in SUBSET DOMAIN s
  PROVE  IsFiniteSet(I) /\ Cardinality(I) \in Nat /\ Cardinality(I) <= Len(s)
BY ThoseOfSequence

\* What can be cited and what cannot share out the evidences.
LEMMA CitableFacts ==
  ASSUME NEW s \in Seq(Evidence)
  PROVE  /\ Citable(s) \in Seq(Evidence) /\ Len(Citable(s)) = Cited(s)
         /\ Cited(s) \in Nat /\ Cited(s) <= Len(s)
         /\ \A k \in DOMAIN Citable(s) : Citable(s)[k].contexts > 0
         /\ Uncitable(s) \in Seq(Evidence) /\ Len(Uncitable(s)) = Len(s) - Cited(s)
         /\ \A k \in DOMAIN Uncitable(s) : Uncitable(s)[k].contexts = 0
<1> DEFINE I == {i \in DOMAIN s : s[i].contexts > 0}
           J == {i \in DOMAIN s : s[i].contexts = 0}
<1>1. /\ I \in SUBSET DOMAIN s /\ J \in SUBSET DOMAIN s
      /\ \A i \in I : s[i].contexts > 0
      /\ \A i \in J : s[i].contexts = 0
  OBVIOUS
<1>2. Citable(s) = Those(s, I) /\ Uncitable(s) = Those(s, J) /\ Cited(s) = Cardinality(I)
  BY DEF Citable, Uncitable, Cited
<1>3. DOMAIN s = 1..Len(s) /\ Len(s) \in Nat /\ \A i \in DOMAIN s : s[i].contexts \in Nat
  <2>1. DOMAIN s = 1..Len(s) /\ Len(s) \in Nat /\ \A i \in DOMAIN s : s[i] \in Evidence
    OBVIOUS
  <2> QED BY <2>1 DEF Evidence
<1>4. I \cup J = 1..Len(s) /\ I \cap J = {}
  BY <1>3
<1> HIDE DEF I, J
<1>5. /\ Those(s, I) \in Seq(Evidence) /\ Len(Those(s, I)) = Cardinality(I)
      /\ IsFiniteSet(I) /\ Cardinality(I) \in Nat /\ Cardinality(I) <= Len(s)
      /\ ToSet(Those(s, I)) = {s[i] : i \in I}
  BY <1>1, ThoseOfSequence
<1>6. /\ Those(s, J) \in Seq(Evidence) /\ Len(Those(s, J)) = Cardinality(J)
      /\ IsFiniteSet(J) /\ Cardinality(J) \in Nat
      /\ ToSet(Those(s, J)) = {s[i] : i \in J}
  BY <1>1, ThoseOfSequence
<1>7. Cardinality(I) + Cardinality(J) = Len(s)
  <2>1. PICK n \in Nat : n = Len(s)
    BY <1>3
  <2>2. Cardinality(1..n) = n
    <3>1. Cardinality(1..n) = IF 1 > n THEN 0 ELSE n - 1 + 1
      BY FS_Interval
    <3> QED BY <3>1
  <2>3. Cardinality(I \cup J) = Cardinality(I) + Cardinality(J) - Cardinality(I \cap J)
    BY <1>5, <1>6, FS_Union
  <2>4. Cardinality(I \cap J) = 0
    BY <1>4, FS_EmptySet
  <2>5. Cardinality(I \cup J) = n
    BY <1>4, <2>1, <2>2
  <2> QED BY <1>5, <1>6, <2>1, <2>3, <2>4, <2>5
<1>8. \A k \in DOMAIN Citable(s) : Citable(s)[k].contexts > 0
  <2> SUFFICES ASSUME NEW k \in DOMAIN Citable(s) PROVE Citable(s)[k].contexts > 0
    OBVIOUS
  <2>1. Citable(s)[k] \in {s[i] : i \in I}
    BY <1>2, <1>5 DEF ToSet
  <2> QED BY <1>1, <2>1
<1>9. \A k \in DOMAIN Uncitable(s) : Uncitable(s)[k].contexts = 0
  <2> SUFFICES ASSUME NEW k \in DOMAIN Uncitable(s) PROVE Uncitable(s)[k].contexts = 0
    OBVIOUS
  <2>1. Uncitable(s)[k] \in {s[i] : i \in J}
    BY <1>2, <1>6 DEF ToSet
  <2> QED BY <1>1, <2>1
<1> QED BY <1>2, <1>3, <1>5, <1>6, <1>7, <1>8, <1>9

\* The number that can be cited adds up.
LEMMA CitedOfConcat ==
  ASSUME NEW s \in Seq(Evidence), NEW t \in Seq(Evidence)
  PROVE  Cited(s \o t) = Cited(s) + Cited(t)
<1> DEFINE I == {i \in DOMAIN s : s[i].contexts > 0}
           J == {i \in DOMAIN t : t[i].contexts > 0}
           K == {i \in DOMAIN (s \o t) : (s \o t)[i].contexts > 0}
           shift == [j \in J |-> j + Len(s)]
           S == {j + Len(s) : j \in J}
<1>1. /\ s \o t \in Seq(Evidence) /\ DOMAIN (s \o t) = 1..(Len(s) + Len(t))
      /\ DOMAIN s = 1..Len(s) /\ DOMAIN t = 1..Len(t) /\ Len(s) \in Nat /\ Len(t) \in Nat
      /\ \A i \in 1..Len(s) : (s \o t)[i] = s[i]
      /\ \A i \in 1..Len(t) : (s \o t)[i + Len(s)] = t[i]
  OBVIOUS
<1>2. IsFiniteSet(I) /\ IsFiniteSet(J) /\ Cardinality(I) \in Nat /\ Cardinality(J) \in Nat
  <2>1. I \in SUBSET DOMAIN s /\ J \in SUBSET DOMAIN t
    OBVIOUS
  <2> HIDE DEF I, J
  <2> QED BY <2>1, IndicesOf
<1>3. K = I \cup S
  <2>1. I \subseteq K
    BY <1>1
  <2>2. S \subseteq K
    BY <1>1
  <2>3. ASSUME NEW k \in K PROVE k \in I \cup S
    <3>1. k \in 1..(Len(s) + Len(t)) /\ (s \o t)[k].contexts > 0
      BY <1>1
    <3>2. CASE k <= Len(s)
      <4>1. k \in 1..Len(s)
        BY <1>1, <3>1, <3>2
      <4> QED BY <1>1, <3>1, <4>1
    <3>3. CASE k > Len(s)
      <4>1. PICK j \in 1..Len(t) : k = j + Len(s)
        <5>1. k - Len(s) \in 1..Len(t) /\ k = (k - Len(s)) + Len(s)
          BY <1>1, <3>1, <3>3
        <5> QED BY <5>1
      <4>2. j \in J
        BY <1>1, <3>1, <4>1
      <4> QED BY <4>1, <4>2
    <3> QED BY <1>1, <3>1, <3>2, <3>3
  <2> HIDE DEF K, I, S
  <2> QED BY <2>1, <2>2, <2>3
<1>4. I \cap S = {}
  BY <1>1
<1>5. ExistsBijection(J, S)
  <2>1. J \subseteq Nat
    BY <1>1
  <2>2. \A j \in J : shift[j] = j + Len(s) /\ shift[j] \in S
    OBVIOUS
  <2>3. shift \in [J -> S] /\ \A x \in S : \E j \in J : shift[j] = x
    OBVIOUS
  <2>4. \A i, j \in J : shift[i] = shift[j] => i = j
    <3> SUFFICES ASSUME NEW i \in J, NEW j \in J, shift[i] = shift[j] PROVE i = j
      OBVIOUS
    <3>1. i + Len(s) = j + Len(s) /\ i \in Nat /\ j \in Nat
      BY <2>1, <2>2
    <3> QED BY <1>1, <3>1
  <2> HIDE DEF shift, J, S
  <2>5. shift \in Bijection(J, S)
    BY <2>3, <2>4 DEF Bijection, Injection, Surjection, IsInjective
  <2> QED BY <2>5 DEF ExistsBijection
<1>6. IsFiniteSet(S) /\ Cardinality(S) = Cardinality(J)
  <2> HIDE DEF J, S
  <2> QED BY <1>2, <1>5, FS_Bijection
<1>7. Cited(s) = Cardinality(I) /\ Cited(t) = Cardinality(J) /\ Cited(s \o t) = Cardinality(K)
  BY DEF Cited
<1> HIDE DEF I, J, K, S
<1>8. Cardinality(I \cup S) = Cardinality(I) + Cardinality(S) - Cardinality(I \cap S)
  BY <1>2, <1>6, FS_Union
<1>9. Cardinality(I \cap S) = 0
  BY <1>4, FS_EmptySet
<1> QED BY <1>2, <1>3, <1>6, <1>7, <1>8, <1>9

\* When the evidences that can be cited come first, their number is the length
\* of that prefix.
LEMMA CitedOfPrefix ==
  ASSUME NEW s \in Seq(Evidence), NEW m \in Nat, m <= Len(s),
         \A k \in DOMAIN s : s[k].contexts > 0 <=> k <= m
  PROVE  Cited(s) = m
<1>1. DOMAIN s = 1..Len(s) /\ Len(s) \in Nat
  OBVIOUS
<1>2. {i \in DOMAIN s : s[i].contexts > 0} = 1..m
  BY <1>1
<1>3. Cardinality(1..m) = IF 1 > m THEN 0 ELSE m - 1 + 1
  BY FS_Interval
<1>4. Cardinality(1..m) = m
  BY <1>3
<1> QED BY <1>2, <1>4 DEF Cited

\* The order of the tier loses nothing that can be cited, except to the limit.
LEMMA TierOrder ==
  ASSUME NEW old \in Seq(Evidence), NEW new \in Seq(Evidence)
  PROVE  LET E == Cut(Citable(old) \o Citable(new) \o Uncitable(old \o new), MaxResults)
         IN /\ E \in Seq(Evidence) /\ Len(E) = Least(MaxResults, Len(old) + Len(new))
            /\ Cited(E) = Least(MaxResults, Cited(old \o new))
<1> DEFINE both == old \o new
           C == Citable(old) \o Citable(new)
           U == Uncitable(both)
           all == C \o U
           E == Cut(all, MaxResults)
<1>1. MaxResults \in Nat
  BY RetrievalAssumption
<1>2. /\ Citable(old) \in Seq(Evidence) /\ Len(Citable(old)) = Cited(old) /\ Cited(old) \in Nat
      /\ \A k \in DOMAIN Citable(old) : Citable(old)[k].contexts > 0
  BY CitableFacts
<1>3. /\ Citable(new) \in Seq(Evidence) /\ Len(Citable(new)) = Cited(new) /\ Cited(new) \in Nat
      /\ \A k \in DOMAIN Citable(new) : Citable(new)[k].contexts > 0
  BY CitableFacts
<1>4. both \in Seq(Evidence) /\ Len(both) = Len(old) + Len(new) /\ Cited(both) = Cited(old) + Cited(new)
  BY CitedOfConcat
<1> HIDE DEF both
<1>5. /\ U \in Seq(Evidence) /\ Len(U) = Len(both) - Cited(both)
      /\ \A k \in DOMAIN U : U[k].contexts = 0
      /\ Cited(both) <= Len(both) /\ Cited(both) \in Nat
  BY <1>4, CitableFacts
<1>6. C \in Seq(Evidence) /\ Len(C) = Cited(old) + Cited(new)
  BY <1>2, <1>3, ConcatParts
<1>7. \A k \in DOMAIN C : C[k].contexts > 0
  <2> SUFFICES ASSUME NEW k \in DOMAIN C PROVE C[k].contexts > 0
    OBVIOUS
  <2>1. /\ k \in 1..(Len(Citable(old)) + Len(Citable(new)))
        /\ \/ k \in DOMAIN Citable(old) /\ C[k] = Citable(old)[k]
           \/ k - Len(Citable(old)) \in DOMAIN Citable(new) /\ C[k] = Citable(new)[k - Len(Citable(old))]
    BY <1>2, <1>3, ConcatParts
  <2> HIDE DEF C
  <2> QED BY <1>2, <1>3, <2>1
<1>8. Len(C) = Cited(both) /\ Len(C) \in Nat
  BY <1>4, <1>5, <1>6
<1> HIDE DEF C, U
<1>9. /\ all \in Seq(Evidence) /\ Len(all) = Len(C) + Len(U) /\ DOMAIN all = 1..(Len(C) + Len(U))
      /\ \A k \in 1..(Len(C) + Len(U)) :
           \/ k <= Len(C) /\ k \in DOMAIN C /\ all[k] = C[k]
           \/ k > Len(C) /\ k - Len(C) \in DOMAIN U /\ all[k] = U[k - Len(C)]
  BY <1>5, <1>6, ConcatParts
<1> HIDE DEF all
<1>10. Len(all) = Len(both) /\ Len(both) \in Nat
  BY <1>4, <1>5, <1>8, <1>9
<1>11. \A k \in DOMAIN all : all[k].contexts > 0 <=> k <= Len(C)
  <2> SUFFICES ASSUME NEW k \in DOMAIN all PROVE all[k].contexts > 0 <=> k <= Len(C)
    OBVIOUS
  <2>1. CASE k <= Len(C) /\ k \in DOMAIN C /\ all[k] = C[k]
    BY <1>7, <2>1
  <2>2. CASE k > Len(C) /\ k - Len(C) \in DOMAIN U /\ all[k] = U[k - Len(C)]
    <3>1. all[k].contexts = 0
      BY <1>5, <2>2
    <3>2. k \in Nat
      BY <1>5, <1>8, <1>9
    <3> QED BY <1>8, <2>2, <3>1, <3>2
  <2> QED BY <1>9, <2>1, <2>2
<1>12. /\ E \in Seq(Evidence) /\ Len(E) = Least(Len(all), MaxResults)
       /\ DOMAIN E \subseteq DOMAIN all /\ \A k \in DOMAIN E : E[k] = all[k]
  BY <1>1, <1>9, CutFacts
<1> HIDE DEF E
<1> DEFINE m == Least(MaxResults, Len(C))
<1>13. /\ m \in Nat /\ m <= Len(E) /\ Len(E) <= MaxResults /\ Len(E) = Least(MaxResults, Len(all))
       /\ m = IF Len(C) < Len(E) THEN Len(C) ELSE Len(E)
  BY <1>1, <1>5, <1>8, <1>10, <1>12 DEF Least
<1>14. \A k \in DOMAIN E : E[k].contexts > 0 <=> k <= m
  <2> SUFFICES ASSUME NEW k \in DOMAIN E PROVE E[k].contexts > 0 <=> k <= m
    OBVIOUS
  <2>1. E[k].contexts > 0 <=> k <= Len(C)
    BY <1>11, <1>12
  <2>2. k \in 1..Len(E)
    BY <1>12
  <2> HIDE DEF m
  <2> QED BY <1>8, <1>13, <2>1, <2>2
<1>15. Cited(E) = m
  <2> HIDE DEF m
  <2> QED BY <1>12, <1>13, <1>14, CitedOfPrefix
<1>16. E \in Seq(Evidence) /\ Len(E) = Least(MaxResults, Len(old) + Len(new))
  BY <1>4, <1>10, <1>12, <1>13
<1>17. Cited(E) = Least(MaxResults, Cited(both))
  BY <1>8, <1>15
<1> QED BY <1>16, <1>17 DEF E, all, C, U, both

\* The documents of a longer list.
LEMMA DocsFacts ==
  ASSUME NEW s \in Seq(Evidence), NEW t \in Seq(Evidence), NEW e \in Evidence
  PROVE  /\ Docs(s \o t) = Docs(s) \cup Docs(t)
         /\ Docs(Append(s, e)) = Docs(s) \cup {e.doc}
         /\ Docs(<<>>) = {} /\ Docs(s) \subseteq Doc
<1> DEFINE DocOf(u) == {x.doc : x \in ToSet(u)}
<1>1. ASSUME NEW u \in Seq(Evidence) PROVE Docs(u) = DocOf(u)
  BY Zenon DEF Docs, ToSet
<1>2. s \o t \in Seq(Evidence) /\ ToSet(s \o t) = ToSet(s) \cup ToSet(t)
  BY ConcatSet
<1>3. <<e>> \in Seq(Evidence) /\ ToSet(<<e>>) = {e} /\ Append(s, e) = s \o <<e>>
  BY DEF ToSet
<1>4. s \o <<e>> \in Seq(Evidence) /\ ToSet(s \o <<e>>) = ToSet(s) \cup ToSet(<<e>>)
  BY <1>3, ConcatSet
<1>5. Docs(s \o t) = Docs(s) \cup Docs(t)
  <2>1. DocOf(s \o t) = DocOf(s) \cup DocOf(t)
    BY <1>2
  <2> HIDE DEF DocOf
  <2> QED BY <1>1, <1>2, <2>1
<1>6. Docs(Append(s, e)) = Docs(s) \cup {e.doc}
  <2>1. DocOf(Append(s, e)) = DocOf(s) \cup {e.doc}
    BY <1>3, <1>4
  <2> HIDE DEF DocOf
  <2> QED BY <1>1, <1>3, <1>4, <2>1
<1>7. Docs(<<>>) = {}
  BY DEF Docs
<1>8. Docs(s) \subseteq Doc
  <2>1. ASSUME NEW i \in DOMAIN s PROVE s[i].doc \in Doc
    <3>1. s[i] \in Evidence
      OBVIOUS
    <3> QED BY <3>1 DEF Evidence
  <2> QED BY <2>1 DEF Docs
<1> QED BY <1>5, <1>6, <1>7, <1>8

\* One more evidence.
LEMMA EvidenceBuilt ==
  ASSUME NEW tried \in Seq(Evidence), NEW e \in Evidence
  PROVE  /\ Len(Append(tried, e)) = Len(tried) + 1 /\ Len(tried) \in Nat
         /\ DOMAIN Append(tried, e) = 1..(Len(tried) + 1) /\ DOMAIN tried = 1..Len(tried)
         /\ Append(tried, e)[Len(tried) + 1] = e
         /\ \A k \in 1..Len(tried) : Append(tried, e)[k] = tried[k]
         /\ Docs(Append(tried, e)) = Docs(tried) \cup {e.doc}
BY AppendFacts, DocsFacts

-----------------------------------------------------------------------------
(* The invariant of a search                                               *)

\* The record of a search, as its steps leave it.
Job == [phase : {"new", "searching", "hydrating", "fetching", "storing", "choosing",
                 "answered", "hit", "failed"},
        round : {"initial", "refill", "fallback", "tier"}, next : Nat, won : BOOLEAN,
        raw : Seq(Doc), known : SUBSET Doc, pool : Seq(Doc), batch : Seq(Doc),
        built : Seq(Evidence), evidences : Seq(Evidence), tried : Seq(Evidence),
        extracts : Nat, paid : Nat]

\* Types of what the searches are proved about.
RetrievalTypes ==
  /\ deployment \in Deployment
  /\ job \in [Request -> Job]
  /\ cache \in [Key -> Seq([by : Request, evidences : Seq(Evidence)])]

\* The phases before a batch is scheduled.
IsEarly(j) == j.phase \in {"new", "hydrating"} \/ (j.phase = "searching" /\ j.round = "initial")

\* What a phase has not reached is empty, and what was tried is what was built.
Phased(j) ==
  /\ IsEarly(j) => j.round = "initial" /\ j.evidences = <<>> /\ j.tried = <<>>
  /\ j.phase = "searching" => j.round # "refill"
  /\ j.built # <<>> => j.phase \in {"fetching", "storing"}
  /\ j.batch # <<>> => j.phase = "fetching"
  /\ j.phase = "hit" => j.tried = <<>>
  /\ j.phase # "hit" /\ (j.round # "tier" \/ j.phase \in {"searching", "fetching", "storing"})
       => j.tried = j.evidences \o j.built

\* The rounds before the tier never have more than max_results in hand.
Fitting(j) ==
  /\ j.phase # "hit" => Len(j.evidences) <= MaxResults
  /\ j.phase # "hit" /\ j.round # "tier" => Len(j.tried) + Len(j.batch) <= MaxResults
  /\ j.phase \in {"choosing", "answered"}
       => Cited(j.evidences) = Least(MaxResults, Cited(j.tried))
  /\ j.phase = "searching" /\ j.round = "fallback"
       => Len(j.evidences) < MaxResults /\ Cited(j.evidences) < Target

\* What is to be tried was not tried before.
Untried(j) ==
  /\ \A k, l \in DOMAIN j.tried : j.tried[k].doc = j.tried[l].doc => k = l
  /\ IsInjective(j.batch)
  /\ ToSet(j.batch) \cap Docs(j.tried) = {}
  /\ ToSet(j.pool) \cap Docs(j.tried) = {}
  /\ ToSet(j.pool) \cap ToSet(j.batch) = {}

\* Under EXT_ONLY_OFFICIAL nothing else is even a candidate.
OfficialOnly(d, j) ==
  d.strategy = "EXT_ONLY_OFFICIAL" =>
    /\ ToSet(j.raw) \subseteq Official /\ ToSet(j.pool) \subseteq Official
    /\ ToSet(j.batch) \subseteq Official /\ Docs(j.tried) \subseteq Official

\* The lists and the paid extractions stay within their budgets.
Budgeted(j) ==
  /\ Len(j.raw) <= CandidateBudget /\ Len(j.pool) <= CandidateBudget
  /\ j.extracts = j.paid /\ j.paid <= MaxExtracts

\* What the first search returned is tried, to be tried, or does not fit.
Covered(d, j) ==
  /\ j.phase \in {"fetching", "storing", "choosing"} /\ j.round \in {"initial", "refill"}
       => ToSet(j.raw) \subseteq Docs(j.tried) \cup ToSet(j.batch) \cup ToSet(j.pool)
  /\ j.round \in {"fallback", "tier"} /\ Len(j.evidences) < MaxResults
       => ToSet(j.raw) \subseteq Docs(j.tried)
  /\ j.phase = "answered" /\ d.fullText /\ Cited(j.evidences) < Target /\ Len(j.evidences) < MaxResults
       => ToSet(j.raw) \subseteq Docs(j.tried)

\* What is true of the search j in deployment d between any two of its awaits.
SearchInv(d, j) ==
  Phased(j) /\ Fitting(j) /\ Untried(j) /\ OfficialOnly(d, j) /\ Budgeted(j) /\ Covered(d, j)

\* What is cached is the answer of a request that was answered.
CacheInv ==
  \A k \in Key : cache[k] # NoEntry =>
    LET by == cache[k][1].by
    IN job[by].phase = "answered" /\ job[by].won /\ cache[k][1].evidences = job[by].evidences

\* The inductive invariant of all searches and their cache.
RetrievalInv == RetrievalTypes /\ (\A r \in Request : SearchInv(deployment, job[r])) /\ CacheInv

\* A step of one request.
OnlyJob(r) ==
  /\ deployment' = deployment
  /\ job' \in [Request -> Job]
  /\ \A q \in Request : q # r => job'[q] = job[q]
  /\ job[r].phase # "answered"
  /\ SearchInv(deployment, job'[r])

-----------------------------------------------------------------------------
(* The steps of a search                                                   *)

\* Lengths are numbers.
LEMMA Lengths ==
  ASSUME NEW j \in Job
  PROVE  /\ Len(j.evidences) \in Nat /\ Len(j.built) \in Nat /\ Len(j.tried) \in Nat
         /\ Len(j.raw) \in Nat /\ Len(j.pool) \in Nat /\ Len(j.batch) \in Nat
         /\ \A s \in Seq(Doc) : Len(s) \in Nat
<1>1. \A s \in Seq(Evidence) : Len(s) \in Nat
  OBVIOUS
<1>2. \A s \in Seq(Doc) : Len(s) \in Nat
  OBVIOUS
<1>3. /\ j.evidences \in Seq(Evidence) /\ j.built \in Seq(Evidence) /\ j.tried \in Seq(Evidence)
      /\ j.raw \in Seq(Doc) /\ j.pool \in Seq(Doc) /\ j.batch \in Seq(Doc)
  BY DEF Job
<1> QED BY <1>1, <1>2, <1>3, Zenon

\* A step that changes one request, to n.
LEMMA ChangesOne ==
  ASSUME RetrievalTypes, NEW r \in Request, NEW n \in Job, job' = [job EXCEPT ![r] = n],
         deployment' = deployment, job[r].phase # "answered", SearchInv(deployment, n)
  PROVE  OnlyJob(r)
<1>1. job' \in [Request -> Job] /\ job'[r] = n /\ \A q \in Request : q # r => job'[q] = job[q]
  BY DEF RetrievalTypes
<1> QED BY <1>1 DEF OnlyJob

\* A request that is served from the cache, and one that is not.
LEMMA CacheHitStep ==
  ASSUME RetrievalTypes, NEW r \in Request, SearchInv(deployment, job[r]), CacheHit(r)
  PROVE  OnlyJob(r)
<1>1. /\ job[r] \in Job /\ job[r].phase = "new" /\ deployment' = deployment
      /\ cache[KeyOf[r]][1].evidences \in Seq(Evidence)
  <2>1. KeyOf[r] \in Key
    BY RetrievalAssumption
  <2>2. cache[KeyOf[r]] \in Seq([by : Request, evidences : Seq(Evidence)]) /\ cache[KeyOf[r]] # <<>>
    BY <2>1 DEF RetrievalTypes, CacheHit, NoEntry
  <2>3. cache[KeyOf[r]][1] \in [by : Request, evidences : Seq(Evidence)]
    BY <2>2, FirstOfSequence
  <2> QED BY <2>3 DEF RetrievalTypes, CacheHit, At
<1>2. PICK n \in Job : n = [job[r] EXCEPT !.phase = "hit", !.evidences = cache[KeyOf[r]][1].evidences]
  BY <1>1 DEF Job
<1>3. job' = [job EXCEPT ![r] = n]
  BY <1>2 DEF CacheHit
<1>4. SearchInv(deployment, n)
  <2>1. /\ n.phase = "hit" /\ n.round = job[r].round /\ n.raw = job[r].raw
        /\ n.batch = job[r].batch /\ n.built = job[r].built /\ n.pool = job[r].pool
        /\ n.tried = job[r].tried
        /\ n.extracts = job[r].extracts /\ n.paid = job[r].paid
    BY <1>1, <1>2 DEF Job
  <2>2. Phased(n)
    BY <1>1, <2>1 DEF SearchInv, Phased, IsEarly
  <2>3. Fitting(n)
    BY <1>1, <2>1 DEF SearchInv, Fitting
  <2>4. Untried(n)
    BY <1>1, <2>1 DEF SearchInv, Untried
  <2>5. OfficialOnly(deployment, n) /\ Budgeted(n)
    BY <1>1, <2>1 DEF SearchInv, OfficialOnly, Budgeted
  <2>6. Covered(deployment, n)
    <3>1. job[r].round = "initial"
      BY <1>1 DEF SearchInv, Phased, IsEarly
    <3> QED BY <1>1, <2>1, <3>1 DEF SearchInv, Covered
  <2> QED BY <2>2, <2>3, <2>4, <2>5, <2>6 DEF SearchInv
<1> QED BY <1>1, <1>3, <1>4, ChangesOne

\* The first search begins.
LEMMA BeginStep ==
  ASSUME RetrievalTypes, NEW r \in Request, SearchInv(deployment, job[r]), Begin(r)
  PROVE  OnlyJob(r)
<1>1. job[r] \in Job /\ job[r].phase = "new" /\ deployment' = deployment
  BY DEF RetrievalTypes, Begin, At
<1>2. PICK n \in Job : n = [job[r] EXCEPT !.phase = "searching"]
  BY <1>1 DEF Job
<1>3. job' = [job EXCEPT ![r] = n]
  BY <1>2 DEF Begin
<1>4. SearchInv(deployment, n)
  <2>1. /\ n.phase = "searching" /\ n.round = job[r].round /\ n.raw = job[r].raw
        /\ n.batch = job[r].batch /\ n.built = job[r].built /\ n.pool = job[r].pool
        /\ n.evidences = job[r].evidences /\ n.tried = job[r].tried
        /\ n.extracts = job[r].extracts /\ n.paid = job[r].paid
    BY <1>1, <1>2 DEF Job
  <2>2. Phased(n)
    BY <1>1, <2>1 DEF SearchInv, Phased, IsEarly
  <2>3. Fitting(n) /\ Untried(n)
    <3>1. job[r].phase = "new" => job[r].round = "initial"
      BY <1>1 DEF SearchInv, Phased, IsEarly
    <3> QED BY <1>1, <2>1, <3>1 DEF SearchInv, Fitting, Untried
  <2>4. OfficialOnly(deployment, n) /\ Budgeted(n)
    BY <1>1, <2>1 DEF SearchInv, OfficialOnly, Budgeted
  <2>5. Covered(deployment, n)
    BY <1>1, <2>1 DEF SearchInv, Covered
  <2> QED BY <2>2, <2>3, <2>4, <2>5 DEF SearchInv
<1> QED BY <1>1, <1>3, <1>4, ChangesOne

\* A request that fails.
LEMMA FailingStep ==
  ASSUME RetrievalTypes, NEW r \in Request, SearchInv(deployment, job[r]),
         CacheFails(r) \/ NoProvider(r) \/ AllFailed(r)
  PROVE  OnlyJob(r)
<1>1. /\ job[r] \in Job /\ job[r].phase \in {"new", "searching", "choosing"}
      /\ job[r].phase = "searching" => job[r].round = "initial"
      /\ deployment' = deployment
  BY DEF RetrievalTypes, CacheFails, NoProvider, AllFailed, SearchIsOver, IsComplete, At
<1>2. PICK n \in Job : n = [job[r] EXCEPT !.phase = "failed"]
  BY <1>1 DEF Job
<1>3. job' = [job EXCEPT ![r] = n]
  BY <1>2 DEF CacheFails, NoProvider, AllFailed
<1>4. SearchInv(deployment, n)
  <2>1. /\ n.phase = "failed" /\ n.round = job[r].round /\ n.raw = job[r].raw
        /\ n.batch = job[r].batch /\ n.built = job[r].built /\ n.pool = job[r].pool
        /\ n.evidences = job[r].evidences /\ n.tried = job[r].tried
        /\ n.extracts = job[r].extracts /\ n.paid = job[r].paid
    BY <1>1, <1>2 DEF Job
  <2>2. Phased(n)
    BY <1>1, <2>1 DEF SearchInv, Phased, IsEarly
  <2>3. Fitting(n) /\ Untried(n)
    BY <1>1, <2>1 DEF SearchInv, Fitting, Untried
  <2>4. OfficialOnly(deployment, n) /\ Budgeted(n)
    BY <1>1, <2>1 DEF SearchInv, OfficialOnly, Budgeted
  <2>5. Covered(deployment, n)
    BY <1>1, <2>1 DEF SearchInv, Covered
  <2> QED BY <2>2, <2>3, <2>4, <2>5 DEF SearchInv
<1> QED BY <1>1, <1>3, <1>4, ChangesOne

\* A request that goes on to its next query.
LEMMA SkippingStep ==
  ASSUME RetrievalTypes, NEW r \in Request, SearchInv(deployment, job[r]),
         SkipRelaxed(r) \/ SearchFails(r)
  PROVE  OnlyJob(r)
<1>1. job[r] \in Job /\ job[r].phase = "searching" /\ deployment' = deployment
  BY DEF RetrievalTypes, SkipRelaxed, SearchFails, CanSearch, At
<1>2. PICK next \in Nat : next = job[r].next + 1
  BY <1>1 DEF Job
<1>3. PICK n \in Job : n = [job[r] EXCEPT !.next = next]
  BY <1>1 DEF Job
<1>4. job' = [job EXCEPT ![r] = n]
  BY <1>2, <1>3 DEF SkipRelaxed, SearchFails
<1>5. SearchInv(deployment, n)
  BY <1>1, <1>3 DEF SearchInv, Phased, IsEarly, Fitting, Untried, OfficialOnly, Budgeted, Covered, Job
<1> QED BY <1>1, <1>4, <1>5, ChangesOne

\* The history is read.
LEMMA HydrateStep ==
  ASSUME RetrievalTypes, NEW r \in Request, SearchInv(deployment, job[r]), Hydrate(r)
  PROVE  OnlyJob(r)
<1>1. /\ job[r] \in Job /\ job[r].phase = "searching" /\ job[r].round = "initial"
      /\ deployment' = deployment
  BY DEF RetrievalTypes, Hydrate, SearchIsOver, At
<1>2. PICK known \in {stored \cap ToSet(job[r].raw), {}} :
        job' = [job EXCEPT ![r].phase = "hydrating", ![r].known = known]
  BY DEF Hydrate
<1>3. known \in SUBSET Doc
  BY <1>1, <1>2 DEF Job, ToSet
<1>4. PICK n \in Job : n = [job[r] EXCEPT !.phase = "hydrating", !.known = known]
  BY <1>1, <1>3 DEF Job
<1>5. job' = [job EXCEPT ![r] = n]
  BY <1>2, <1>4
<1>6. SearchInv(deployment, n)
  <2>1. /\ n.phase = "hydrating" /\ n.round = "initial" /\ n.raw = job[r].raw
        /\ n.batch = job[r].batch /\ n.built = job[r].built /\ n.pool = job[r].pool
        /\ n.evidences = job[r].evidences /\ n.tried = job[r].tried
        /\ n.extracts = job[r].extracts /\ n.paid = job[r].paid
    BY <1>1, <1>4 DEF Job
  <2>2. Phased(n)
    BY <1>1, <2>1 DEF SearchInv, Phased, IsEarly
  <2>3. Fitting(n)
    BY <1>1, <2>1 DEF SearchInv, Fitting
  <2>4. Untried(n)
    BY <1>1, <2>1 DEF SearchInv, Untried
  <2>5. OfficialOnly(deployment, n) /\ Budgeted(n)
    BY <1>1, <2>1 DEF SearchInv, OfficialOnly, Budgeted
  <2>6. Covered(deployment, n)
    BY <1>1, <2>1 DEF SearchInv, Covered
  <2> QED BY <2>2, <2>3, <2>4, <2>5, <2>6 DEF SearchInv
<1> QED BY <1>1, <1>5, <1>6, ChangesOne

\* A batch is built.
LEMMA RememberStep ==
  ASSUME RetrievalTypes, NEW r \in Request, SearchInv(deployment, job[r]), Remember(r)
  PROVE  OnlyJob(r)
<1>1. /\ job[r] \in Job /\ job[r].phase = "fetching" /\ job[r].batch = <<>>
      /\ deployment' = deployment
  BY DEF RetrievalTypes, Remember, At
<1>2. PICK n \in Job : n = [job[r] EXCEPT !.phase = "storing"]
  BY <1>1 DEF Job
<1>3. job' = [job EXCEPT ![r] = n]
  BY <1>2 DEF Remember
<1>4. SearchInv(deployment, n)
  <2>1. /\ n.phase = "storing" /\ n.round = job[r].round /\ n.raw = job[r].raw
        /\ n.batch = job[r].batch /\ n.built = job[r].built /\ n.pool = job[r].pool
        /\ n.evidences = job[r].evidences /\ n.tried = job[r].tried
        /\ n.extracts = job[r].extracts /\ n.paid = job[r].paid
    BY <1>1, <1>2 DEF Job
  <2>2. Phased(n)
    BY <1>1, <2>1 DEF SearchInv, Phased, IsEarly
  <2>3. Fitting(n) /\ Untried(n)
    BY <1>1, <2>1 DEF SearchInv, Fitting, Untried
  <2>4. OfficialOnly(deployment, n) /\ Budgeted(n)
    BY <1>1, <2>1 DEF SearchInv, OfficialOnly, Budgeted
  <2>5. Covered(deployment, n)
    BY <1>1, <2>1 DEF SearchInv, Covered
  <2> QED BY <2>2, <2>3, <2>4, <2>5 DEF SearchInv
<1> QED BY <1>1, <1>3, <1>4, ChangesOne

\* Short is about the number that can be cited.
LEMMA CitedFacts ==
  ASSUME NEW r \in Request, job[r] \in Job
  PROVE  /\ Short(r) <=> Cited(job[r].evidences) < Target
         /\ Cited(job[r].evidences) \in Nat /\ Cited(job[r].evidences) <= Len(job[r].evidences)
<1>1. job[r].evidences \in Seq(Evidence)
  BY DEF Job
<1> QED BY <1>1, CitableFacts DEF Short

\* A first round that is short and has room is never complete.
LEMMA RespondStep ==
  ASSUME RetrievalTypes, NEW r \in Request, SearchInv(deployment, job[r]), Respond(r)
  PROVE  OnlyJob(r) /\ job'[r].phase = "answered" /\ job'[r].won /\ job'[r].evidences = job[r].evidences
<1>1. /\ job[r] \in Job /\ job[r].phase = "choosing" /\ deployment' = deployment /\ job[r].won
      /\ ~ CanRefill(r) /\ ~ CanRecover(r)
  BY DEF RetrievalTypes, Respond, IsComplete, At
<1>2. PICK n \in Job : n = [job[r] EXCEPT !.phase = "answered"]
  BY <1>1 DEF Job
<1>3. job' = [job EXCEPT ![r] = n]
  BY <1>2 DEF Respond
<1>4. deployment.fullText /\ Cited(job[r].evidences) < Target /\ Len(job[r].evidences) < MaxResults
        => job[r].round \in {"fallback", "tier"}
  <2>1. deployment.fullText /\ Short(r) /\ HasRoom(r) => ~ IsFirst(r)
    BY <1>1 DEF CanRefill, CanRecover
  <2> QED BY <1>1, <2>1, CitedFacts DEF HasRoom, IsFirst, Job
<1>5. SearchInv(deployment, n)
  BY <1>1, <1>2, <1>4 DEF SearchInv, Phased, IsEarly, Fitting, Untried, OfficialOnly, Budgeted, Covered, Job
<1>6. n.phase = "answered" /\ n.won /\ n.evidences = job[r].evidences /\ job'[r] = n
  BY <1>1, <1>2, <1>3 DEF RetrievalTypes, Job
<1> QED BY <1>1, <1>3, <1>5, <1>6, ChangesOne

\* What the policy lets through.
LEMMA AllowedFacts ==
  ASSUME NEW s \in Seq(Doc)
  PROVE  /\ Allowed(s) \in Seq(Doc)
         /\ deployment.strategy = "EXT_ONLY_OFFICIAL" => ToSet(Allowed(s)) \subseteq Official
BY WithinFacts DEF Allowed, OnlyOfficial

\* The first search grows within what is allowed and the budget.
LEMMA SearchStep ==
  ASSUME RetrievalTypes, NEW r \in Request, SearchInv(deployment, job[r]), Search(r)
  PROVE  OnlyJob(r)
<1>1. /\ job[r] \in Job /\ job[r].phase = "searching" /\ job[r].round = "initial"
      /\ deployment' = deployment
  BY DEF RetrievalTypes, Search, CanSearch, At
<1>2. PICK s \in Answers[r] :
        job' = [job EXCEPT ![r].raw = Merge(@, Allowed(s)), ![r].next = @ + 1, ![r].won = TRUE]
  BY DEF Search
<1>3. job[r].raw \in Seq(Doc) /\ Allowed(s) \in Seq(Doc)
  BY <1>1, RetrievalAssumption, AllowedFacts DEF Job
<1>4. PICK raw \in Seq(Doc) :
        /\ raw = Merge(job[r].raw, Allowed(s)) /\ Len(raw) <= CandidateBudget
        /\ ToSet(raw) \subseteq ToSet(job[r].raw) \cup ToSet(Allowed(s))
  BY <1>3, MergeFacts
<1>5. PICK next \in Nat : next = job[r].next + 1
  BY <1>1 DEF Job
<1>6. PICK n \in Job : n = [job[r] EXCEPT !.raw = raw, !.next = next, !.won = TRUE]
  BY <1>1 DEF Job
<1>7. job' = [job EXCEPT ![r] = n]
  BY <1>2, <1>4, <1>5, <1>6
<1>8. deployment.strategy = "EXT_ONLY_OFFICIAL" => ToSet(Allowed(s)) \subseteq Official
  BY RetrievalAssumption, AllowedFacts
<1>9. SearchInv(deployment, n)
  <2>1. /\ n.phase = "searching" /\ n.round = "initial" /\ n.raw = raw
        /\ n.batch = job[r].batch /\ n.built = job[r].built /\ n.pool = job[r].pool
        /\ n.evidences = job[r].evidences /\ n.tried = job[r].tried
        /\ n.extracts = job[r].extracts /\ n.paid = job[r].paid
    BY <1>1, <1>6 DEF Job
  <2>2. Phased(n)
    BY <1>1, <2>1 DEF SearchInv, Phased, IsEarly
  <2>3. Fitting(n)
    BY <1>1, <2>1 DEF SearchInv, Fitting
  <2>4. Untried(n)
    BY <1>1, <2>1 DEF SearchInv, Untried
  <2>5. OfficialOnly(deployment, n) /\ Budgeted(n)
    BY <1>1, <2>1, <1>4, <1>8 DEF SearchInv, OfficialOnly, Budgeted
  <2>6. Covered(deployment, n)
    BY <1>1, <2>1 DEF SearchInv, Covered
  <2> QED BY <2>2, <2>3, <2>4, <2>5, <2>6 DEF SearchInv
<1> QED BY <1>1, <1>7, <1>9, ChangesOne

\* Between the batches what was tried is what the response has.
LEMMA NothingBuilt ==
  ASSUME NEW d, NEW j \in Job, SearchInv(d, j), j.phase \in {"searching", "choosing"},
         j.phase = "searching" \/ j.round # "tier"
  PROVE  j.built = <<>> /\ j.batch = <<>> /\ j.tried = j.evidences
<1>1. j.built = <<>> /\ j.batch = <<>> /\ j.tried = j.evidences \o j.built
  BY DEF SearchInv, Phased
<1>2. j.evidences \in Seq(Evidence)
  BY DEF Job
<1> QED BY <1>1, <1>2

\* In the later searches only the pool grows, by what was not tried.
LEMMA PoolStep ==
  ASSUME RetrievalTypes, NEW r \in Request, SearchInv(deployment, job[r]), SearchAgain(r) \/ SearchTier(r)
  PROVE  OnlyJob(r)
<1>1. /\ job[r] \in Job /\ job[r].phase = "searching" /\ job[r].round \in {"fallback", "tier"}
      /\ deployment' = deployment
  BY DEF RetrievalTypes, SearchAgain, SearchTier, CanSearch, At
<1>2. PICK s \in Answers[r], won \in BOOLEAN :
        job' = [job EXCEPT ![r].pool = Merge(@, Without(Allowed(s), Docs(job[r].evidences))),
                           ![r].next = @ + 1, ![r].won = won]
  <2>1. CASE SearchAgain(r)
    <3>1. PICK s \in Answers[r] :
            job' = [job EXCEPT ![r].pool = Merge(@, Without(Allowed(s), Docs(job[r].evidences))),
                               ![r].next = @ + 1]
      BY <2>1 DEF SearchAgain
    <3>2. job' = [job EXCEPT ![r].pool = Merge(@, Without(Allowed(s), Docs(job[r].evidences))),
                             ![r].next = @ + 1, ![r].won = job[r].won]
      BY <1>1, <3>1 DEF RetrievalTypes, Job
    <3> QED BY <1>1, <3>2 DEF Job
  <2>2. CASE SearchTier(r)
    BY <2>2 DEF SearchTier
  <2> QED BY <2>1, <2>2
<1>3. job[r].pool \in Seq(Doc) /\ Allowed(s) \in Seq(Doc)
  BY <1>1, RetrievalAssumption, AllowedFacts DEF Job
<1>4. PICK found \in Seq(Doc) :
        /\ found = Without(Allowed(s), Docs(job[r].evidences))
        /\ ToSet(found) = ToSet(Allowed(s)) \ Docs(job[r].evidences)
  BY <1>3, WithoutFacts
<1>5. PICK pool \in Seq(Doc) :
        /\ pool = Merge(job[r].pool, found) /\ Len(pool) <= CandidateBudget
        /\ ToSet(pool) \subseteq ToSet(job[r].pool) \cup ToSet(found)
  BY <1>3, MergeFacts
<1>6. PICK next \in Nat : next = job[r].next + 1
  BY <1>1 DEF Job
<1>7. PICK n \in Job : n = [job[r] EXCEPT !.pool = pool, !.next = next, !.won = won]
  BY <1>1 DEF Job
<1>8. job' = [job EXCEPT ![r] = n]
  BY <1>2, <1>4, <1>5, <1>6, <1>7
<1>9. deployment.strategy = "EXT_ONLY_OFFICIAL" => ToSet(Allowed(s)) \subseteq Official
  BY RetrievalAssumption, AllowedFacts
<1>10. job[r].built = <<>> /\ job[r].batch = <<>> /\ job[r].tried = job[r].evidences
  BY <1>1, NothingBuilt
<1>11. ToSet(<<>>) = {}
  BY DEF ToSet
<1>12. /\ n.phase = job[r].phase /\ n.round = job[r].round /\ n.next = next
       /\ n.won = won /\ n.raw = job[r].raw /\ n.known = job[r].known
       /\ n.pool = pool /\ n.batch = job[r].batch /\ n.built = job[r].built
       /\ n.evidences = job[r].evidences /\ n.tried = job[r].tried /\ n.extracts = job[r].extracts
       /\ n.paid = job[r].paid
  BY <1>1, <1>7 DEF Job
<1>13. Phased(n) /\ Budgeted(n) /\ Fitting(n) /\ Covered(deployment, n)
  BY <1>1, <1>5, <1>12 DEF SearchInv, Phased, IsEarly, Fitting, Budgeted, Covered
<1>14. Untried(n)
  BY <1>4, <1>5, <1>10, <1>11, <1>12 DEF SearchInv, Untried
<1>15. OfficialOnly(deployment, n)
  BY <1>4, <1>5, <1>9, <1>12 DEF SearchInv, OfficialOnly
<1>16. SearchInv(deployment, n)
  BY <1>13, <1>14, <1>15 DEF SearchInv
<1> QED BY <1>1, <1>8, <1>16, ChangesOne

\* The first batch: the rest of the candidates stays in the pool.
LEMMA ScheduleStep ==
  ASSUME RetrievalTypes, NEW r \in Request, SearchInv(deployment, job[r]), Schedule(r)
  PROVE  OnlyJob(r)
<1>1. job[r] \in Job /\ job[r].phase = "hydrating" /\ deployment' = deployment
  BY DEF RetrievalTypes, Schedule, At
<1>2. /\ job[r].raw \in Seq(Doc) /\ FirstBatch \in Nat /\ FirstBatch <= MaxResults
      /\ MaxResults \in Nat /\ CandidateBudget \in Nat
  BY <1>1, RetrievalAssumption DEF Job, FirstBatch
<1>3. PICK batch \in Seq(Doc) :
        /\ batch = Diversify(job[r].raw, history \cup job[r].known, FirstBatch)
        /\ Len(batch) <= FirstBatch /\ ToSet(batch) \subseteq ToSet(job[r].raw) /\ IsInjective(batch)
  BY <1>2, DiversifyFacts
<1>4. PICK pool \in Seq(Doc) :
        /\ pool = Without(job[r].raw, ToSet(batch)) /\ Len(pool) <= Len(job[r].raw)
        /\ ToSet(pool) = ToSet(job[r].raw) \ ToSet(batch)
  BY <1>2, WithoutFacts
<1>5. PICK n \in Job :
        n = [job[r] EXCEPT !.phase = "fetching", !.batch = batch, !.known = {}, !.pool = pool]
  BY <1>1 DEF Job
<1>6. job' = [job EXCEPT ![r] = n]
  BY <1>3, <1>4, <1>5 DEF Schedule
<1>7. /\ job[r].built = <<>> /\ job[r].evidences = <<>> /\ job[r].tried = <<>> /\ job[r].round = "initial"
      /\ Docs(<<>>) = {} /\ Len(<<>>) = 0
  BY <1>1 DEF SearchInv, Phased, IsEarly, Docs
<1>8. <<>> \o <<>> = <<>> /\ DOMAIN <<>> = {}
  OBVIOUS
<1>9. /\ n.phase = "fetching" /\ n.round = job[r].round /\ n.next = job[r].next
       /\ n.won = job[r].won /\ n.raw = job[r].raw /\ n.known = {}
       /\ n.pool = pool /\ n.batch = batch /\ n.built = job[r].built
       /\ n.evidences = job[r].evidences /\ n.tried = job[r].tried /\ n.extracts = job[r].extracts
       /\ n.paid = job[r].paid
  BY <1>1, <1>5 DEF Job
<1>10. Budgeted(n)
  BY <1>2, <1>4, <1>9 DEF SearchInv, Budgeted
<1>11. Phased(n)
  BY <1>7, <1>8, <1>9 DEF Phased, IsEarly
<1>12. Fitting(n)
  BY <1>2, <1>3, <1>7, <1>9 DEF SearchInv, Fitting
<1>13. Untried(n)
  BY <1>3, <1>4, <1>7, <1>8, <1>9 DEF Untried
<1>14. OfficialOnly(deployment, n)
  BY <1>3, <1>4, <1>7, <1>9 DEF SearchInv, OfficialOnly
<1>15. Covered(deployment, n)
  BY <1>4, <1>7, <1>9 DEF Covered
<1>16. SearchInv(deployment, n)
  BY <1>11, <1>10, <1>12, <1>13, <1>14, <1>15 DEF SearchInv
<1> QED BY <1>1, <1>6, <1>16, ChangesOne

\* The next document of the batch is built, with whatever contexts.
Builds(j, e, n) ==
  /\ n.phase = j.phase /\ n.round = j.round /\ n.raw = j.raw /\ n.pool = j.pool
  /\ n.evidences = j.evidences /\ n.batch = Tail(j.batch)
  /\ n.built = Append(j.built, e) /\ n.tried = Append(j.tried, e)
  /\ n.extracts = n.paid /\ n.paid <= MaxExtracts

\* That document moves from the batch to what was tried.
LEMMA BuildStep ==
  ASSUME NEW d, NEW j \in Job, SearchInv(d, j), j.phase = "fetching", j.batch # <<>>,
         NEW e \in Evidence, e.doc = Head(j.batch),
         NEW n \in Job, Builds(j, e, n)
  PROVE  SearchInv(d, n)
<1>1. /\ j.batch \in Seq(Doc) /\ j.built \in Seq(Evidence) /\ j.tried \in Seq(Evidence)
      /\ j.evidences \in Seq(Evidence) /\ IsInjective(j.batch)
  BY DEF Job, SearchInv, Untried
<1>2. /\ Tail(j.batch) \in Seq(Doc) /\ Len(Tail(j.batch)) = Len(j.batch) - 1
      /\ e.doc \in ToSet(j.batch) /\ ToSet(Tail(j.batch)) = ToSet(j.batch) \ {e.doc}
      /\ IsInjective(Tail(j.batch))
  BY <1>1, HeadAndTail
<1>3. PICK tried \in Seq(Evidence) : tried = j.tried
  BY <1>1
<1>4. /\ Len(Append(tried, e)) = Len(tried) + 1 /\ Len(tried) \in Nat
      /\ DOMAIN Append(tried, e) = 1..(Len(tried) + 1) /\ DOMAIN tried = 1..Len(tried)
      /\ Append(tried, e)[Len(tried) + 1] = e
      /\ \A k \in 1..Len(tried) : Append(tried, e)[k] = tried[k]
      /\ Docs(Append(tried, e)) = Docs(tried) \cup {e.doc}
  BY EvidenceBuilt
<1>5. Phased(n)
  <2>1. j.evidences \o Append(j.built, e) = Append(j.evidences \o j.built, e)
    <3>1. \A s, t \in Seq(Evidence) : s \o Append(t, e) = Append(s \o t, e)
      BY AppendToConcat
    <3> QED BY <1>1, <3>1, Zenon
  <2>2. j.tried = j.evidences \o j.built
    BY DEF SearchInv, Phased
  <2>3. n.tried = n.evidences \o n.built
    BY <2>1, <2>2, Zenon DEF Builds
  <2> QED BY <2>3 DEF Phased, IsEarly, Builds
<1>6. Fitting(n)
  <2>1. Len(n.tried) = Len(j.tried) + 1 /\ Len(n.batch) = Len(j.batch) - 1
    BY <1>2, <1>3, <1>4 DEF Builds
  <2>2. Len(j.tried) \in Nat /\ Len(j.batch) \in Nat
    BY <1>1
  <2>3. Len(n.tried) + Len(n.batch) = Len(j.tried) + Len(j.batch)
    <3>1. PICK k \in Nat, l \in Nat : k = Len(j.tried) /\ l = Len(j.batch)
      BY <2>2
    <3>2. Len(n.tried) = k + 1 /\ Len(n.batch) = l - 1
      BY <2>1, <3>1
    <3>3. (k + 1) + (l - 1) = k + l
      OBVIOUS
    <3> QED BY <3>1, <3>2, <3>3, Zenon
  <2> QED BY <2>3 DEF SearchInv, Fitting, Builds
<1>7. Untried(n)
  <2>1. e.doc \notin Docs(j.tried) /\ e.doc \notin ToSet(j.pool)
    BY <1>2 DEF SearchInv, Untried
  <2>2. \A k, l \in DOMAIN n.tried : n.tried[k].doc = n.tried[l].doc => k = l
    <3>1. \A k \in 1..Len(tried) : tried[k].doc # e.doc
      BY <1>3, <1>4, <2>1 DEF Docs
    <3>2. \A k, l \in 1..Len(tried) : tried[k].doc = tried[l].doc => k = l
      BY <1>3, <1>4 DEF SearchInv, Untried
    <3>3. \A k \in 1..(Len(tried) + 1) : k \in 1..Len(tried) \/ k = Len(tried) + 1
      BY <1>4
    <3>4. \A k, l \in 1..(Len(tried) + 1) :
            Append(tried, e)[k].doc = Append(tried, e)[l].doc => k = l
      BY <1>4, <3>1, <3>2, <3>3
    <3> QED BY <1>3, <1>4, <3>4 DEF Builds
  <2> QED BY <1>2, <1>3, <1>4, <2>1, <2>2 DEF SearchInv, Untried, Builds
<1>8. OfficialOnly(d, n)
  BY <1>2, <1>3, <1>4 DEF SearchInv, OfficialOnly, Builds
<1>9. Budgeted(n)
  BY DEF SearchInv, Budgeted, Builds
<1>10. Covered(d, n)
  BY <1>2, <1>3, <1>4 DEF SearchInv, Covered, Builds
<1> QED BY <1>5, <1>6, <1>7, <1>8, <1>9, <1>10 DEF SearchInv

\* It may be listed without a download.
LEMMA ListStep ==
  ASSUME RetrievalTypes, NEW r \in Request, SearchInv(deployment, job[r]), List(r)
  PROVE  OnlyJob(r)
<1>1. /\ job[r] \in Job /\ job[r].phase = "fetching" /\ job[r].batch # <<>> /\ deployment' = deployment
  BY DEF RetrievalTypes, List, At
<1>2. job[r].batch \in Seq(Doc) /\ Head(job[r].batch) \in Doc /\ Tail(job[r].batch) \in Seq(Doc)
  BY <1>1, HeadAndTail DEF Job, SearchInv, Untried
<1>3. PICK e \in Evidence : e = [doc |-> Head(job[r].batch), contexts |-> 0, direct |-> "none"]
  BY <1>2 DEF Evidence
<1>4. Append(job[r].built, e) \in Seq(Evidence) /\ Append(job[r].tried, e) \in Seq(Evidence)
  BY <1>1 DEF Job
<1>5. PICK n \in Job :
        n = [job[r] EXCEPT !.batch = Tail(job[r].batch), !.built = Append(job[r].built, e),
                           !.tried = Append(job[r].tried, e)]
  BY <1>1, <1>2, <1>4 DEF Job
<1>6. job' = [job EXCEPT ![r] = n]
  BY <1>3, <1>5 DEF List
<1>7. /\ n.phase = job[r].phase /\ n.round = job[r].round /\ n.next = job[r].next
       /\ n.won = job[r].won /\ n.raw = job[r].raw /\ n.known = job[r].known
       /\ n.pool = job[r].pool /\ n.batch = Tail(job[r].batch) /\ n.built = Append(job[r].built, e)
       /\ n.evidences = job[r].evidences /\ n.tried = Append(job[r].tried, e) /\ n.extracts = job[r].extracts
       /\ n.paid = job[r].paid
  BY <1>1, <1>5 DEF Job
<1>8. job[r].extracts = job[r].paid /\ job[r].paid <= MaxExtracts /\ e.doc = Head(job[r].batch)
  BY <1>3 DEF SearchInv, Budgeted
<1>9. Builds(job[r], e, n)
  BY <1>7, <1>8 DEF Builds
<1>10. SearchInv(deployment, n)
  BY <1>1, <1>8, <1>9, BuildStep
<1> QED BY <1>1, <1>6, <1>10, ChangesOne

\* An acquisition pays at most one extraction, and only within the budget.
LEMMA AcquisitionFacts ==
  ASSUME RetrievalTypes, NEW r \in Request, NEW doc, NEW a \in Acquisitions(r, doc)
  PROVE  /\ a.direct \in {"none", "ok", "unusable", "failed"}
         /\ a.paid = 0 \/ (a.paid = 1 /\ job[r].extracts < MaxExtracts)
<1> DEFINE Good(x) == /\ x.direct \in {"none", "ok", "unusable", "failed"}
                      /\ x.paid = 0 \/ (x.paid = 1 /\ job[r].extracts < MaxExtracts)
<1>1. ASSUME NEW direct \in {"none", "unusable", "failed"}, NEW x \in Extractions(r, direct)
      PROVE  Good(x)
  BY <1>1 DEF Extractions, NotAcquired, Extracted
<1>2. \/ a \in {FromSearch, FromCache, Downloaded}
      \/ \E direct \in {"none", "unusable", "failed"} : a \in Extractions(r, direct)
  BY DEF Acquisitions
<1>3. CASE a \in {FromSearch, FromCache, Downloaded}
  BY <1>3 DEF FromSearch, FromCache, Downloaded
<1> QED BY <1>1, <1>2, <1>3

\* Or downloaded.
LEMMA AcquireStep ==
  ASSUME RetrievalTypes, NEW r \in Request, SearchInv(deployment, job[r]), Acquire(r)
  PROVE  OnlyJob(r)
<1>1. /\ job[r] \in Job /\ job[r].phase = "fetching" /\ job[r].batch # <<>> /\ deployment' = deployment
  BY DEF RetrievalTypes, Acquire, At
<1>2. job[r].batch \in Seq(Doc) /\ Head(job[r].batch) \in Doc /\ Tail(job[r].batch) \in Seq(Doc)
  BY <1>1, HeadAndTail DEF Job, SearchInv, Untried
<1>3. PICK a \in Acquisitions(r, Head(job[r].batch)), m \in Nat :
        LET e == [doc |-> Head(job[r].batch), contexts |-> m, direct |-> a.direct]
        IN job' = [job EXCEPT ![r].batch = Tail(@), ![r].built = Append(@, e),
                              ![r].tried = Append(@, e),
                              ![r].extracts = @ + a.paid, ![r].paid = @ + a.paid]
  <2>1. PICK a \in Acquisitions(r, Head(job[r].batch)) :
          \E m \in 0..(IF a.ok THEN Least(PerSource, MaxContexts - Used(r)) ELSE 0) :
            LET e == [doc |-> Head(job[r].batch), contexts |-> m, direct |-> a.direct]
            IN job' = [job EXCEPT ![r].batch = Tail(@), ![r].built = Append(@, e),
                                  ![r].tried = Append(@, e),
                                  ![r].extracts = @ + a.paid, ![r].paid = @ + a.paid]
    BY Zenon DEF Acquire
  <2>2. PICK m \in 0..(IF a.ok THEN Least(PerSource, MaxContexts - Used(r)) ELSE 0) :
          LET e == [doc |-> Head(job[r].batch), contexts |-> m, direct |-> a.direct]
          IN job' = [job EXCEPT ![r].batch = Tail(@), ![r].built = Append(@, e),
                                ![r].tried = Append(@, e),
                                ![r].extracts = @ + a.paid, ![r].paid = @ + a.paid]
    BY <2>1
  <2>3. m \in Nat
    OBVIOUS
  <2> QED BY <2>2, <2>3, Zenon
<1>4. /\ a.direct \in {"none", "ok", "unusable", "failed"}
      /\ a.paid = 0 \/ (a.paid = 1 /\ job[r].extracts < MaxExtracts)
  BY AcquisitionFacts
<1>5. PICK e \in Evidence :
        /\ e = [doc |-> Head(job[r].batch), contexts |-> m, direct |-> a.direct]
        /\ e.doc = Head(job[r].batch)
  <2>1. [doc |-> Head(job[r].batch), contexts |-> m, direct |-> a.direct] \in Evidence
    BY <1>2, <1>4 DEF Evidence
  <2> QED BY <2>1
<1>6. Append(job[r].built, e) \in Seq(Evidence) /\ Append(job[r].tried, e) \in Seq(Evidence)
  BY <1>1 DEF Job
<1>7. /\ job[r].extracts = job[r].paid /\ job[r].paid <= MaxExtracts
      /\ job[r].extracts \in Nat /\ job[r].paid \in Nat /\ MaxExtracts \in Nat
  BY <1>1, RetrievalAssumption DEF SearchInv, Budgeted, Job
<1>8. PICK paid \in Nat :
        paid = job[r].paid + a.paid /\ paid = job[r].extracts + a.paid /\ paid <= MaxExtracts
  BY <1>4, <1>7
<1>9. PICK n \in Job :
        n = [job[r] EXCEPT !.batch = Tail(job[r].batch), !.built = Append(job[r].built, e),
                           !.tried = Append(job[r].tried, e), !.extracts = paid, !.paid = paid]
  BY <1>1, <1>2, <1>6 DEF Job
<1>10. job' = [job EXCEPT ![r] = n]
  BY <1>3, <1>5, <1>8, <1>9
<1>11. /\ n.phase = job[r].phase /\ n.round = job[r].round /\ n.next = job[r].next
       /\ n.won = job[r].won /\ n.raw = job[r].raw /\ n.known = job[r].known
       /\ n.pool = job[r].pool /\ n.batch = Tail(job[r].batch) /\ n.built = Append(job[r].built, e)
       /\ n.evidences = job[r].evidences /\ n.tried = Append(job[r].tried, e) /\ n.extracts = paid
       /\ n.paid = paid
  BY <1>1, <1>9 DEF Job
<1>12. Builds(job[r], e, n)
  BY <1>8, <1>11 DEF Builds
<1>13. SearchInv(deployment, n)
  BY <1>1, <1>5, <1>12, BuildStep
<1> QED BY <1>1, <1>10, <1>13, ChangesOne

\* What is joined keeps what can be cited, and loses only to the limit.
LEMMA JoinedFacts ==
  ASSUME NEW r \in Request, job[r] \in Job, SearchInv(deployment, job[r]), job[r].phase = "storing"
  PROVE  /\ Joined(r) \in Seq(Evidence) /\ Len(Joined(r)) <= MaxResults
         /\ Cited(Joined(r)) = Least(MaxResults, Cited(job[r].tried))
         /\ job[r].round # "tier" => Joined(r) = job[r].tried
         /\ Len(Joined(r)) < MaxResults => Len(job[r].evidences) < MaxResults
<1>1. MaxResults \in Nat
  BY RetrievalAssumption
<1>2. PICK old \in Seq(Evidence), new \in Seq(Evidence) :
        old = job[r].evidences /\ new = job[r].built
  BY DEF Job
<1>3. job[r].tried = old \o new
  BY <1>2, Zenon DEF SearchInv, Phased
<1>4. /\ Len(old \o new) = Len(old) + Len(new) /\ Len(old) \in Nat /\ Len(new) \in Nat
      /\ old \o new \in Seq(Evidence)
  OBVIOUS
<1>5. CASE job[r].round = "tier"
  <2>1. PICK E \in Seq(Evidence) :
          /\ E = Cut(Citable(old) \o Citable(new) \o Uncitable(old \o new), MaxResults)
          /\ Len(E) = Least(MaxResults, Len(old) + Len(new))
          /\ Cited(E) = Least(MaxResults, Cited(old \o new))
    BY TierOrder
  <2>2. Joined(r) = E
    BY <1>2, <1>5, <2>1 DEF Joined
  <2>3. Len(E) <= MaxResults /\ (Len(E) < MaxResults => Len(old) < MaxResults)
    BY <1>1, <1>4, <2>1 DEF Least
  <2> QED BY <1>2, <1>3, <1>5, <2>1, <2>2, <2>3
<1>6. CASE job[r].round # "tier"
  <2>1. Joined(r) = old \o new
    BY <1>2, <1>6 DEF Joined
  <2>2. PICK k \in Nat, l \in Nat : k = Len(job[r].tried) /\ l = Len(job[r].batch)
    BY Lengths
  <2>3. Len(old) + Len(new) <= MaxResults
    <3>1. k + l <= MaxResults
      BY <1>6, <2>2 DEF SearchInv, Fitting
    <3>2. k <= MaxResults
      BY <1>1, <3>1
    <3>3. k = Len(old) + Len(new)
      BY <1>3, <1>4, <2>2, Zenon
    <3> QED BY <3>2, <3>3
  <2>4. Cited(old \o new) \in Nat /\ Cited(old \o new) <= Len(old \o new)
    BY <1>4, CitableFacts
  <2>5. Cited(old \o new) = Least(MaxResults, Cited(old \o new))
    BY <1>1, <1>4, <2>3, <2>4 DEF Least
  <2>6. Len(old \o new) <= MaxResults /\ (Len(old \o new) < MaxResults => Len(old) < MaxResults)
    BY <1>1, <1>4, <2>3
  <2>7. Joined(r) = job[r].tried
    BY <1>3, <2>1, Zenon
  <2>8. Joined(r) \in Seq(Evidence) /\ Len(Joined(r)) <= MaxResults
    BY <1>4, <2>1, <2>6, Zenon
  <2>9. Cited(Joined(r)) = Least(MaxResults, Cited(job[r].tried))
    BY <1>3, <2>1, <2>5, Zenon
  <2>10. Len(Joined(r)) < MaxResults => Len(job[r].evidences) < MaxResults
    BY <1>2, <2>1, <2>6, Zenon
  <2> QED BY <2>7, <2>8, <2>9, <2>10
<1> QED BY <1>5, <1>6

\* The batch is joined.
LEMMA PersistStep ==
  ASSUME RetrievalTypes, NEW r \in Request, SearchInv(deployment, job[r]), Persist(r)
  PROVE  OnlyJob(r)
<1>1. job[r] \in Job /\ job[r].phase = "storing" /\ deployment' = deployment
  BY DEF RetrievalTypes, Persist, At
<1>2. PICK joined \in Seq(Evidence) :
        /\ joined = Joined(r) /\ Len(joined) <= MaxResults
        /\ Cited(joined) = Least(MaxResults, Cited(job[r].tried))
        /\ job[r].round # "tier" => joined = job[r].tried
        /\ Len(joined) < MaxResults => Len(job[r].evidences) < MaxResults
  BY <1>1, JoinedFacts
<1>3. <<>> \in Seq(Evidence)
  OBVIOUS
<1>4. PICK n \in Job : n = [job[r] EXCEPT !.phase = "choosing", !.evidences = joined, !.built = <<>>]
  BY <1>1, <1>3 DEF Job
<1>5. job' = [job EXCEPT ![r] = n]
  BY <1>2, <1>4 DEF Persist
<1>6. /\ n.phase = "choosing" /\ n.round = job[r].round /\ n.next = job[r].next
       /\ n.won = job[r].won /\ n.raw = job[r].raw /\ n.known = job[r].known
       /\ n.pool = job[r].pool /\ n.batch = job[r].batch /\ n.built = <<>>
       /\ n.evidences = joined /\ n.tried = job[r].tried /\ n.extracts = job[r].extracts
       /\ n.paid = job[r].paid
  BY <1>1, <1>4 DEF Job
<1>7. joined \o <<>> = joined
  OBVIOUS
<1>8. Phased(n)
  <2>1. job[r].batch = <<>>
    BY <1>1 DEF SearchInv, Phased
  <2> QED BY <1>2, <1>6, <1>7, <2>1 DEF Phased, IsEarly
<1>9. Fitting(n)
  BY <1>1, <1>2, <1>6 DEF SearchInv, Fitting
<1>10. Untried(n) /\ OfficialOnly(deployment, n) /\ Budgeted(n)
  BY <1>6 DEF SearchInv, Untried, OfficialOnly, Budgeted
<1>11. Covered(deployment, n)
  BY <1>1, <1>2, <1>6 DEF SearchInv, Covered
<1>12. SearchInv(deployment, n)
  BY <1>8, <1>9, <1>10, <1>11 DEF SearchInv
<1> QED BY <1>1, <1>5, <1>12, ChangesOne

\* A refill takes one candidate from the pool, and there is room for it.
LEMMA RefillStep ==
  ASSUME RetrievalTypes, NEW r \in Request, SearchInv(deployment, job[r]), Refill(r)
  PROVE  OnlyJob(r)
<1>1. /\ job[r] \in Job /\ job[r].phase = "choosing" /\ deployment' = deployment
      /\ job[r].round \in {"initial", "refill"} /\ Len(job[r].evidences) < MaxResults
  BY DEF RetrievalTypes, Refill, CanRefill, IsFirst, HasRoom, At
<1>2. job[r].pool \in Seq(Doc) /\ MaxResults \in Nat /\ 1 \in Nat /\ CandidateBudget \in Nat
  BY <1>1, RetrievalAssumption DEF Job
<1>3. PICK batch \in Seq(Doc) :
        /\ batch = Diversify(job[r].pool, history, 1)
        /\ Len(batch) <= 1 /\ ToSet(batch) \subseteq ToSet(job[r].pool) /\ IsInjective(batch)
  BY <1>2, DiversifyFacts
<1>4. PICK pool \in Seq(Doc) :
        /\ pool = Without(job[r].pool, ToSet(batch)) /\ Len(pool) <= Len(job[r].pool)
        /\ ToSet(pool) = ToSet(job[r].pool) \ ToSet(batch)
  BY <1>2, WithoutFacts
<1>5. PICK n \in Job :
        n = [job[r] EXCEPT !.phase = "fetching", !.round = "refill", !.batch = batch, !.pool = pool]
  BY <1>1 DEF Job
<1>6. job' = [job EXCEPT ![r] = n]
  BY <1>3, <1>4, <1>5 DEF Refill
<1>7. /\ n.phase = "fetching" /\ n.round = "refill" /\ n.next = job[r].next
       /\ n.won = job[r].won /\ n.raw = job[r].raw /\ n.known = job[r].known
       /\ n.pool = pool /\ n.batch = batch /\ n.built = job[r].built
       /\ n.evidences = job[r].evidences /\ n.tried = job[r].tried /\ n.extracts = job[r].extracts
       /\ n.paid = job[r].paid
  BY <1>1, <1>5 DEF Job
<1>8. /\ job[r].built = <<>> /\ job[r].batch = <<>> /\ job[r].tried = job[r].evidences
      /\ ToSet(<<>>) = {}
  BY <1>1, NothingBuilt DEF ToSet
<1>9. Phased(n)
  BY <1>1, <1>7, <1>8 DEF SearchInv, Phased, IsEarly
<1>10. Fitting(n)
  <2>1. PICK k \in Nat, l \in Nat : k = Len(job[r].evidences) /\ l = Len(batch)
    <3>1. Len(job[r].evidences) \in Nat /\ Len(batch) \in Nat
      BY <1>1, Lengths
    <3> QED BY <3>1, Zenon
  <2>2. k < MaxResults /\ l <= 1
    BY <1>1, <1>3, <2>1
  <2>3. k + l <= MaxResults
    BY <1>2, <2>2
  <2>4. Len(job[r].evidences) + Len(batch) <= MaxResults
    BY <2>1, <2>3
  <2> QED BY <1>1, <1>7, <1>8, <2>4 DEF SearchInv, Fitting
<1>11. Untried(n)
  BY <1>3, <1>4, <1>7 DEF SearchInv, Untried
<1>12. OfficialOnly(deployment, n)
  BY <1>3, <1>4, <1>7 DEF SearchInv, OfficialOnly
<1>13. Budgeted(n)
  BY <1>2, <1>4, <1>7 DEF SearchInv, Budgeted
<1>14. Covered(deployment, n)
  BY <1>1, <1>4, <1>7, <1>8 DEF SearchInv, Covered
<1>15. SearchInv(deployment, n)
  BY <1>9, <1>10, <1>11, <1>12, <1>13, <1>14 DEF SearchInv
<1> QED BY <1>1, <1>6, <1>15, ChangesOne

\* The pool is given up only when it is empty, or when nothing fits any more.
LEMMA RecoverStep ==
  ASSUME RetrievalTypes, NEW r \in Request, SearchInv(deployment, job[r]), Recover(r)
  PROVE  OnlyJob(r)
<1>1. /\ job[r] \in Job /\ job[r].phase = "choosing" /\ deployment' = deployment
      /\ job[r].round \in {"initial", "refill"} /\ CanRecover(r)
  BY DEF RetrievalTypes, Recover, CanRecover, IsFirst, At
<1>2. job[r].pool \in Seq(Doc) /\ MaxResults \in Nat /\ 1 \in Nat /\ CandidateBudget \in Nat
  BY <1>1, RetrievalAssumption DEF Job
<1>3. Len(job[r].evidences) < MaxResults => job[r].pool = <<>>
  <2>1. HasRoom(r) => Diversify(job[r].pool, history, 1) = <<>>
    BY <1>1 DEF CanRecover, CanRefill
  <2>2. job[r].pool # <<>> => Diversify(job[r].pool, history, 1) # <<>>
    BY <1>2, DiversifyFacts
  <2> QED BY <2>1, <2>2 DEF HasRoom
<1>4. PICK round \in {"tier", "fallback"} : round = IF deployment.tier THEN "tier" ELSE "fallback"
  OBVIOUS
<1>5. round = "fallback" => Len(job[r].evidences) < MaxResults
  BY <1>1, <1>4 DEF CanRecover, HasRoom
<1>6. Cited(job[r].evidences) < Target
  BY <1>1, CitedFacts DEF CanRecover
<1>7. <<>> \in Seq(Doc)
  OBVIOUS
<1>8. PICK n \in Job :
        n = [job[r] EXCEPT !.phase = "searching", !.next = 1, !.pool = <<>>, !.round = round]
  BY <1>1, <1>2, <1>7 DEF Job
<1>9. job' = [job EXCEPT ![r] = n]
  BY <1>4, <1>8 DEF Recover
<1>10. /\ n.phase = "searching" /\ n.round = round /\ n.next = 1
       /\ n.won = job[r].won /\ n.raw = job[r].raw /\ n.known = job[r].known
       /\ n.pool = <<>> /\ n.batch = job[r].batch /\ n.built = job[r].built
       /\ n.evidences = job[r].evidences /\ n.tried = job[r].tried /\ n.extracts = job[r].extracts
       /\ n.paid = job[r].paid
  BY <1>1, <1>8 DEF Job
<1>11. /\ job[r].built = <<>> /\ job[r].batch = <<>> /\ job[r].tried = job[r].evidences
       /\ ToSet(<<>>) = {} /\ Len(<<>>) = 0
  BY <1>1, NothingBuilt DEF ToSet
<1>12. Phased(n)
  BY <1>1, <1>10, <1>11 DEF SearchInv, Phased, IsEarly
<1>13. Fitting(n)
  BY <1>1, <1>5, <1>6, <1>10 DEF SearchInv, Fitting
<1>14. Untried(n) /\ OfficialOnly(deployment, n)
  BY <1>10, <1>11 DEF SearchInv, Untried, OfficialOnly
<1>15. Budgeted(n)
  BY <1>2, <1>10, <1>11 DEF SearchInv, Budgeted
<1>16. Covered(deployment, n)
  BY <1>1, <1>3, <1>10, <1>11 DEF SearchInv, Covered
<1>17. SearchInv(deployment, n)
  BY <1>12, <1>13, <1>14, <1>15, <1>16 DEF SearchInv
<1> QED BY <1>1, <1>9, <1>17, ChangesOne

\* The other search fills the room that is left; the tier is cut later.
LEMMA ScheduleAgainStep ==
  ASSUME RetrievalTypes, NEW r \in Request, SearchInv(deployment, job[r]), ScheduleAgain(r)
  PROVE  OnlyJob(r)
<1>1. /\ job[r] \in Job /\ job[r].phase = "searching" /\ deployment' = deployment
      /\ job[r].round \in {"fallback", "tier"}
  BY DEF RetrievalTypes, ScheduleAgain, SearchIsOver, At, SearchInv, Phased, Job
<1>2. job[r].pool \in Seq(Doc) /\ MaxResults \in Nat /\ CandidateBudget \in Nat /\ Target \in Nat
  BY <1>1, RetrievalAssumption DEF Job
<1>3. /\ Cited(job[r].evidences) \in Nat /\ Cited(job[r].evidences) <= Len(job[r].evidences)
      /\ Len(job[r].evidences) \in Nat /\ Len(job[r].evidences) <= MaxResults
      /\ Len(Citable(job[r].evidences)) = Cited(job[r].evidences)
  <2>1. job[r].evidences \in Seq(Evidence)
    BY <1>1 DEF Job
  <2>2. /\ Cited(job[r].evidences) \in Nat /\ Cited(job[r].evidences) <= Len(job[r].evidences)
        /\ Len(Citable(job[r].evidences)) = Cited(job[r].evidences)
    BY <2>1, CitableFacts
  <2>3. Len(job[r].evidences) <= MaxResults
    BY <1>1 DEF SearchInv, Fitting
  <2> QED BY <1>1, <2>2, <2>3, Lengths
<1>4. PICK size \in Nat :
        /\ size = IF job[r].round = "tier" THEN CandidateBudget ELSE Missing(r)
        /\ job[r].round = "fallback" => Len(job[r].evidences) + size <= MaxResults
  <2>1. CASE job[r].round = "tier"
    BY <1>2, <2>1
  <2>2. CASE job[r].round = "fallback"
    <3>1. Len(job[r].evidences) < MaxResults /\ Cited(job[r].evidences) < Target
      BY <1>1, <2>2 DEF SearchInv, Fitting
    <3>2. Missing(r) \in Nat /\ Len(job[r].evidences) + Missing(r) <= MaxResults
      BY <1>2, <1>3, <3>1 DEF Missing, Least
    <3> QED BY <2>2, <3>2
  <2> QED BY <1>1, <2>1, <2>2
<1>5. PICK batch \in Seq(Doc) :
        /\ batch = Diversify(job[r].pool, history, size)
        /\ Len(batch) <= size /\ ToSet(batch) \subseteq ToSet(job[r].pool) /\ IsInjective(batch)
  BY <1>2, DiversifyFacts
<1>6. PICK phase \in {"choosing", "fetching"} : phase = IF batch = <<>> THEN "choosing" ELSE "fetching"
  OBVIOUS
<1>7. <<>> \in Seq(Doc)
  OBVIOUS
<1>8. PICK n \in Job : n = [job[r] EXCEPT !.phase = phase, !.batch = batch, !.pool = <<>>]
  BY <1>1, <1>7 DEF Job
<1>9. job' = [job EXCEPT ![r] = n]
  BY <1>4, <1>5, <1>6, <1>8 DEF ScheduleAgain
<1>10. /\ n.phase = phase /\ n.round = job[r].round /\ n.next = job[r].next
       /\ n.won = job[r].won /\ n.raw = job[r].raw /\ n.known = job[r].known
       /\ n.pool = <<>> /\ n.batch = batch /\ n.built = job[r].built
       /\ n.evidences = job[r].evidences /\ n.tried = job[r].tried /\ n.extracts = job[r].extracts
       /\ n.paid = job[r].paid
  BY <1>1, <1>8 DEF Job
<1>11. /\ job[r].built = <<>> /\ job[r].tried = job[r].evidences
       /\ ToSet(<<>>) = {} /\ Len(<<>>) = 0
  BY <1>1, NothingBuilt DEF ToSet
<1>12. Phased(n)
  BY <1>1, <1>6, <1>10, <1>11 DEF SearchInv, Phased, IsEarly
<1>13. Fitting(n)
  <2>1. Cited(job[r].evidences) = Least(MaxResults, Cited(job[r].evidences))
    BY <1>2, <1>3 DEF Least
  <2>2. job[r].round = "fallback" => Len(job[r].evidences) + Len(batch) <= MaxResults
    <3>1. PICK k \in Nat, l \in Nat : k = Len(job[r].evidences) /\ l = Len(batch)
      <4>1. Len(job[r].evidences) \in Nat /\ Len(batch) \in Nat
        BY <1>1, Lengths
      <4> QED BY <4>1, Zenon
    <3>2. l <= size
      BY <1>5, <3>1
    <3>3. ASSUME job[r].round = "fallback" PROVE k + size <= MaxResults
      BY <1>4, <3>1, <3>3
    <3>4. k + size <= MaxResults => k + l <= MaxResults
      BY <1>2, <3>2
    <3> QED BY <3>1, <3>3, <3>4
  <2> QED BY <1>1, <1>3, <1>6, <1>10, <1>11, <2>1, <2>2 DEF Fitting
<1>14. Untried(n)
  BY <1>5, <1>10, <1>11 DEF SearchInv, Untried
<1>15. OfficialOnly(deployment, n)
  BY <1>5, <1>10, <1>11 DEF SearchInv, OfficialOnly
<1>16. Budgeted(n)
  BY <1>2, <1>10, <1>11 DEF SearchInv, Budgeted
<1>17. Covered(deployment, n)
  BY <1>1, <1>6, <1>10 DEF SearchInv, Covered
<1>18. SearchInv(deployment, n)
  BY <1>12, <1>13, <1>14, <1>15, <1>16, <1>17 DEF SearchInv
<1> QED BY <1>1, <1>9, <1>18, ChangesOne

-----------------------------------------------------------------------------
(* The searches together, and what follows                                 *)

\* What a step of one request leaves of the others.
LEMMA JobsKept ==
  ASSUME RetrievalInv, NEW r \in Request, OnlyJob(r)
  PROVE  /\ deployment' \in Deployment /\ job' \in [Request -> Job]
         /\ \A q \in Request : SearchInv(deployment', job'[q])
         /\ \A q \in Request : job[q].phase = "answered" => job'[q] = job[q]
<1>1. \A q \in Request : q = r \/ job'[q] = job[q]
  BY DEF OnlyJob
<1> QED BY <1>1 DEF RetrievalInv, RetrievalTypes, OnlyJob

\* An answer that is cached stays, for answered requests do not change.
LEMMA CacheKept ==
  ASSUME RetrievalTypes, CacheInv, cache' = cache,
         \A q \in Request : job[q].phase = "answered" => job'[q] = job[q]
  PROVE  CacheInv'
<1> SUFFICES ASSUME NEW k \in Key, cache[k] # NoEntry
             PROVE  LET by == cache[k][1].by
                    IN job'[by].phase = "answered" /\ job'[by].won
                         /\ cache[k][1].evidences = job'[by].evidences
  BY DEF CacheInv, NoEntry
<1>1. cache[k][1] \in [by : Request, evidences : Seq(Evidence)]
  BY FirstOfSequence DEF RetrievalTypes, NoEntry
<1>2. cache[k][1].by \in Request
  BY <1>1
<1> QED BY <1>2 DEF CacheInv

\* Nothing is known at first.
LEMMA RetrievalInitial == Init => RetrievalInv
<1> SUFFICES ASSUME Init PROVE RetrievalInv
  OBVIOUS
<1>1. <<>> \in Seq(Doc) /\ <<>> \in Seq(Evidence) /\ DOMAIN <<>> = {} /\ Len(<<>>) = 0
      /\ <<>> \o <<>> = <<>>
  OBVIOUS
<1>2. PICK n \in Job : n = NewJob
  BY <1>1 DEF NewJob, Job
<1>3. ToSet(<<>>) = {} /\ Docs(<<>>) = {} /\ IsInjective(<<>>)
  BY DEF ToSet, Docs, IsInjective
<1>4. MaxResults \in Nat /\ CandidateBudget \in Nat /\ MaxExtracts \in Nat
  BY RetrievalAssumption
<1>5. /\ n.phase = "new" /\ n.round = "initial" /\ n.raw = <<>> /\ n.pool = <<>> /\ n.batch = <<>>
      /\ n.built = <<>> /\ n.evidences = <<>> /\ n.tried = <<>> /\ n.extracts = 0 /\ n.paid = 0
  BY <1>2 DEF NewJob
<1>6. SearchInv(deployment, n)
  BY <1>1, <1>3, <1>4, <1>5
     DEF SearchInv, Phased, IsEarly, Fitting, Untried, OfficialOnly, Budgeted, Covered
<1>7. job = [r \in Request |-> n] /\ \A r \in Request : job[r] = n
  BY <1>2 DEF Init
<1>8. deployment \in Deployment
  BY RetrievalAssumption DEF Init
<1>9. cache \in [Key -> Seq([by : Request, evidences : Seq(Evidence)])] /\ CacheInv
  <2>1. <<>> \in Seq([by : Request, evidences : Seq(Evidence)])
    OBVIOUS
  <2> QED BY <2>1 DEF Init, CacheInv, NoEntry
<1> QED BY <1>6, <1>7, <1>8, <1>9 DEF RetrievalInv, RetrievalTypes

\* Every step keeps the invariant.
LEMMA RetrievalInductive == RetrievalInv /\ [Next]_vars => RetrievalInv'
<1> SUFFICES ASSUME RetrievalInv, [Next]_vars PROVE RetrievalInv'
  OBVIOUS
<1>1. RetrievalTypes /\ CacheInv /\ \A r \in Request : SearchInv(deployment, job[r])
  BY DEF RetrievalInv
<1>2. ASSUME NEW r \in Request, OnlyJob(r), cache' = cache PROVE RetrievalInv'
  <2>1. /\ deployment' \in Deployment /\ job' \in [Request -> Job]
        /\ \A q \in Request : SearchInv(deployment', job'[q])
        /\ \A q \in Request : job[q].phase = "answered" => job'[q] = job[q]
    BY <1>2, JobsKept
  <2>2. CacheInv'
    BY <1>1, <1>2, <2>1, CacheKept
  <2> QED BY <1>1, <1>2, <2>1, <2>2 DEF RetrievalInv, RetrievalTypes
<1>3. ASSUME NEW r \in Request, Respond(r) PROVE RetrievalInv'
  <2>1. OnlyJob(r) /\ job'[r].phase = "answered" /\ job'[r].won /\ job'[r].evidences = job[r].evidences
    BY <1>1, <1>3, RespondStep
  <2>2. /\ deployment' \in Deployment /\ job' \in [Request -> Job]
        /\ \A q \in Request : SearchInv(deployment', job'[q])
        /\ \A q \in Request : job[q].phase = "answered" => job'[q] = job[q]
    BY <2>1, JobsKept
  <2>3. PICK e \in [by : Request, evidences : Seq(Evidence)] :
          e = [by |-> r, evidences |-> job[r].evidences] /\ e.by = r /\ e.evidences = job[r].evidences
    <3>1. job[r].evidences \in Seq(Evidence)
      BY <1>1 DEF RetrievalTypes, Job
    <3>2. [by |-> r, evidences |-> job[r].evidences] \in [by : Request, evidences : Seq(Evidence)]
      BY <3>1
    <3> QED BY <3>2
  <2>4. cache' = [cache EXCEPT ![KeyOf[r]] = <<e>>] /\ KeyOf[r] \in Key
    BY <1>3, <2>3, RetrievalAssumption DEF Respond
  <2>5. <<e>> \in Seq([by : Request, evidences : Seq(Evidence)]) /\ <<e>>[1] = e
    BY <2>3
  <2>6. cache' \in [Key -> Seq([by : Request, evidences : Seq(Evidence)])]
    BY <1>1, <2>4, <2>5 DEF RetrievalTypes
  <2>7. \A k \in Key : cache'[k] = IF k = KeyOf[r] THEN <<e>> ELSE cache[k]
    BY <1>1, <2>4 DEF RetrievalTypes
  <2>8. CacheInv'
    <3> SUFFICES ASSUME NEW k \in Key, cache'[k] # NoEntry
                 PROVE  LET by == cache'[k][1].by
                        IN job'[by].phase = "answered" /\ job'[by].won
                             /\ cache'[k][1].evidences = job'[by].evidences
      BY DEF CacheInv, NoEntry
    <3>1. CASE k = KeyOf[r]
      BY <2>1, <2>3, <2>5, <2>7, <3>1
    <3>2. CASE k # KeyOf[r]
      <4>1. cache'[k] = cache[k]
        BY <2>7, <3>2
      <4>2. cache[k][1] \in [by : Request, evidences : Seq(Evidence)]
        BY <1>1, <4>1, FirstOfSequence DEF RetrievalTypes, NoEntry
      <4>3. cache[k][1].by \in Request
        BY <4>2
      <4> QED BY <1>1, <2>2, <4>1, <4>3 DEF CacheInv
    <3> QED BY <3>1, <3>2
  <2> QED BY <2>2, <2>6, <2>8 DEF RetrievalInv, RetrievalTypes
<1>4. CASE Expire
  <2>1. deployment' = deployment /\ job' = job
    BY <1>4 DEF Expire
  <2>2. CASE cache' = cache
    BY <1>1, <2>1, <2>2 DEF RetrievalInv, RetrievalTypes, CacheInv
  <2>3. CASE \E k \in Key : cache' = [cache EXCEPT ![k] = NoEntry]
    <3>1. PICK k \in Key : cache' = [cache EXCEPT ![k] = NoEntry]
      BY <2>3
    <3>2. <<>> \in Seq([by : Request, evidences : Seq(Evidence)])
      OBVIOUS
    <3>3. cache' \in [Key -> Seq([by : Request, evidences : Seq(Evidence)])]
      BY <1>1, <3>1, <3>2 DEF RetrievalTypes, NoEntry
    <3>4. \A x \in Key : cache'[x] = NoEntry \/ cache'[x] = cache[x]
      BY <1>1, <3>1 DEF RetrievalTypes
    <3>5. CacheInv'
      BY <1>1, <2>1, <3>4 DEF CacheInv, NoEntry
    <3> QED BY <1>1, <2>1, <3>3, <3>5 DEF RetrievalInv, RetrievalTypes
  <2> QED BY <1>4, <2>2, <2>3 DEF Expire
<1>5. CASE UNCHANGED vars
  <2>1. deployment' = deployment /\ job' = job /\ cache' = cache
    BY <1>5 DEF vars, shared
  <2> QED BY <1>1, <2>1 DEF RetrievalInv, RetrievalTypes, CacheInv
<1>6. ASSUME NEW r \in Request, RequestStep(r), ~ Respond(r) PROVE OnlyJob(r) /\ cache' = cache
  <2>1. CASE CacheHit(r)
    BY <1>1, <2>1, CacheHitStep DEF CacheHit, shared
  <2>2. CASE Begin(r)
    BY <1>1, <2>2, BeginStep DEF Begin, shared
  <2>3. CASE CacheFails(r) \/ NoProvider(r) \/ AllFailed(r)
    BY <1>1, <2>3, FailingStep DEF CacheFails, NoProvider, AllFailed, shared
  <2>4. CASE SkipRelaxed(r) \/ SearchFails(r)
    BY <1>1, <2>4, SkippingStep DEF SkipRelaxed, SearchFails, shared
  <2>5. CASE Search(r)
    BY <1>1, <2>5, SearchStep DEF Search, shared
  <2>6. CASE SearchAgain(r) \/ SearchTier(r)
    BY <1>1, <2>6, PoolStep DEF SearchAgain, SearchTier, shared
  <2>7. CASE Hydrate(r)
    BY <1>1, <2>7, HydrateStep DEF Hydrate, shared
  <2>8. CASE Schedule(r)
    BY <1>1, <2>8, ScheduleStep DEF Schedule
  <2>9. CASE List(r)
    BY <1>1, <2>9, ListStep DEF List, shared
  <2>10. CASE Acquire(r)
    BY <1>1, <2>10, AcquireStep DEF Acquire
  <2>11. CASE Remember(r)
    BY <1>1, <2>11, RememberStep DEF Remember
  <2>12. CASE Persist(r)
    BY <1>1, <2>12, PersistStep DEF Persist
  <2>13. CASE Refill(r)
    BY <1>1, <2>13, RefillStep DEF Refill, shared
  <2>14. CASE Recover(r)
    BY <1>1, <2>14, RecoverStep DEF Recover, shared
  <2>15. CASE ScheduleAgain(r)
    BY <1>1, <2>15, ScheduleAgainStep DEF ScheduleAgain, shared
  <2> QED BY <1>6, <2>1, <2>2, <2>3, <2>4, <2>5, <2>6, <2>7, <2>8, <2>9, <2>10, <2>11, <2>12,
             <2>13, <2>14, <2>15 DEF RequestStep
<1> QED BY <1>2, <1>3, <1>4, <1>5, <1>6 DEF Next

\* What the invariant says of the policy.
LEMMA PolicyFollows == RetrievalInv => PolicyIsKept
<1> SUFFICES ASSUME RetrievalInv PROVE PolicyIsKept
  OBVIOUS
<1>1. ASSUME NEW r \in Request PROVE FetchedOnce(r) /\ WithinLimits(r) /\ KeepsToOfficial(r)
  <2>1. SearchInv(deployment, job[r])
    BY DEF RetrievalInv
  <2>2. FetchedOnce(r)
    BY <2>1 DEF SearchInv, Untried, FetchedOnce
  <2>3. WithinLimits(r)
    BY <2>1 DEF SearchInv, Fitting, Budgeted, WithinLimits, At
  <2>4. KeepsToOfficial(r)
    BY <2>1 DEF SearchInv, OfficialOnly, KeepsToOfficial, OnlyOfficial
  <2> QED BY <2>2, <2>3, <2>4
<1>2. CacheInv
  BY DEF RetrievalInv
<1> QED BY <1>1, <1>2 DEF PolicyIsKept, CacheInv, At

\* For the candidates left.
LEMMA NoCandidateFollows == RetrievalInv => NoCandidateLeft
<1> SUFFICES ASSUME RetrievalInv, NEW r \in Request, At(r, "answered"), deployment.fullText,
                    Short(r), HasRoom(r)
             PROVE  ToSet(job[r].raw) \subseteq Docs(job[r].tried)
  BY DEF NoCandidateLeft
<1>1. job[r] \in Job /\ SearchInv(deployment, job[r])
  BY DEF RetrievalInv, RetrievalTypes
<1>2. Cited(job[r].evidences) < Target
  BY <1>1, CitedFacts
<1> QED BY <1>1, <1>2 DEF SearchInv, Covered, HasRoom, At

\* For what can be cited.
LEMMA CitableFollows == RetrievalInv => CitableIsKept
<1> SUFFICES ASSUME RetrievalInv, NEW r \in Request, At(r, "answered")
             PROVE  Len(Citable(job[r].evidences)) = Least(MaxResults, Len(Citable(job[r].tried)))
  BY DEF CitableIsKept
<1>1. job[r] \in Job /\ SearchInv(deployment, job[r])
  BY DEF RetrievalInv, RetrievalTypes
<1>2. job[r].evidences \in Seq(Evidence) /\ job[r].tried \in Seq(Evidence)
  BY <1>1 DEF Job
<1>3. /\ Len(Citable(job[r].evidences)) = Cited(job[r].evidences)
      /\ Len(Citable(job[r].tried)) = Cited(job[r].tried)
  BY <1>2, CitableFacts
<1> QED BY <1>1, <1>3 DEF SearchInv, Fitting, At

\* The invariant holds of every execution of POST /search/evidence.
THEOREM RetrievalTheorem == Spec => []RetrievalInv
<1> QED BY RetrievalInitial, RetrievalInductive, PTL DEF Spec

\* Whatever the refill, the second search and the tier add, a request downloads
\* a document once, stays within its limits and its official sources, and only
\* the answer of a search that succeeded is cached.
THEOREM PolicyTheorem == Spec => []PolicyIsKept
<1> QED BY RetrievalTheorem, PolicyFollows, PTL

\* However other requests change the history of unusable URLs meanwhile, a
\* response with too few citable sources and room for more has tried every
\* candidate that the first search returned.
THEOREM NoCandidateTheorem == Spec => []NoCandidateLeft
<1> QED BY RetrievalTheorem, NoCandidateFollows, PTL

\* No citable source that any round found is lost from a response, except to
\* the limit of results: the order in which the tier is joined sees to it.
THEOREM CitableTheorem == Spec => []CitableIsKept
<1> QED BY RetrievalTheorem, CitableFollows, PTL
=============================================================================
