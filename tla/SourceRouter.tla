------------------------------ MODULE SourceRouter ------------------------------
(***************************************************************************)
(* source-router: routes (which domains may answer a topic) and domain     *)
(* profiles, both kept in MongoDB, and the requests that resolve, refresh  *)
(* and share them between their awaits.                                    *)
(*                                                                         *)
(* A topic stands for the signature of a route.  Which domains a search    *)
(* finds and how the language model classifies them is left open; scores   *)
(* and languages, which only order the answer, are left out.               *)
(***************************************************************************)
EXTENDS Integers, FiniteSets

CONSTANTS
  Resolve,      \* requests
  TopicOf,      \* the topic of each
  Domain,
  Settings,     \* deployments: [provider, version, tier]
  NoRoute, NoProfile_,
  Refresh,      \* SOURCE_ROUTE_REFRESH_SECONDS
  ShortRefresh,   \* at most this for a route with unclassified domains
  LastTime,     \* bound: of the clock
  MaxRedeploys  \* bound

Topic == {TopicOf[r] : r \in Resolve}

Profile == [topics : SUBSET Topic, verified : 0..LastTime, version : {s.version : s \in Settings}]

ASSUME RouterAssumption ==
  /\ NoProfile_ \notin Profile
  /\ {Refresh, ShortRefresh} \subseteq Nat \ {0}
  /\ LastTime \in Nat /\ MaxRedeploys \in Nat
  /\ \A s \in Settings : s.tier \in BOOLEAN

VARIABLES
  settings,
  route,        \* per topic
  profileOf,    \* per domain
  resolves,     \* per request: where it stands and what it has read
  served,       \* per request: the domains it answered
  clock, redeploys,
  founded,      \* <<topic, domain, provider>>: eligible by a classification or a profile
  accepted      \* per domain: the last time a classification made it eligible

database == <<route, profileOf>>
past == <<founded, accepted>>
routerVars == <<settings, database, resolves, served, clock, redeploys, past>>

Waiting == [at |-> "waiting"]
Resolved == [at |-> "resolved"]

Min_(a, b) == IF a < b THEN a ELSE b

\* rank_sources leaves out candidates without a profile.
Ranked(known) ==
  IF known = NoRoute THEN {} ELSE {d \in known.candidates : profileOf[d] # NoProfile_}

Answer(r, domains) ==
  /\ resolves' = [resolves EXCEPT ![r] = Resolved]
  /\ served' = [served EXCEPT ![r] = domains]

-----------------------------------------------------------------------------
\* A route of another provider or search policy is as good as none.
Usable(known) == known # NoRoute /\ known.provider = settings.provider

\* now is read once, here.
Start_(r) ==
  /\ resolves[r] = Waiting
  /\ \E force \in BOOLEAN :
       LET known == route[TopicOf[r]]
           previous == IF ~ force /\ Usable(known) THEN known ELSE NoRoute
           fresh == /\ previous # NoRoute
                    /\ previous.version = settings.version /\ previous.until > clock
       IN  IF fresh
             THEN Answer(r, Ranked(previous))
             ELSE /\ resolves' = [resolves EXCEPT ![r] =
                       [at |-> "discovering", force |-> force, now |-> clock, previous |-> previous,
                        eligible |-> {}, rejected |-> {}, failed |-> {}, topics |-> << >>,
                        reused |-> {}]]
                  /\ UNCHANGED served
  /\ UNCHANGED <<settings, database, clock, redeploys, past>>

(* Each domain found is eligible, rejected, or left unclassified after the   *)
(* retries; a classification that fails leaves all of them so.  The second   *)
(* tier is tried when the first finds nothing eligible, and its failures are *)
(* swallowed with all it found.                                              *)
Classify(r, at, fresh) ==
  \E eligible \in SUBSET fresh : \E failed \in SUBSET (fresh \ eligible) :
    /\ resolves' = [resolves EXCEPT
         ![r].at = at,
         ![r].eligible = eligible,
         ![r].rejected = @ \cup (fresh \ (eligible \cup failed)),
         ![r].failed = @ \cup failed]
    /\ founded' = founded \cup {<<TopicOf[r], d, settings.provider>> : d \in eligible}
    /\ accepted' = [d \in Domain |-> IF d \in eligible THEN clock ELSE accepted[d]]

Discover(r) ==
  /\ resolves[r].at = "discovering"
  /\ \E found \in SUBSET Domain : Classify(r, "discovered", found)
  /\ UNCHANGED <<settings, database, served, clock, redeploys>>

TriesTier(r) == settings.tier /\ resolves[r].eligible = {}

DiscoverMore(r) ==
  /\ resolves[r].at = "discovered" /\ TriesTier(r)
  /\ \E found \in SUBSET (Domain \ (resolves[r].rejected \cup resolves[r].failed)) :
       Classify(r, "classified", found)
  /\ UNCHANGED <<settings, database, served, clock, redeploys>>

\* A profile gains the topics of each classification; those it had are read
\* before all are written.
ReadProfiles(r) ==
  /\ resolves[r].at = "classified" \/ (resolves[r].at = "discovered" /\ ~ TriesTier(r))
  /\ \E named \in [resolves[r].eligible -> SUBSET Topic] :
       resolves' = [resolves EXCEPT ![r].at = "profiling", ![r].rejected = {},
         ![r].topics = [d \in resolves[r].eligible |->
           named[d] \cup (IF profileOf[d] = NoProfile_ THEN {} ELSE profileOf[d].topics)]]
  /\ UNCHANGED <<settings, database, served, clock, redeploys, past>>

SaveProfiles(r) ==
  /\ resolves[r].at = "profiling"
  /\ profileOf' = [d \in Domain |->
       IF d \in resolves[r].eligible
         THEN [topics |-> resolves[r].topics[d], verified |-> resolves[r].now,
               version |-> settings.version]
         ELSE profileOf[d]]
  /\ resolves' = [resolves EXCEPT ![r].at = "profiled", ![r].topics = << >>]
  /\ UNCHANGED <<settings, route, served, clock, redeploys, past>>

Recent(r, d) ==
  /\ profileOf[d] # NoProfile_
  /\ profileOf[d].version = settings.version
  /\ profileOf[d].verified + Refresh > resolves[r].now
  /\ TopicOf[r] \in profileOf[d].topics

\* Unclassified domains are taken with their recent profiles, where these are
\* eligible.  Without any source, a stale route answers, or nothing.
Reuse(r) ==
  /\ resolves[r].at = "profiled"
  /\ \E reused \in SUBSET {d \in resolves[r].failed : ~ resolves[r].force /\ Recent(r, d)} :
       /\ founded' = founded \cup {<<TopicOf[r], d, settings.provider>> : d \in reused}
       /\ IF resolves[r].eligible \cup reused = {}
            THEN Answer(r, Ranked(resolves[r].previous))
            ELSE /\ resolves' = [resolves EXCEPT ![r].at = "saving", ![r].reused = reused]
                 /\ UNCHANGED served
  /\ UNCHANGED <<settings, database, clock, redeploys, accepted>>

\* Mutant: every route is fresh for the whole period.
FreshAlways(r) == Refresh
FreshFor(r) == IF resolves[r].failed # {} THEN Min_(Refresh, ShortRefresh) ELSE Refresh

\* The candidates of the route it read are preserved.
SaveRoute(r) ==
  /\ resolves[r].at = "saving"
  /\ LET known == resolves[r].previous
         candidates == resolves[r].eligible \cup resolves[r].reused
                         \cup (IF known = NoRoute THEN {} ELSE known.candidates)
     IN  route' = [route EXCEPT ![TopicOf[r]] =
           [candidates |-> candidates, provider |-> settings.provider,
            version |-> settings.version, until |-> resolves[r].now + FreshFor(r)]]
  /\ resolves' = [resolves EXCEPT ![r].at = "ranking"]
  /\ UNCHANGED <<settings, profileOf, served, clock, redeploys, past>>

Rank(r) ==
  /\ resolves[r].at = "ranking"
  /\ Answer(r, Ranked([candidates |-> resolves[r].eligible \cup resolves[r].reused
                         \cup (IF resolves[r].previous = NoRoute THEN {}
                               ELSE resolves[r].previous.candidates)]))
  /\ UNCHANGED <<settings, database, clock, redeploys, past>>

\* A search or a database that fails: the stale route, or an error.
Fails(r) ==
  /\ resolves[r] \notin {Waiting, Resolved}
  /\ Answer(r, Ranked(resolves[r].previous))
  /\ UNCHANGED <<settings, database, clock, redeploys, past>>

-----------------------------------------------------------------------------
\* The service starts again, maybe with other settings; requests under way are
\* lost and answers of the past are forgotten.
Redeploy ==
  /\ redeploys < MaxRedeploys /\ redeploys' = redeploys + 1
  /\ settings' \in Settings
  /\ resolves' = [r \in Resolve |-> IF resolves[r] = Waiting THEN Waiting ELSE Resolved]
  /\ served' = [r \in Resolve |-> {}]
  /\ UNCHANGED <<database, clock, past>>

Tick_ ==
  /\ clock < LastTime /\ clock' = clock + 1
  /\ UNCHANGED <<settings, database, resolves, served, redeploys, past>>

RouterInit ==
  /\ settings \in Settings
  /\ route = [t \in Topic |-> NoRoute]
  /\ profileOf = [d \in Domain |-> NoProfile_]
  /\ resolves = [r \in Resolve |-> Waiting]
  /\ served = [r \in Resolve |-> {}]
  /\ clock = 0 /\ redeploys = 0
  /\ founded = {}
  /\ accepted = [d \in Domain |-> -1]

RouterNext ==
  \/ \E r \in Resolve : \/ Start_(r) \/ Discover(r) \/ DiscoverMore(r) \/ ReadProfiles(r)
                        \/ SaveProfiles(r) \/ Reuse(r) \/ SaveRoute(r) \/ Rank(r) \/ Fails(r)
  \/ Redeploy \/ Tick_

RouterSpec == RouterInit /\ [][RouterNext]_routerVars

-----------------------------------------------------------------------------
(* A route rests on classifications: whatever requests share, lose and       *)
(* overwrite, each domain stored or served was eligible for its topic when   *)
(* the provider in use had found it; the date of a profile is never later    *)
(* than the last classification that accepted the domain, so profiles reused *)
(* after failures do not keep each other alive; and a route is fresh for less *)
(* than the refresh period and the short one after a domain of it was        *)
(* accepted.                                                                 *)
RoutesAreFounded ==
  /\ \A t \in Topic : route[t] # NoRoute =>
       /\ \A d \in route[t].candidates : <<t, d, route[t].provider>> \in founded
       /\ \E d \in route[t].candidates : route[t].until < accepted[d] + Refresh + ShortRefresh
  /\ \A r \in Resolve : \A d \in served[r] :
       <<TopicOf[r], d, settings.provider>> \in founded /\ profileOf[d] # NoProfile_
  /\ \A d \in Domain : profileOf[d] # NoProfile_ => profileOf[d].verified <= accepted[d]
=============================================================================
