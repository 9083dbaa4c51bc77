-------------------------------- MODULE Verdicts --------------------------------
(***************************************************************************)
(* The result of one assertion of one order: validations that were weighed *)
(* when they were recorded, records older than the weights, the weights    *)
(* the console sets, and the reputations of the validator cache.           *)
(***************************************************************************)
EXTENDS Integers, FiniteSets, Functions

CONSTANTS
  Voter,          \* validators of the assertion
  Kind,           \* types of validator
  DefaultWeights,
  Policies,       \* weights by type the console sets, in units of the least
  Profiles,       \* what the cache may know of a validator: type and reputation
  OldVoters,      \* validators that may have answered before weights were frozen
  NoProfile

ASSUME VerdictsAssumption ==
  /\ IsFiniteSet(Voter) /\ "LLM_MEMORY_VALIDATION" \in Kind
  /\ DefaultWeights \in Policies /\ Policies \subseteq [Kind -> Nat]
  /\ Profiles \subseteq [kind : Kind, reputation : Nat]
  /\ OldVoters \subseteq Voter

VARIABLES
  weights,      \* the document of admin
  loaded,       \* the copy news-handler took of it
  profile,      \* the validator cache
  votes         \* the validations of the assertion

verdictVars == <<weights, loaded, profile, votes>>

Approval == {"TRUE", "FALSE", "UNKNOWN"}

\* An old record keeps the profile of its validator, if it was known by then.
NoVote == [status |-> "none"]
Error == [status |-> "ERROR"]
Vote(approval, weight) == [status |-> "COMPLETED", approval |-> approval, frozen |-> weight]
OldVote(approval, known) == [status |-> "COMPLETED", approval |-> approval, known |-> known]

IsOld(vote) == "known" \in DOMAIN vote

-----------------------------------------------------------------------------
(* scoring.py.                                                               *)

LeastKind == [kind |-> "LLM_MEMORY_VALIDATION", reputation |-> 1]

\* A validator nobody knows counts as the least type with reputation 1.
WeightOf(known, policy) ==
  LET p == IF known = NoProfile THEN LeastKind ELSE known
  IN  policy[p.kind] * p.reputation

\* Mutant: the type weight in force is preferred to the frozen weight.
DynamicDetail(v, policy) ==
  WeightOf(IF IsOld(votes[v]) /\ votes[v].known # NoProfile THEN votes[v].known
           ELSE profile[v], policy)

\* The weight frozen with the validation, or for an old one what the cache and
\* the policy say now.
Detail(v, policy) ==
  IF ~ IsOld(votes[v]) THEN votes[v].frozen
  ELSE WeightOf(IF votes[v].known # NoProfile THEN votes[v].known ELSE profile[v], policy)

Completed == {v \in Voter : votes[v].status = "COMPLETED"}

RawWeight(approval, policy) ==
  SumFunction([v \in {v \in Completed : votes[v].approval = approval} |-> Detail(v, policy)])

\* Coverage above one half, then the greater weight.
Outcome(policy) ==
  LET true == RawWeight("TRUE", policy)
      false == RawWeight("FALSE", policy)
      unknown == RawWeight("UNKNOWN", policy)
  IN  CASE true + false <= unknown -> "UNKNOWN"
        [] true = false -> "UNKNOWN"
        [] true > false -> "TRUE"
        [] OTHER -> "FALSE"

\* What GET /orders/{id} answers: it loads the weights first.
Verdict == Outcome(weights)

-----------------------------------------------------------------------------
\* PUT /config/validator-type-weights.
SetWeights ==
  /\ weights' \in Policies \ {weights}
  /\ UNCHANGED <<loaded, profile, votes>>

\* A start of news-handler or a GET; the defaults when MongoDB does not answer.
LoadWeights ==
  /\ loaded' \in {weights, DefaultWeights}
  /\ UNCHANGED <<weights, profile, votes>>

\* A refresh or an event of the cache; a reputation of 0 is read as 1.
Cached(p) == IF p # NoProfile /\ p.reputation = 0 THEN [p EXCEPT !.reputation = 1] ELSE p

UpdateProfile(v) ==
  /\ \E p \in Profiles \cup {NoProfile} : profile' = [profile EXCEPT ![v] = Cached(p)]
  /\ UNCHANGED <<weights, loaded, votes>>

\* A validation is weighed when it is recorded, and recorded once.
Record(v) ==
  /\ votes[v] = NoVote
  /\ \/ \E approval \in Approval :
          votes' = [votes EXCEPT ![v] = Vote(approval, WeightOf(profile[v], loaded))]
     \/ votes' = [votes EXCEPT ![v] = Error]
  /\ UNCHANGED <<weights, loaded, profile>>

VerdictsInit ==
  /\ weights = DefaultWeights
  /\ loaded = DefaultWeights
  /\ \E p \in [Voter -> Profiles \cup {NoProfile}] : profile = [v \in Voter |-> Cached(p[v])]
  /\ votes \in {f \in [Voter -> {NoVote} \cup {OldVote(a, p) : a \in Approval, p \in {NoProfile} \cup Profiles}] :
                  \A v \in Voter : f[v] # NoVote => v \in OldVoters}

VerdictsNext ==
  \/ SetWeights \/ LoadWeights
  \/ \E v \in Voter : UpdateProfile(v) \/ Record(v)

VerdictsSpec == VerdictsInit /\ [][VerdictsNext]_verdictVars

-----------------------------------------------------------------------------
(* A verdict follows the votes of its assertion and nothing else: whatever   *)
(* becomes of the weights and of the cache, it stands while no validation is *)
(* recorded, unless a record without frozen weight takes part; an error or a *)
(* vote without weight never moves it; a vote never loses the verdict it is  *)
(* for; and an abstention neither makes a decision nor reverses one.  (A     *)
(* vote for TRUE may well bring about FALSE: it raises the coverage.)        *)
VerdictFollowsVotes ==
  [][IF votes' = votes
       THEN (\A v \in Completed : ~ IsOld(votes[v])) => Verdict' = Verdict
       ELSE \A v \in Voter : votes'[v] # votes[v] =>
              CASE votes'[v] = Error \/ votes'[v].frozen = 0 -> Verdict' = Verdict
                [] votes'[v].approval = "UNKNOWN" -> Verdict' \in {Verdict, "UNKNOWN"}
                [] OTHER -> Verdict = votes'[v].approval => Verdict' = Verdict
    ]_verdictVars
=============================================================================
