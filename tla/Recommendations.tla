---------------------------- MODULE Recommendations ----------------------------
(***************************************************************************)
(* The models admin recommends for what is deployed: three options for     *)
(* each target, from curated candidates and the catalog's prices, then     *)
(* brought below a limit for what one news item may cost.                  *)
(*                                                                         *)
(* A price is the estimated cost of one request, the same for every        *)
(* target; names, reasons and the ranking of the whole catalog are left    *)
(* out.                                                                    *)
(***************************************************************************)
EXTENDS Integers, Sequences, FiniteSets, Functions, SequencesExt

CONSTANTS
  Target,         \* what is deployed
  Work,           \* of each: "generator", "router", "local" or "validator"
  LanguageModel,
  Curated,        \* the profile of each target: tier -> candidates in order
  Catalogs,       \* prices the catalog may give; a model may have none
  Deployed,       \* models the targets may run
  Caps,           \* limits the request may set
  Assertions,     \* NEWS_ASSERTION_COUNT
  Unknown         \* no price, no limit, no option, no total

Tiers == <<"premium", "similar", "budget">>
Tier == {Tiers[i] : i \in 1..3}

ASSUME RecommendationsAssumption ==
  /\ IsFiniteSet(Target) /\ Unknown \notin Int \cup LanguageModel
  /\ Work \in [Target -> {"generator", "router", "local", "validator"}]
  /\ Curated \in [Target -> [Tier -> Seq(LanguageModel)]]
  /\ Catalogs \subseteq [LanguageModel -> Nat \cup {Unknown}]
  /\ Deployed \subseteq [Target -> LanguageModel]
  /\ Caps \subseteq Nat \cup {Unknown} /\ Assertions \in Nat

VARIABLES
  prices,       \* the catalog of this request
  running,      \* model of each target
  cap,          \* max_news_cost_usd
  listed,       \* targets that answered
  options,      \* per target and tier
  totals,       \* per tier, and of what is deployed
  turn          \* tier under way: 0 before, 4 after

adviceVars == <<prices, running, cap, listed, options, totals, turn>>

-----------------------------------------------------------------------------
(* build_deployed_recommendation.                                            *)

CurrentCost(t) == prices[running[t]]

Eligible(t, m) == prices[m] # Unknown /\ m # running[t]

\* Comparable: between a tenth and five times the current cost.
Suits(t, tier, m) ==
  LET current == CurrentCost(t)
  IN  /\ Eligible(t, m)
      /\ tier = "similar" /\ current # Unknown =>
           current <= 10 * prices[m] /\ prices[m] <= 5 * current
      /\ tier = "budget" => current # Unknown /\ prices[m] < current

Candidate(t, tier) ==
  LET suited == {i \in DOMAIN Curated[t][tier] : Suits(t, tier, Curated[t][tier][i])}
  IN  IF suited = {} THEN Unknown ELSE Curated[t][tier][Min(suited)]

\* Closest to the current cost from below, else from above; without a current
\* cost, the cheapest.
Closest(t, S) ==
  LET current == CurrentCost(t)
      below == {m \in S : prices[m] <= current}
  IN  IF current = Unknown \/ current = 0 \/ below = {}
        THEN CHOOSE m \in S : \A n \in S : prices[m] <= prices[n]
        ELSE CHOOSE m \in below : \A n \in below : prices[m] >= prices[n]

Fallback(t) ==
  LET curated == {m \in UNION {ToSet(Curated[t][tier]) : tier \in Tier} : Eligible(t, m)}
      pool == IF curated # {} THEN curated ELSE {m \in LanguageModel : Eligible(t, m)}
  IN  IF pool = {} THEN Unknown ELSE Closest(t, pool)

\* There is always a similar option, any model at the least, and a premium one.
Recommended(t) ==
  LET similar == IF Candidate(t, "similar") # Unknown THEN Candidate(t, "similar") ELSE Fallback(t)
  IN  [tier \in Tier |->
        CASE tier = "premium" -> IF Candidate(t, tier) # Unknown THEN Candidate(t, tier) ELSE similar
          [] tier = "similar" -> similar
          [] tier = "budget"  -> Candidate(t, tier)]

-----------------------------------------------------------------------------
(* The cost of one news item.                                                *)

Executions(t) ==
  CASE Work[t] = "generator" -> 1
    [] Work[t] = "router" -> Assertions * Cardinality({u \in listed : Work[u] = "local"})
    [] OTHER -> Assertions

Chosen(t, tier) ==
  IF tier # "current" /\ options[t][tier] # Unknown
    THEN prices[options[t][tier]] ELSE CurrentCost(t)

NewsCost(tier) ==
  LET counted == {t \in listed : Executions(t) > 0}
  IN  IF \E t \in counted : Chosen(t, tier) = Unknown THEN Unknown
      ELSE SumFunctionOnSet([t \in counted |-> Chosen(t, tier) * Executions(t)], counted)

-----------------------------------------------------------------------------
(* constrain_recommendations_by_news_cost.                                   *)

AtTier == Tiers[turn]

Excess(total) == cap # Unknown /\ total # Unknown /\ total > cap

Saving(t, tier) ==
  IF options[t][tier] = Unknown \/ CurrentCost(t) = Unknown THEN 0
  ELSE (prices[options[t][tier]] - CurrentCost(t)) * Executions(t)

Removable(tier) == {t \in listed : Saving(t, tier) > 0}

\* The first cheaper tier with another, cheaper model.
Replacement(t, tier) ==
  LET dearer == options[t][tier]
      below == {i \in turn + 1..3 : /\ options[t][Tiers[i]] \notin {Unknown, dearer}
                                   /\ prices[options[t][Tiers[i]]] < prices[dearer]}
  IN  IF below = {} THEN Unknown ELSE options[t][Tiers[Min(below)]]

Inspect ==
  /\ turn = 0
  /\ listed' \in SUBSET Target
  /\ options' = [t \in Target |-> Recommended(t)]
  /\ turn' = 1
  /\ UNCHANGED <<prices, running, cap, totals>>

\* One round: the option that costs most above what is deployed gives way.
Cheapen ==
  /\ turn \in 1..3
  /\ Excess(NewsCost(AtTier))
  /\ \E t \in Removable(AtTier) :
       /\ \A u \in Removable(AtTier) : Saving(u, AtTier) <= Saving(t, AtTier)
       /\ options' = [options EXCEPT ![t][AtTier] = Replacement(t, AtTier)]
  /\ UNCHANGED <<prices, running, cap, listed, totals, turn>>

\* Mutant: a tier without a total keeps its options.
KeepTier(dropped) == options
TierOptions(dropped) ==
  IF dropped THEN [t \in Target |-> [options[t] EXCEPT ![AtTier] = Unknown]] ELSE options

CloseTier ==
  /\ turn \in 1..3
  /\ ~ (Excess(NewsCost(AtTier)) /\ Removable(AtTier) # {})
  /\ LET total == NewsCost(AtTier)
         dropped == cap # Unknown /\ (total = Unknown \/ total > cap)
     IN  /\ totals' = [totals EXCEPT ![AtTier] = IF dropped THEN Unknown ELSE total,
                                     !["current"] = NewsCost("current")]
         /\ options' = TierOptions(dropped)
  /\ turn' = turn + 1
  /\ UNCHANGED <<prices, running, cap, listed>>

-----------------------------------------------------------------------------
AdviceInit ==
  /\ prices \in Catalogs /\ running \in Deployed /\ cap \in Caps
  /\ listed = {}
  /\ options = [t \in Target |-> [tier \in Tier |-> Unknown]]
  /\ totals = [tier \in Tier \cup {"current"} |-> Unknown]
  /\ turn = 0

AdviceNext == Inspect \/ Cheapen \/ CloseTier

AdviceSpec == AdviceInit /\ [][AdviceNext]_adviceVars

-----------------------------------------------------------------------------
(* What the console shows under a limit fits it and adds up: a total is the  *)
(* cost of the options shown, whichever tier was worked on later, and within *)
(* the limit; a tier without a total shows none; and a tier is given up only *)
(* when what is deployed does not fit the limit either, or has no price.     *)
NewsCostIsCapped ==
  turn = 4 /\ cap # Unknown => \A tier \in Tier :
    IF totals[tier] = Unknown
      THEN /\ \A t \in listed : options[t][tier] = Unknown
           /\ totals["current"] = Unknown \/ totals["current"] > cap
      ELSE totals[tier] = NewsCost(tier) /\ totals[tier] <= cap
=============================================================================
