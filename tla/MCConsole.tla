------------------------------- MODULE MCConsole -------------------------------
(* What admin keeps and answers, one at a time: the account of a client, the  *)
(* configuration of a service, the weights behind a verdict, the advice on    *)
(* models.  The others stand still in a state of their own.                   *)
EXTENDS Quotas, RuntimeConfig, Verdicts, Recommendations, TLC

CONSTANTS
  c1, c2,                 \* calls
  u1, u2, m1, m2, mx,     \* updates, models
  v1, v2, v3,             \* voters
  generator, router, local, top, middle, low, other   \* targets, models they run

VARIABLE focus

MCKinds == (c1 :> {<<"text", "BLOCKCHAIN">>, <<"assertions", "BLOCKCHAIN">>,
                   <<"assertions", "LIGHT">>})
           @@ (c2 :> {<<"extract", "BLOCKCHAIN">>})
MCLimits == {[news |-> 1, val |-> 2], [news |-> 2, val |-> 0]}

Weights(memory, rag) ==
  ("LLM_MEMORY_VALIDATION" :> memory) @@ ("RAG_EVIDENCE_VALIDATION" :> rag)
MCKind == DOMAIN Weights(1, 2)
MCDefaultWeights == Weights(1, 2)
MCPolicies == {Weights(1, 2), Weights(2, 0)}
MCProfiles == {[kind |-> "LLM_MEMORY_VALIDATION", reputation |-> 0],
               [kind |-> "RAG_EVIDENCE_VALIDATION", reputation |-> 2]}

MCWork == (generator :> "generator") @@ (router :> "router") @@ (local :> "local")
MCCurated ==
  [t \in {generator, router, local} |->
     ("premium" :> <<top>>) @@ ("similar" :> <<middle>>) @@ ("budget" :> <<low, middle>>)]
MCCatalogs ==
  {f \in [{top, middle, low, other} -> {0, 1, 2, 12, Unknown}] :
     f[top] \in {2, 12} /\ f[middle] # 0 /\ f[low] \notin {2, 12} /\ f[other] \in {1, Unknown}}
MCDeployed == [{generator, router, local} -> {top, middle, other}]

\* Out of focus, each part stays in one of its initial states.
MCInit ==
  /\ focus \in {"account", "config", "verdict", "advice"}
  /\ QuotasInit
  /\ focus = "account" \/ account.limits = [news |-> 1, val |-> 2]
  /\ ConfigInit
  /\ focus = "config" \/ kind = "generator"
  /\ focus = "verdict" \/ (votes = [v \in Voter |-> NoVote] /\ profile = [v \in Voter |-> NoProfile])
  /\ VerdictsInit
  /\ focus = "advice" \/ (cap = 4 /\ prices = [m \in LanguageModel |-> IF m = top THEN 2 ELSE 1]
                          /\ running = [t \in Target |-> top])
  /\ AdviceInit

MCNext ==
  \/ focus = "account" /\ QuotasNext
       /\ UNCHANGED <<configVars, verdictVars, adviceVars, focus>>
  \/ focus = "config" /\ ConfigNext
       /\ UNCHANGED <<quotaVars, verdictVars, adviceVars, focus>>
  \/ focus = "verdict" /\ VerdictsNext
       /\ UNCHANGED <<quotaVars, configVars, adviceVars, focus>>
  \/ focus = "advice" /\ AdviceNext
       /\ UNCHANGED <<quotaVars, configVars, verdictVars, focus>>

MCSpec == MCInit /\ [][MCNext]_<<quotaVars, configVars, verdictVars, adviceVars, focus>>
=============================================================================
