------------------------------- MODULE MCOrders -------------------------------
(* News-handler on a day without faults: a LIGHT order of up to two           *)
(* assertions by either endpoint, a BLOCKCHAIN order of up to two assertions, *)
(* or two BLOCKCHAIN orders of one assertion side by side.  The first two     *)
(* have the fairness of their modules.                                        *)
EXTENDS MCChainFlow

CONSTANTS o1, o2

VARIABLES focus, requests

Light == INSTANCE LightFlow

ordersVars == <<vars, requests, focus>>

InFocus(f, A) == focus = f /\ A /\ UNCHANGED focus
LightStep(A) == InFocus("light", A /\ UNCHANGED chainVars)
ChainStep(A) == InFocus("chain", A /\ UNCHANGED requests)

OneOrder == \A o \in Order \ {o1} : publisher'[o] = "none"
Given == \A o \in Order : publisher'[o] # "saved"
OneAssertionEach ==
  /\ \A i \in DOMAIN topic' :
       topic'[i].action = "assertions_generated" => topic'[i].count = 1
  /\ \A i \in DOMAIN posts' : posts'[i].assigned \subseteq {<<1, v1>>}

MCInit ==
  /\ focus \in {"light", "chain", "two chains"}
  /\ Init /\ requests = [r \in Order \X Pair |-> 0]

MCNext ==
  \/ LightStep(Light!Next /\ OneOrder)
  \/ ChainStep(Next /\ Given /\ OneOrder)
  \/ InFocus("two chains", Next /\ Given /\ OneAssertionEach /\ UNCHANGED requests)

LightFairness ==
  /\ WF_ordersVars(LightStep((Fetch \/ AssertionsNotGenerated) /\ UNCHANGED requests))
  /\ WF_ordersVars(LightStep(Light!Handler))
  /\ \A o \in Order :
       /\ WF_ordersVars(LightStep((SendGenerate(o) \/ MarkRequested(o)
                                   \/ \E n \in Assertion : SendGiven(o, n)) /\ UNCHANGED requests))
       /\ WF_ordersVars(LightStep(Light!FirstGeneration(o)))
       /\ \A p \in Pair : WF_ordersVars(LightStep(Light!FirstAnswer(o, p)))

ChainFairness ==
  /\ WF_ordersVars(ChainStep(Fetch /\ UNCHANGED chainVars))
  /\ WF_ordersVars(ChainStep(Handler))
  /\ \A o \in Order :
       WF_ordersVars(ChainStep((\E n \in Assertion : SendGiven(o, n)) /\ UNCHANGED chainVars))
  /\ WF_ordersVars(ChainStep(Upload))
  /\ WF_ordersVars(ChainStep(NewsChain))
  /\ WF_ordersVars(ChainStep(Mine))
  /\ WF_ordersVars(ChainStep(\E r \in asked : AgentActs(r)))
  /\ WF_ordersVars(ChainStep(Forward))

MCSpec == MCInit /\ [][MCNext]_ordersVars /\ LightFairness /\ ChainFairness

\* The properties of LightFlow and ChainFlow that faults may break, each in the
\* focus of its flow.

\* A LIGHT order that was accepted gets a result in the end.
LightGetsResult == focus = "light" => Light!PublishedGetsResult

\* Every validator a LIGHT order expects is recorded in the end.
LightExpectedAreRecorded == focus = "light" => Light!ExpectedAreRecorded

\* A BLOCKCHAIN order gets a result in the end, but for the quota, a post without
\* validators and an answer that overtook its registration.
ChainGetsResult == focus = "chain" => PublishedGetsResult
=============================================================================
