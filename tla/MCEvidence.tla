----------------------------- MODULE MCEvidence -----------------------------
(* Evidence of a validation, one part at a time: two concurrent searches of   *)
(* one key, one fetch of a document, the grounding of one reply, or two       *)
(* requests for the route of a topic.  Two documents share a domain; two      *)
(* https hosts, the www variant of one, a plain http host and a private one;  *)
(* an original source and one without an address beside a plain one; two      *)
(* sites and two search providers, one of them with a second tier.            *)
EXTENDS Retrieval, DocumentFetch, Grounding, SourceRouter

CONSTANTS
  r1, r2, d1, d2, d3, same, other, key,   \* Retrieval
  a, b, www, plain, private,              \* DocumentFetch
  topic                                   \* SourceRouter

VARIABLE focus

MCKeyOf == [r \in {r1, r2} |-> key]
MCDomainOf == (d1 :> same) @@ (d2 :> same) @@ (d3 :> other)
MCAnswers == (r1 :> {<<>>, <<d1, d2, d3>>, <<d2>>}) @@ (r2 :> {<<d2>>})
Direct == [fullText |-> TRUE, tier |-> FALSE, reuse |-> FALSE, extract |-> FALSE, mode |-> "DIRECT",
           strategy |-> "LOCAL", queries |-> 1, relaxed |-> 1]
OnlyOfficialOf(d) == [d EXCEPT !.strategy = "EXT_ONLY_OFFICIAL"]
MCDeployments ==
  {[Direct EXCEPT !.reuse = TRUE, !.strategy = "EXT_OFFICIAL_FIRST", !.relaxed = 0],
   [Direct EXCEPT !.tier = TRUE, !.relaxed = 0],
   OnlyOfficialOf([Direct EXCEPT !.tier = TRUE]),
   OnlyOfficialOf([Direct EXCEPT !.mode = "SMART", !.extract = TRUE, !.relaxed = 0]),
   [Direct EXCEPT !.mode = "PROVIDER", !.extract = TRUE, !.tier = TRUE, !.relaxed = 0],
   [Direct EXCEPT !.fullText = FALSE]}
WwwOfA == [u \in {a} |-> www]
MCTopicOf == [r \in {r1, r2} |-> topic]
MCSettings == {[provider |-> "exa", version |-> 1, tier |-> FALSE],
               [provider |-> "tavily", version |-> 1, tier |-> TRUE]}
Sites == Permutations(Domain)

MCInit ==
  /\ focus \in {"search", "fetch", "grounding", "routing"}
  /\ Init /\ FetchInit /\ GroundInit /\ RouterInit
  /\ focus = "search" \/ ~ deployment.fullText
  /\ focus = "fetch" \/ (wanted = private /\ budget = 0)
  /\ focus = "grounding" \/ validator = "memory"
  /\ focus = "routing" \/ settings.tier

MCNext ==
  \/ focus = "search" /\ Next /\ UNCHANGED <<fetchVars, groundVars, routerVars, focus>>
  \/ focus = "fetch" /\ FetchNext /\ UNCHANGED <<vars, groundVars, routerVars, focus>>
  \/ focus = "grounding" /\ GroundNext /\ UNCHANGED <<vars, fetchVars, routerVars, focus>>
  \/ focus = "routing" /\ RouterNext /\ UNCHANGED <<vars, fetchVars, groundVars, focus>>

MCSpec == MCInit /\ [][MCNext]_<<vars, fetchVars, groundVars, routerVars, focus>>
=============================================================================
