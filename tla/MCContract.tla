--------------------------- MODULE MCContract ------------------------------
(* Two accounts that validate, re-validate, leave and come back: either with  *)
(* two categories, lists of two of them and one post, or with one category    *)
(* and two posts of two documents.                                            *)
EXTENDS TrustNewsContract

CONSTANTS a1, a2, c1, c2, d1, d2

VARIABLE focus

contractVars == <<vars, focus>>

RegistryOnly ==
  /\ postCounter' <= 1
  /\ \A a \in Address : validators'[a].ipfsConfig # d2
  /\ \A p \in DOMAIN postsById' : postsById'[p].document = d1
  /\ \A p \in DOMAIN postsById' : \A i \in DOMAIN postsById'[p].asertions :
       \A v \in DOMAIN postsById'[p].asertions[i].validations :
         postsById'[p].asertions[i].validations[v].document # d2

OneCategory ==
  /\ categories' \subseteq {c1}
  /\ \A a \in Address : Len(validatorCategories'[a]) <= 1
  /\ \A p \in DOMAIN postsById' : Len(postsById'[p].asertions) = 1

MCInit == Init /\ focus \in {"registry", "posts"}

MCNext ==
  /\ Next /\ UNCHANGED focus
  /\ IF focus = "registry" THEN RegistryOnly ELSE OneCategory

MCSpec == MCInit /\ [][MCNext]_contractVars
=============================================================================
