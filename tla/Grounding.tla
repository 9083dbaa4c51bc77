------------------------------- MODULE Grounding -------------------------------
(***************************************************************************)
(* How a validator turns what evidence-search delivered and what its       *)
(* language model replied into the validation it publishes: the abstention *)
(* without citable evidence, the contract of the reply, and the check of   *)
(* every citation against the delivered contexts.                          *)
(***************************************************************************)
EXTENDS Integers, Sequences, FiniteSets

CONSTANTS
  Id,           \* context identifiers, as delivered or as the model writes them
  Source,       \* delivered sources
  Original,     \* of them, the document under validation
  Navigable,    \* those with a valid http or https address
  MaxDelivered, \* bound: contexts of one response
  MaxClaims     \* bound: citations of one reply

ASSUME GroundingAssumption ==
  /\ Original \subseteq Source /\ Navigable \subseteq Source
  /\ MaxDelivered \in Nat /\ MaxClaims \in Nat

VARIABLES
  validator,    \* "rag", "search" (the provider searches) or "memory"
  delivered,    \* contexts of the evidence, in order
  reply,        \* of the language model
  judged        \* the validation, or the stage it has reached

groundVars == <<validator, delivered, reply, judged>>

(* citation_eligible with text, citation_eligible but blank, not eligible.   *)
Quality == {"citable", "blank", "withheld"}
Context == [id : Id, source : Source, quality : Quality]
Claim == [id : Id, supports : BOOLEAN]
Reply == [verdict : {"TRUE", "FALSE", "UNKNOWN"},
          claims : {claims \in SUBSET Claim : Cardinality(claims) <= MaxClaims}]

Reached(stage) == [at |-> stage, status |-> "none", verdict |-> "none", used |-> {}, validation |-> "none"]
Published(status, verdict, used, validation) ==
  [at |-> "published", status |-> status, verdict |-> verdict, used |-> used, validation |-> validation]
Failed == Published("ERROR", "none", {}, "none")

Decisive(verdict) == verdict \in {"TRUE", "FALSE"}

-----------------------------------------------------------------------------
(* evaluate_evidence_grounding.                                              *)

PlacesOf(id, quality) ==
  {i \in DOMAIN delivered : delivered[i].id = id /\ delivered[i].quality \in quality}

Ambiguous(id) == \E i, j \in PlacesOf(id, {"citable"}) : i # j

\* Mutant: one citable context is enough to cite its identifier.
IneligibleEverywhere(id) ==
  PlacesOf(id, {"blank", "withheld"}) # {} /\ PlacesOf(id, {"citable"}) = {}
Ineligible(id) == PlacesOf(id, {"blank", "withheld"}) # {}

Verified(claim) ==
  /\ ~ Ambiguous(claim.id) /\ ~ Ineligible(claim.id)
  /\ \E i \in PlacesOf(claim.id, {"citable"}) :
       delivered[i].source \in Navigable \ Original

Support(verdict) == verdict = "TRUE"

GroundingStatus(verdict, claims, verified) ==
  IF Decisive(verdict) /\ ~ \E c \in verified : c.supports = Support(verdict) THEN "UNSUPPORTED"
  ELSE IF claims # verified THEN IF verified # {} THEN "PARTIALLY_VERIFIED" ELSE "INVALID"
  ELSE IF verified # {} THEN "VERIFIED" ELSE "NOT_REQUIRED"

-----------------------------------------------------------------------------
(* validate_payload_v2.                                                      *)

HasCitable == \E i \in DOMAIN delivered : delivered[i].quality # "withheld"

FetchFails ==
  /\ judged = Reached("retrieving") /\ validator = "rag"
  /\ judged' = Failed
  /\ UNCHANGED <<validator, delivered, reply>>

\* Only evidence-search delivers contexts; "no eligible source" delivers none.
Retrieve ==
  /\ judged = Reached("retrieving")
  /\ \E n \in IF validator = "rag" THEN 0..MaxDelivered ELSE {0} :
       delivered' \in [1..n -> Context]
  /\ judged' = Reached("retrieved")
  /\ UNCHANGED <<validator, reply>>

Abstain ==
  /\ judged = Reached("retrieved") /\ validator = "rag" /\ ~ HasCitable
  /\ judged' = Published("COMPLETED", "UNKNOWN", {}, "NOT_REQUIRED")
  /\ UNCHANGED <<validator, delivered, reply>>

Ask ==
  /\ judged = Reached("retrieved") /\ (validator = "rag" => HasCitable)
  /\ \/ reply' \in Reply /\ judged' = Reached("replied")
     \/ UNCHANGED reply /\ judged' = Failed
  /\ UNCHANGED <<validator, delivered>>

\* The contract of a documentary reply: TRUE and FALSE cite something.
Parses == validator = "rag" /\ Decisive(reply.verdict) => reply.claims # {}

Publish ==
  /\ judged = Reached("replied")
  /\ LET verified == {c \in reply.claims : Verified(c)}
         status == GroundingStatus(reply.verdict, reply.claims, verified)
     IN  \/ ~ Parses /\ judged' = Failed
         \/ /\ Parses /\ validator = "memory"
            /\ judged' = Published("COMPLETED", reply.verdict, {}, "NOT_APPLICABLE")
         \/ /\ Parses /\ validator = "search"
            /\ judged' = Published("COMPLETED", reply.verdict, {}, "UNVERIFIED")
         \/ /\ Parses /\ validator = "rag"
            /\ judged' = Published("COMPLETED",
                                  IF status = "UNSUPPORTED" THEN "UNKNOWN" ELSE reply.verdict,
                                  verified, status)
  /\ UNCHANGED <<validator, delivered, reply>>

-----------------------------------------------------------------------------
GroundInit ==
  /\ validator \in {"rag", "search", "memory"}
  /\ delivered = << >>
  /\ reply = [verdict |-> "UNKNOWN", claims |-> {}]
  /\ judged = Reached("retrieving")

GroundNext == FetchFails \/ Retrieve \/ Abstain \/ Ask \/ Publish

GroundSpec == GroundInit /\ [][GroundNext]_groundVars

-----------------------------------------------------------------------------
(* No vote without a proof: whatever the model claims, a documentary TRUE or *)
(* FALSE is published only with a citation for its side, a reply is turned   *)
(* into nothing but an abstention, which then says UNSUPPORTED, and every    *)
(* citation published names a context that stands alone under its            *)
(* identifier, is citable and belongs to a source other than the document    *)
(* under validation with an address a reader can open.                       *)
DocumentaryIsGrounded ==
  judged.status = "COMPLETED" =>
    /\ \A c \in judged.used :
         \E i \in DOMAIN delivered :
           /\ \A j \in DOMAIN delivered : delivered[j].id = c.id <=> j = i
           /\ delivered[i].quality = "citable"
           /\ delivered[i].source \in Navigable \ Original
    /\ validator = "rag" /\ Decisive(judged.verdict) =>
         \E c \in judged.used : c.supports = (judged.verdict = "TRUE")
    /\ judged.verdict \in {reply.verdict, "UNKNOWN"}
    /\ judged.validation = "UNSUPPORTED" <=> judged.verdict # reply.verdict
=============================================================================
