---------------------------- MODULE OrderDocument ----------------------------
(***************************************************************************)
(* The order document news-handler keeps in MongoDB, reduced to what the   *)
(* flows decide on: the status, which (assertion, validator) pairs are     *)
(* expected, which answered and how, and the count of the missing ones.    *)
(***************************************************************************)
EXTENDS Naturals, FiniteSets

CONSTANTS
  Validator,      \* validator addresses
  MaxAssertions   \* bound: assertions extracted from one text

ASSUME ValidatorAssumption == IsFiniteSet(Validator)
ASSUME AssertionAssumption == MaxAssertions \in Nat \ {0}

Assertion == 1..MaxAssertions
Pair == Assertion \X Validator

Mode == {"LIGHT", "BLOCKCHAIN"}

\* ValidationExecutionStatus, and the absence of an entry
Outcome == {"COMPLETED", "ERROR"}
NoAnswer == "none"

Terminal == {"VALIDATED", "VALIDATED_WITH_ERRORS"}

Status == Terminal \cup
  {"ABSENT", "CREATED", "ASSERTIONS_REQUESTED", "ASSERTIONS_NOT_AVAILABLE",
   "QUOTA_EXCEDED", "DOCUMENT_CREATED", "IPFS_PENDING", "IPFS_UPLOADED",
   "BLOCKCHAIN_REQUESTED", "BLOCKCHAIN_ERROR", "VALIDATION_PENDING",
   "NO_VALIDATORS_AVAILABLE"}

Doc == [status : Status, mode : Mode, assertions : BOOLEAN,
        validators : SUBSET Pair, validation_requests : SUBSET Pair,
        validations : [Pair -> Outcome \cup {NoAnswer}],
        validators_pending : Nat, post_id : Nat]

NoValidations == [p \in Pair |-> NoAnswer]

\* An order that was never saved; post_id 0 stands for a missing field.
Absent ==
  [status |-> "ABSENT", mode |-> "LIGHT", assertions |-> FALSE,
   validators |-> {}, validation_requests |-> {}, validations |-> NoValidations,
   validators_pending |-> 0, post_id |-> 0]

Done(doc) == {p \in Pair : doc.validations[p] # NoAnswer}

\* expected - done, summed over the assertions of the order
Missing(doc) == doc.validators \ Done(doc)

\* Mutant: only the answers are cleared.
DocumentCreatedPartly(doc) ==
  [doc EXCEPT !.assertions = TRUE, !.validations = NoValidations, !.validators_pending = 0]

\* The reset both modes apply when the assertions of an order arrive.
DocumentCreated(doc) ==
  [doc EXCEPT !.status = "DOCUMENT_CREATED", !.assertions = TRUE,
              !.validators = {}, !.validation_requests = {},
              !.validations = NoValidations, !.validators_pending = 0]

\* Mutant: errors only show when nobody completed.
TerminalStatusIfAllFail(doc) ==
  IF \A p \in Done(doc) : doc.validations[p] = "ERROR"
  THEN "VALIDATED_WITH_ERRORS" ELSE "VALIDATED"

\* The status once no expected answer is missing.
TerminalStatus(doc) ==
  IF \E p \in Pair : doc.validations[p] = "ERROR"
  THEN "VALIDATED_WITH_ERRORS" ELSE "VALIDATED"
=============================================================================
