-------------------------- MODULE MCValidatorService --------------------------
(* A RAG validator, with and without messages that are not for it. *)
EXTENDS ValidatorService

SmallTopics == {<<"mine", "mine", "mine">>, <<"malformed", "mine", "other">>}
=============================================================================
