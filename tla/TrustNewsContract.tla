-------------------------- MODULE TrustNewsContract --------------------------
(***************************************************************************)
(* The Solidity contract that BLOCKCHAIN orders are registered in.  One    *)
(* action is one successful transaction: a call that fails a `require` is  *)
(* reverted as a whole, so it is not a step.  Strings are abstracted to    *)
(* what the code asks of them (a category description is empty or not) and *)
(* multihashes to members of Digest.                                       *)
(***************************************************************************)
EXTENDS Naturals, Sequences, FiniteSets, SequencesExt

CONSTANTS
  Address,        \* accounts that call the contract
  Owner,          \* the account that deployed it
  CategoryId,     \* category identifiers
  Digest,         \* digests of IPFS documents (news, validations, configurations)
  NoDigest,       \* the zero digest of a deleted or never written slot
  Verdict,        \* the evaluation enum
  MaxPosts,       \* bound: registerNew calls
  MaxLen          \* bound: length of a category list passed by a caller

ASSUME OwnerAssumption == Owner \in Address
ASSUME NoDigestAssumption == NoDigest \notin Digest
ASSUME BoundAssumption == MaxPosts \in Nat /\ MaxLen \in Nat \ {0}

VARIABLES
  categories,             \* the ids whose description is not empty
  validators,             \* address -> [exists, ipfsConfig]
  validatorCategories,    \* address -> the id list it registered with
  validatorsByCategory,   \* id -> list of addresses
  validatorsIndex,        \* every address that ever registered, in order
  validatorsIndexExists,  \* the addresses in validatorsIndex
  postsById,              \* posts 1 .. postCounter
  postsCid,               \* digest -> post id, 0 when unknown
  emitted                 \* the events of the last transaction

registryVars == <<validators, validatorCategories, validatorsByCategory,
                  validatorsIndex, validatorsIndexExists>>
postVars == <<postsById, postsCid>>
vars == <<categories, registryVars, postVars, emitted>>

-----------------------------------------------------------------------------
(* Data *)

Validator == [exists : BOOLEAN, ipfsConfig : Digest \cup {NoDigest}]
NoValidator == [exists |-> FALSE, ipfsConfig |-> NoDigest]

Validation == [validator : Address, veredict : Verdict, document : Digest]

Asertion == [categoryId : CategoryId,
             validations : Seq(Validation),
             validationIndex : [Address -> Nat]]

Post == [asertions : Seq(Asertion), document : Digest, publisher : Address]

\* Mutant: the counter is incremented after its use.
postCounterStale == IF postsById = << >> THEN 0 ELSE Len(postsById) - 1

postCounter == Len(postsById)

\* The non-empty category lists a caller may pass; an id may repeat in one.
CategoryList == UNION {[1..n -> CategoryId] : n \in 1..MaxLen}

Exist(ids) == \A i \in DOMAIN ids : ids[i] \in categories

\* How often x occurs in the list s.
Occurrences(s, x) == Cardinality({i \in DOMAIN s : s[i] = x})

\* Mutant: the search stops before the last entry of the list.
SwapRemoveMissesLast(s, x) ==
  IF \E i \in 1..Len(s) - 1 : s[i] = x
  THEN LET j == CHOOSE i \in 1..Len(s) - 1 : s[i] = x /\ \A k \in 1..(i-1) : s[k] # x
       IN  SubSeq([s EXCEPT ![j] = s[Len(s)]], 1, Len(s) - 1)
  ELSE s

\* list[j] = list[last]; list.pop() at the first occurrence of x, if any.
SwapRemove(s, x) ==
  IF \E i \in DOMAIN s : s[i] = x
  THEN LET j == CHOOSE i \in DOMAIN s : s[i] = x /\ \A k \in 1..(i-1) : s[k] # x
       IN  SubSeq([s EXCEPT ![j] = s[Len(s)]], 1, Len(s) - 1)
  ELSE s

-----------------------------------------------------------------------------
(* Events *)

ValidationRequested(post, i, v) ==
  [event |-> "ValidationRequested", postId |-> post, asertionIndex |-> i, validator |-> v]
ValidationSubmitted(post, i, v, d) ==
  [event |-> "ValidationSubmitted", postId |-> post, asertionIndex |-> i,
   validator |-> v, document |-> d]
RegisterNewResult(post, d, lists) ==
  [event |-> "RegisterNewResult", postId |-> post, hash_ipfs |-> d,
   validatorAddressesByAsertion |-> lists]
NewValidatorConfig(v, d) ==
  [event |-> "NewValidatorConfig", validator |-> v, ipfsConfig |-> d]

-----------------------------------------------------------------------------
(* Transactions *)

Init ==
  /\ categories = {}
  /\ validators = [a \in Address |-> NoValidator]
  /\ validatorCategories = [a \in Address |-> << >>]
  /\ validatorsByCategory = [c \in CategoryId |-> << >>]
  /\ validatorsIndex = << >>
  /\ validatorsIndexExists = {}
  /\ postsById = << >>
  /\ postsCid = [d \in Digest |-> 0]
  /\ emitted = << >>

\* The description is not checked: an empty one leaves the category missing.
AddCategory(sender, id, isEmpty) ==
  /\ sender = Owner
  /\ id \notin categories
  /\ categories' = IF isEmpty THEN categories ELSE categories \cup {id}
  /\ emitted' = << >>
  /\ UNCHANGED <<registryVars, postVars>>

\* Mutant: registered before is confused with registered now.
IndexedAgain(sender) == Append(validatorsIndex, sender)

\* Where an address that registers is put in the index.
Indexed(sender) ==
  IF sender \in validatorsIndexExists THEN validatorsIndex ELSE Append(validatorsIndex, sender)

RegisterValidator(sender, ids, config) ==
  /\ ~ validators[sender].exists
  /\ Exist(ids)
  /\ validators' = [validators EXCEPT ![sender] = [exists |-> TRUE, ipfsConfig |-> config]]
  /\ validatorsIndex' = Indexed(sender)
  /\ validatorsIndexExists' = validatorsIndexExists \cup {sender}
  /\ validatorCategories' = [validatorCategories EXCEPT ![sender] = ids]
  /\ validatorsByCategory' =
       [c \in CategoryId |->
          validatorsByCategory[c] \o [k \in 1..Occurrences(ids, c) |-> sender]]
  /\ emitted' = <<NewValidatorConfig(sender, config)>>
  /\ UNCHANGED <<categories, postVars>>

UpdateValidatorConfig(sender, config) ==
  /\ validators[sender].exists
  /\ validators' = [validators EXCEPT ![sender].ipfsConfig = config]
  /\ emitted' = <<NewValidatorConfig(sender, config)>>
  /\ UNCHANGED <<categories, validatorCategories, validatorsByCategory,
                 validatorsIndex, validatorsIndexExists, postVars>>

\* One pass of the loop over the caller's own category list.
RemoveFrom(sender, lists, c) == [lists EXCEPT ![c] = SwapRemove(@, sender)]

\* The lists after the loop over ids.
Removed(sender, ids) ==
  LET lists[k \in 0..Len(ids)] ==
        IF k = 0 THEN validatorsByCategory ELSE RemoveFrom(sender, lists[k - 1], ids[k])
  IN  lists[Len(ids)]

UnregisterValidator(sender) ==
  /\ validators[sender].exists
  /\ validatorsByCategory' = Removed(sender, validatorCategories[sender])
  /\ validatorCategories' = [validatorCategories EXCEPT ![sender] = << >>]
  /\ validators' = [validators EXCEPT ![sender] = NoValidator]
  /\ emitted' = <<NewValidatorConfig(sender, validators[sender].ipfsConfig)>>
  /\ UNCHANGED <<categories, validatorsIndex, validatorsIndexExists, postVars>>

NewAsertion(c) ==
  [categoryId |-> c, validations |-> << >>, validationIndex |-> [a \in Address |-> 0]]

\* Mutant: every assertion is sent to the validators of the first category.
RequestsForFirst(post, ids, i) ==
  [j \in DOMAIN validatorsByCategory[ids[1]] |->
     ValidationRequested(post, i - 1, validatorsByCategory[ids[1]][j])]

\* The requests of assertion i, one per entry of the category's list.
RequestsFor(post, ids, i) ==
  [j \in DOMAIN validatorsByCategory[ids[i]] |->
     ValidationRequested(post, i - 1, validatorsByCategory[ids[i]][j])]

RegisterNew(sender, digest, ids) ==
  /\ postCounter < MaxPosts
  /\ Exist(ids)
  /\ LET post == postCounter + 1 IN
     /\ postsById' = Append(postsById,
          [document |-> digest, publisher |-> sender,
           asertions |-> [i \in DOMAIN ids |-> NewAsertion(ids[i])]])
     /\ postsCid' = [postsCid EXCEPT ![digest] = post]
     /\ emitted' = Append(FlattenSeq([i \in DOMAIN ids |-> RequestsFor(post, ids, i)]),
                          RegisterNewResult(post, digest,
                            [i \in DOMAIN ids |-> validatorsByCategory[ids[i]]]))
  /\ UNCHANGED <<categories, registryVars>>

\* Mutant: the index is stored without the + 1 that tells it from "none".
ValidatedFromZero(asertion, sender, veredict, document) ==
  LET entry == [validator |-> sender, veredict |-> veredict, document |-> document]
      idx == asertion.validationIndex[sender]
  IN  IF idx = 0
      THEN [asertion EXCEPT !.validations = Append(@, entry),
                            !.validationIndex[sender] = Len(asertion.validations)]
      ELSE [asertion EXCEPT !.validations[idx] = entry]

\* Mutant: the index is stored as if it started at 0 and had no "none".
ValidatedBelowZero(asertion, sender, veredict, document) ==
  LET entry == [validator |-> sender, veredict |-> veredict, document |-> document]
  IN  [asertion EXCEPT !.validations = Append(@, entry),
                       !.validationIndex[sender] = Len(asertion.validations) - 1]

\* Mutant: a later validation overwrites the newest one.
ValidatedAtTheEnd(asertion, sender, veredict, document) ==
  LET entry == [validator |-> sender, veredict |-> veredict, document |-> document]
  IN  IF asertion.validationIndex[sender] = 0
      THEN [asertion EXCEPT !.validations = Append(@, entry),
                            !.validationIndex[sender] = Len(asertion.validations) + 1]
      ELSE [asertion EXCEPT !.validations[Len(asertion.validations)] = entry]

\* A first validation is pushed, a later one by the same sender overwritten.
Validated(asertion, sender, veredict, document) ==
  LET entry == [validator |-> sender, veredict |-> veredict, document |-> document]
      idx == asertion.validationIndex[sender]
  IN  IF idx = 0
      THEN [asertion EXCEPT !.validations = Append(@, entry),
                            !.validationIndex[sender] = Len(asertion.validations) + 1]
      ELSE [asertion EXCEPT !.validations[idx] = entry]

\* Any registered validator may validate any assertion of any post.
AddValidation(sender, post, i, veredict, document) ==
  /\ validators[sender].exists
  /\ post \in DOMAIN postsById
  /\ i \in DOMAIN postsById[post].asertions
  /\ postsById' = [postsById EXCEPT ![post].asertions[i] =
                     Validated(@, sender, veredict, document)]
  /\ emitted' = <<ValidationSubmitted(post, i - 1, sender, document)>>
  /\ UNCHANGED <<categories, registryVars, postsCid>>

-----------------------------------------------------------------------------
(* Views *)

getNewByCid(d) == postsCid[d]

\* getValidatorsWithConfig: the registered part of the index, in order
getValidatorsWithConfig ==
  LET out[k \in 0..Len(validatorsIndex)] ==
        IF k = 0 THEN << >>
        ELSE IF validators[validatorsIndex[k]].exists
             THEN Append(out[k - 1], validatorsIndex[k]) ELSE out[k - 1]
  IN  out[Len(validatorsIndex)]

-----------------------------------------------------------------------------
Next ==
  \E sender \in Address :
    \/ \E id \in CategoryId, isEmpty \in BOOLEAN : AddCategory(sender, id, isEmpty)
    \/ \E ids \in CategoryList, d \in Digest : RegisterValidator(sender, ids, d)
    \/ \E d \in Digest : UpdateValidatorConfig(sender, d)
    \/ UnregisterValidator(sender)
    \/ \E d \in Digest, ids \in CategoryList : RegisterNew(sender, d, ids)
    \/ \E post \in DOMAIN postsById, v \in Verdict, d \in Digest :
         \E i \in DOMAIN postsById[post].asertions : AddValidation(sender, post, i, v, d)

Spec == Init /\ [][Next]_vars

-----------------------------------------------------------------------------
(* Properties *)

\* Posts, validators and the index hold values of their Solidity types.
TypeOK ==
  /\ categories \subseteq CategoryId
  /\ validators \in [Address -> Validator]
  /\ validatorCategories \in [Address -> Seq(CategoryId)]
  /\ validatorsByCategory \in [CategoryId -> Seq(Address)]
  /\ validatorsIndex \in Seq(Address)
  /\ validatorsIndexExists \subseteq Address
  /\ postsById \in Seq(Post)
  /\ postsCid \in [Digest -> Nat]

\* The two directions of the registration agree entry by entry: address a is
\* listed in category c exactly as often as c occurs in a's own list.  It is
\* what the swap-and-pop loop of unregisterValidator relies on to leave no
\* entry of a validator that is gone, even when an id was passed twice.
ListsAgree ==
  \A a \in Address, c \in CategoryId :
    Occurrences(validatorsByCategory[c], a) = Occurrences(validatorCategories[a], c)

\* Only registered validators are asked to validate: the lists registerNew
\* reads hold no address whose record unregisterValidator deleted.
ListedAreRegistered ==
  \A c \in CategoryId : \A k \in DOMAIN validatorsByCategory[c] :
    validators[validatorsByCategory[c][k]].exists

\* validatorsIndex lists every address that ever registered once, and none that
\* did not; a validator that comes back is not pushed a second time.
IndexIsExact ==
  /\ IsInjective(validatorsIndex)
  /\ \A k \in DOMAIN validatorsIndex : validatorsIndex[k] \in validatorsIndexExists
  /\ \A a \in validatorsIndexExists : \E k \in DOMAIN validatorsIndex : validatorsIndex[k] = a
  /\ \A a \in Address : validators[a].exists => a \in validatorsIndexExists

\* getValidatorsWithConfig returns each registered validator exactly once,
\* whatever sequence of registrations and removals it went through.
ActiveViewIsExact ==
  /\ IsInjective(getValidatorsWithConfig)
  /\ Range(getValidatorsWithConfig) = {a \in Address : validators[a].exists}

\* The registry tells one story through its three structures, after any
\* sequence of registrations, updates and removals.
RegistryIsConsistent == ListsAgree /\ ListedAreRegistered /\ ActiveViewIsExact

\* validationIndex and validations are the two halves of one map: an address
\* has at most one validation per assertion, its index (+1) points to it, and
\* an address without an index has none.
OneValidationEach ==
  \A p \in DOMAIN postsById : \A i \in DOMAIN postsById[p].asertions :
    LET as == postsById[p].asertions[i] IN
      /\ \A k \in DOMAIN as.validations : as.validationIndex[as.validations[k].validator] = k
      /\ \A a \in Address : as.validationIndex[a] # 0 =>
           /\ as.validationIndex[a] \in DOMAIN as.validations
           /\ as.validations[as.validationIndex[a]].validator = a

\* getNewByCid finds the newest post of a document, and no document that was
\* registered is reported as unknown.
CidIsNewestPost ==
  \A d \in Digest :
    /\ getNewByCid(d) # 0 => /\ getNewByCid(d) \in DOMAIN postsById
                             /\ postsById[getNewByCid(d)].document = d
    /\ \A p \in DOMAIN postsById : postsById[p].document = d => p <= getNewByCid(d)

\* What a step may do to the validations that are on chain.
ChangesAreAnnounced ==
  \A p \in DOMAIN postsById : \A i \in DOMAIN postsById[p].asertions :
    \A k \in DOMAIN postsById[p].asertions[i].validations :
      LET old == postsById[p].asertions[i].validations[k]
          new == postsById'[p].asertions[i].validations[k]
      IN  /\ new.validator = old.validator
          /\ new # old => emitted' = <<ValidationSubmitted(p, i - 1, old.validator, new.document)>>

\* A validation, once on chain, is only ever rewritten by its own validator:
\* no step removes it, moves it or gives it to another address, and its content
\* changes only in a transaction that announces that validator's submission.
ValidationsAreDurable == [][ChangesAreAnnounced]_vars

\* The last transaction asked a to validate assertion i.
RequestSent(i, a) ==
  \E k \in DOMAIN emitted' :
    /\ emitted'[k].event = "ValidationRequested"
    /\ emitted'[k].asertionIndex = i - 1
    /\ emitted'[k].validator = a

RequestsReach ==
  Len(postsById') > Len(postsById) =>
    \A i \in DOMAIN postsById'[Len(postsById')].asertions : \A a \in Address :
      RequestSent(i, a) <=>
        /\ validators[a].exists
        /\ \E k \in DOMAIN validatorCategories[a] :
             validatorCategories[a][k] = postsById'[Len(postsById')].asertions[i].categoryId

\* The requests of a registerNew go, for every assertion, exactly to the
\* validators registered at that moment for its category.
RequestsReachTheCategory == [][RequestsReach]_vars
=============================================================================
