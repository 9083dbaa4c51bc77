---------------------------- MODULE ValidatorCache ----------------------------
(***************************************************************************)
(* The cache of validators LIGHT orders are dispatched from.  It is fed by *)
(* refreshes, which fetch a snapshot of the contract through news-chain    *)
(* outside the lock and merge it under the lock, and by two streams of     *)
(* new_validator_config messages: the listener of news-chain forwards the  *)
(* event of the contract, and the validator announces its configuration    *)
(* itself once its transaction is mined.  Each entry is also kept in the   *)
(* MongoDB registry, which is what a restart begins with.                  *)
(* A validator runs one configuration call at a time.                      *)
(***************************************************************************)
EXTENDS Naturals, Sequences, FiniteSets, FiniteSetsExt, Functions

CONSTANTS
  Validator,      \* validator addresses
  Category,       \* category ids
  Configured,     \* validator -> VALIDATOR_CATEGORIES of its deployment
  Refresher,      \* HTTP requests that may refresh the cache at the same time
  MaxChanges,     \* bound: configurations the validators publish
  MaxFaults       \* bound: lost messages, failed calls and restarts

ASSUME ConfiguredAssumption == Configured \in [Validator -> SUBSET Category]
\* The callers have names of their own.
ASSUME RefresherAssumption == Refresher \cap {"free", "consumer", "startup"} = {}
ASSUME BoundAssumption == MaxChanges \in Nat /\ MaxFaults \in Nat

VARIABLES
  chain,          \* validator -> [version of its configuration, categories, listed]
  service,        \* validator -> what its own process does after a transaction
  log,            \* NewValidatorConfig events the listener has not forwarded
  events,         \* new_validator_config messages not consumed yet
  cache,          \* validators_cache: partial function validator -> entry
  registry,       \* the validator_registry collection: same shape
  refresh,        \* refresher -> its call of load_validators_cache_from_chain
  consumer,       \* the call of update_validator_cache_from_event
  lock,           \* holder of validators_cache_lock, or "free"
  applied,        \* validator -> version of the last event stored, 0 for none
  faults          \* how many of those happened

sourceVars == <<chain, service, log>>
vars == <<sourceVars, events, cache, registry, refresh, consumer, lock, applied, faults>>

-----------------------------------------------------------------------------
Categories == SUBSET Category \ {{}}

\* Only the announcement of the validator carries categories.
Announcement(v, version, categories) ==
  [validator |-> v, version |-> version, known |-> TRUE, categories |-> categories]
ChainEvent(v, version) ==
  [validator |-> v, version |-> version, known |-> FALSE, categories |-> {}]

\* A snapshot of the contract has no timestamp either.
Entry(version, categories, origin) ==
  [version |-> version, categories |-> categories, origin |-> origin]

Nothing == [v \in {} |-> {}]

Snapshot ==
  [v \in {w \in Validator : chain[w].listed} |->
     Entry(chain[v].version, chain[v].categories, "news-chain")]

\* Mutant: what was fetched last wins.
MergedLast(previous, refreshed) == refreshed

\* merge_refreshed_validator: previous carries a time and refreshed does not,
\* so an entry that came from an event always wins.
Merged(previous, refreshed) ==
  IF previous.origin = "validator-event" THEN previous ELSE refreshed

\* Mutant: the snapshot replaces the cache.
RefreshedOnly(snapshot) ==
  [v \in DOMAIN snapshot |->
     IF v \in DOMAIN cache THEN Merged(cache[v], snapshot[v]) ELSE snapshot[v]]

\* Entries of events survive a snapshot that does not have them.
Refreshed(snapshot) ==
  LET kept == {v \in DOMAIN cache : cache[v].origin = "validator-event"}
  IN  [v \in DOMAIN snapshot \cup kept |->
         IF v \notin DOMAIN snapshot THEN cache[v]
         ELSE IF v \in DOMAIN cache THEN Merged(cache[v], snapshot[v])
         ELSE snapshot[v]]

\* f with the entry of v replaced or inserted.
With(f, v, entry) == [w \in DOMAIN f \cup {v} |-> IF w = v THEN entry ELSE f[w]]

\* Mutant: a row that exists is left alone.
StoredOnce(v, entry) == IF v \in DOMAIN registry THEN registry ELSE With(registry, v, entry)

\* replace_one with upsert.
Stored(v, entry) == With(registry, v, entry)

Idle == [at |-> "idle"]

\* Who may be inside load_validators_cache_from_chain.
Caller == Refresher \cup {"consumer", "startup"}

\* What the process begins with, besides the cache: a refresh of its own.
Starting == [r \in Caller |-> IF r = "startup" THEN [at |-> "fetch"] ELSE Idle]

Fault == faults < MaxFaults /\ faults' = faults + 1

\* async with validators_cache_lock: whoever comes waits for the holder.
LockFree == lock = "free"

Init ==
  /\ chain = [v \in Validator |-> [version |-> 0, categories |-> {}, listed |-> FALSE]]
  /\ service = [v \in Validator |-> Idle]
  /\ log = << >> /\ events = << >>
  /\ cache = Nothing /\ registry = Nothing
  /\ refresh = Starting
  /\ consumer = Idle
  /\ lock = "free"
  /\ applied = [v \in Validator |-> 0]
  /\ faults = 0

-----------------------------------------------------------------------------
(* A validator registers, publishes configurations and leaves.  Its process  *)
(* waits for each receipt, and then announces the result.                    *)

\* How many configurations were published, by all validators together.
Changes == MapThenSumSet(LAMBDA v : chain[v].version, Validator)

Announces(categories) == [at |-> "announce", categories |-> categories]

\* The transaction of v is mined: it emits one event.
Mined(v, version, categories, listed, next) ==
  /\ chain' = [chain EXCEPT ![v] =
                 [version |-> version, categories |-> categories, listed |-> listed]]
  /\ log' = Append(log, [validator |-> v, version |-> version])
  /\ service' = [service EXCEPT ![v] = next]
  /\ UNCHANGED <<events, cache, registry, refresh, consumer, lock, applied, faults>>

\* registrar_validador takes the categories of its caller, a first start those
\* of the deployment.
Register(v, categories) ==
  /\ service[v] = Idle
  /\ ~ chain[v].listed
  /\ Changes < MaxChanges
  /\ Mined(v, chain[v].version + 1, categories, TRUE, Announces(categories))

\* A restart or a change of its LLM announces the categories of the deployment.
Update(v) ==
  /\ service[v] = Idle
  /\ chain[v].listed
  /\ Changes < MaxChanges
  /\ Mined(v, chain[v].version + 1, chain[v].categories, TRUE, Announces(Configured[v]))

\* desregistrar_validador: first an update to a configuration of a validator
\* that left, and then the removal, which can fail.
Deactivate(v) ==
  /\ service[v] = Idle
  /\ chain[v].listed
  /\ Changes < MaxChanges
  /\ Mined(v, chain[v].version + 1, chain[v].categories, TRUE, [at |-> "leave"])

Unregister(v) ==
  /\ service[v].at = "leave"
  /\ Mined(v, chain[v].version, {}, FALSE, Announces(Configured[v]))

UnregisterFails(v) ==
  /\ service[v].at = "leave"
  /\ Fault
  /\ service' = [service EXCEPT ![v] = Idle]
  /\ UNCHANGED <<chain, log, events, cache, registry, refresh, consumer, lock, applied>>

\* A validator that restarts with the configuration the contract has announces
\* it without a transaction.
Reannounce(v) ==
  /\ service[v] = Idle
  /\ chain[v].listed
  /\ Fault
  /\ service' = [service EXCEPT ![v] = Announces(Configured[v])]
  /\ UNCHANGED <<chain, log, events, cache, registry, refresh, consumer, lock, applied>>

\* A send that fails is logged only; the listener may miss a block.
Announce(v) ==
  /\ service[v].at = "announce"
  /\ \/ /\ events' = Append(events,
                             Announcement(v, chain[v].version, service[v].categories))
        /\ faults' = faults
     \/ Fault /\ events' = events
  /\ service' = [service EXCEPT ![v] = Idle]
  /\ UNCHANGED <<chain, log, cache, registry, refresh, consumer, lock, applied>>

Forward ==
  /\ log # << >>
  /\ \/ /\ events' = Append(events, ChainEvent(Head(log).validator, Head(log).version))
        /\ faults' = faults
     \/ Fault /\ events' = events
  /\ log' = Tail(log)
  /\ UNCHANGED <<chain, service, cache, registry, refresh, consumer, lock, applied>>

-----------------------------------------------------------------------------
(* load_validators_cache_from_chain *)

\* HTTP requests come once startup is over; the consumer needs the lock first.
MayFetch(r) ==
  \/ r = "startup" /\ refresh[r].at = "fetch"
  \/ r = "consumer" /\ consumer.at = "load" /\ refresh[r] = Idle /\ LockFree
  \/ r \in Refresher /\ refresh[r] = Idle /\ refresh["startup"] = Idle

\* only_if_empty, which is how the consumer calls, and there are entries.
Unneeded(r) == r = "consumer" /\ DOMAIN cache # {}

\* The call returns; the consumer goes on with the event it has in hand.
CallEnds(r) ==
  /\ refresh' = [refresh EXCEPT ![r] = Idle]
  /\ consumer' = IF r = "consumer" THEN [consumer EXCEPT !.at = "apply"] ELSE consumer

Fetch(r) ==
  /\ MayFetch(r)
  /\ ~ Unneeded(r)
  /\ DOMAIN Snapshot # {}
  /\ refresh' = [refresh EXCEPT ![r] = [at |-> "merge", snapshot |-> Snapshot]]
  /\ UNCHANGED <<sourceVars, events, cache, registry, consumer, lock, applied, faults>>

\* A failed fetch or an empty snapshot ends the call with the cache as it was,
\* which for an HTTP request changes nothing at all.
FetchNothing(r) ==
  /\ MayFetch(r)
  /\ r \notin Refresher
  /\ \/ (Unneeded(r) \/ DOMAIN Snapshot = {}) /\ faults' = faults
     \/ ~ Unneeded(r) /\ Fault
  /\ CallEnds(r)
  /\ UNCHANGED <<sourceVars, events, cache, registry, lock, applied>>

\* Under the lock the merged snapshot is installed in one assignment.
Install(r) ==
  /\ refresh[r].at = "merge"
  /\ LockFree
  /\ IF Unneeded(r)
     THEN CallEnds(r) /\ UNCHANGED <<cache, lock>>
     ELSE /\ cache' = Refreshed(refresh[r].snapshot)
          /\ refresh' = [refresh EXCEPT ![r] =
               [at |-> "persist", todo |-> DOMAIN Refreshed(refresh[r].snapshot)]]
          /\ lock' = r
          /\ consumer' = consumer
  /\ UNCHANGED <<sourceVars, events, registry, applied, faults>>

\* Still under the lock, the entries are written one by one.
Persist(r) ==
  /\ refresh[r].at = "persist"
  /\ \E v \in refresh[r].todo :
       /\ registry' = Stored(v, cache[v])
       /\ IF refresh[r].todo = {v}
          THEN CallEnds(r) /\ lock' = "free"
          ELSE /\ refresh' = [refresh EXCEPT ![r].todo = @ \ {v}]
               /\ UNCHANGED <<lock, consumer>>
  /\ UNCHANGED <<sourceVars, events, cache, applied, faults>>

-----------------------------------------------------------------------------
(* update_validator_cache_from_event *)

\* A cache that is empty is loaded first.
ReceiveEvent ==
  /\ consumer = Idle
  /\ refresh["startup"] = Idle
  /\ events # << >>
  /\ consumer' = [at |-> IF DOMAIN cache = {} THEN "load" ELSE "apply", event |-> Head(events)]
  /\ events' = Tail(events)
  /\ UNCHANGED <<sourceVars, cache, registry, refresh, lock, applied, faults>>

\* Fields the event lacks are taken from the entry it replaces.
FromEvent(e) ==
  Entry(e.version,
        IF e.known THEN e.categories
        ELSE IF e.validator \in DOMAIN cache THEN cache[e.validator].categories ELSE {},
        "validator-event")

PersistEvent ==
  /\ consumer.at = "apply"
  /\ LockFree
  /\ LET e == consumer.event IN
       /\ registry' = Stored(e.validator, FromEvent(e))
       /\ applied' = [applied EXCEPT ![e.validator] = e.version]
  /\ lock' = "consumer"
  /\ consumer' = [consumer EXCEPT !.at = "install"]
  /\ UNCHANGED <<sourceVars, events, cache, refresh, faults>>

InstallEvent ==
  /\ consumer.at = "install"
  /\ LET e == consumer.event IN
       cache' = With(cache, e.validator, FromEvent(e))
  /\ lock' = "free"
  /\ consumer' = Idle
  /\ UNCHANGED <<sourceVars, events, registry, refresh, applied, faults>>

\* MongoDB refuses a write: the exception ends the call and frees the lock, and
\* with it the event in hand.  At startup it ends the process.
WriteFails(r) ==
  /\ r # "startup"
  /\ \/ refresh[r].at = "persist"
     \/ r = "consumer" /\ consumer.at = "apply" /\ LockFree
  /\ Fault
  /\ refresh' = [refresh EXCEPT ![r] = Idle]
  /\ consumer' = IF r = "consumer" THEN Idle ELSE consumer
  /\ lock' = "free"
  /\ UNCHANGED <<sourceVars, events, cache, registry, applied>>

\* The process restarts with what the registry holds and refreshes it before it
\* consumes.  The event in hand comes back when its offset was not stored.
Restart ==
  /\ Fault
  /\ cache' = registry
  /\ refresh' = Starting
  /\ \/ events' = events
     \/ consumer # Idle /\ events' = <<consumer.event>> \o events
  /\ consumer' = Idle
  /\ lock' = "free"
  /\ UNCHANGED <<sourceVars, registry, applied>>

-----------------------------------------------------------------------------
Next ==
  \/ \E v \in Validator :
       \/ \E categories \in Categories : Register(v, categories)
       \/ Update(v) \/ Deactivate(v) \/ Unregister(v) \/ UnregisterFails(v)
       \/ Reannounce(v) \/ Announce(v)
  \/ Forward
  \/ \E r \in Caller : Fetch(r) \/ FetchNothing(r) \/ Install(r) \/ Persist(r) \/ WriteFails(r)
  \/ ReceiveEvent \/ PersistEvent \/ InstallEvent
  \/ Restart

\* The consumer and the calls in progress run on; asyncio.Lock serves waiters in
\* order, so refreshes do not keep the consumer out for ever.  Nobody has to ask
\* for a refresh or to change the contract.
ConsumerStep ==
  ReceiveEvent \/ PersistEvent \/ InstallEvent \/ Fetch("consumer") \/ FetchNothing("consumer")

Spec == Init /\ [][Next]_vars
FairSpec == /\ Spec
            /\ SF_vars(ConsumerStep)
            /\ WF_vars(Forward) /\ \A v \in Validator : WF_vars(Announce(v))
            /\ WF_vars(Fetch("startup") \/ FetchNothing("startup"))
            /\ \A r \in Caller : WF_vars(Persist(r)) /\ WF_vars(Install(r))

-----------------------------------------------------------------------------
(* Properties *)

\* "Event updates [...] remain authoritative": whatever stale snapshots are in
\* flight and wherever the process restarts, the configuration of the last
\* event of a validator is the one the cache shows.
EventIsAuthoritative ==
  lock = "free" => \A v \in Validator : applied[v] # 0 =>
    /\ v \in DOMAIN cache
    /\ cache[v].version = applied[v]
    /\ cache[v].origin = "validator-event"

\* A refresh "preserves the last valid cache": it never leaves less than one
\* validator where there was one, and never takes the entry of an event away.
RefreshPreserves ==
  [][cache' # cache /\ faults' = faults =>
       /\ DOMAIN cache # {} => DOMAIN cache' # {}
       /\ \A v \in DOMAIN cache : cache[v].origin = "validator-event" => v \in DOMAIN cache']_vars

\* The registry is not older than the cache in the entries that came from
\* events, so a restart forgets none of them.
RegistryKeepsEvents ==
  \A v \in DOMAIN cache : cache[v].origin = "validator-event" =>
    v \in DOMAIN registry /\ (lock = "free" => registry[v].version = cache[v].version)

\* Without lost events the cache ends with the configuration each validator
\* last published, although nobody asks for a refresh.
ConfigCatchesUp ==
  \A v \in Validator :
    []<>(chain[v].version # 0 => v \in DOMAIN cache /\ cache[v].version = chain[v].version)
=============================================================================
