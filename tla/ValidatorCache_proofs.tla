------------------------- MODULE ValidatorCache_proofs -------------------------
(***************************************************************************)
(* Proofs about the cache of validators, for any number of validators,     *)
(* refreshes, events and faults.                                           *)
(***************************************************************************)
EXTENDS ValidatorCache, TLAPS

-----------------------------------------------------------------------------
(* The inductive invariant                                                 *)

IsEvent(entry) == entry.origin = "validator-event"

\* The consumer has written the event of v to the registry, not to the cache.
Installing(v) == consumer.at = "install" /\ consumer.event.validator = v

\* A call of load_validators_cache_from_chain: what it carries.
RefreshInv ==
  /\ refresh = [r \in Caller |-> refresh[r]]
  /\ \A r \in Caller :
       /\ refresh[r].at = "merge" =>
            /\ DOMAIN refresh[r].snapshot # {}
            /\ \A v \in DOMAIN refresh[r].snapshot : ~ IsEvent(refresh[r].snapshot[v])
       /\ refresh[r].at = "persist" => refresh[r] = [at |-> "persist", todo |-> refresh[r].todo]

\* The consumer has an event in hand, or none.
ConsumerInv ==
  consumer = Idle \/ consumer = [at |-> consumer.at, event |-> consumer.event]

\* Who writes holds the lock, and the consumer does one thing at a time.
LockInv ==
  /\ \A r \in Caller : refresh[r].at = "persist" => lock = r
  /\ refresh["consumer"].at \in {"merge", "persist"} => consumer.at = "load"
  /\ consumer.at = "install" => lock = "consumer"

\* The registry has the last event of every validator.
RegistryHasApplied ==
  \A v \in Validator : applied[v] # 0 =>
    v \in DOMAIN registry /\ registry[v].version = applied[v] /\ IsEvent(registry[v])

\* So has the cache, but for the event that is being installed.
CacheHasApplied ==
  \A v \in Validator : applied[v] # 0 /\ ~ Installing(v) =>
    v \in DOMAIN cache /\ cache[v].version = applied[v] /\ IsEvent(cache[v])

\* The event that is being installed is the one the registry has.
InstallingIsStored ==
  consumer.at = "install" =>
    LET e == consumer.event IN
      /\ e.validator \in DOMAIN registry /\ registry[e.validator].version = e.version
      /\ e.validator \in Validator => applied[e.validator] = e.version

\* The registry has every event the cache has.
RegistryHasCached ==
  \A v \in DOMAIN cache : IsEvent(cache[v]) =>
    v \in DOMAIN registry /\ (~ Installing(v) => registry[v].version = cache[v].version)

IInv ==
  /\ RefreshInv /\ ConsumerInv /\ LockInv
  /\ applied = [v \in Validator |-> applied[v]] /\ faults \in Nat
  /\ RegistryHasApplied /\ CacheHasApplied /\ InstallingIsStored /\ RegistryHasCached

-----------------------------------------------------------------------------
(* Lemmas on what is written                                               *)

\* A row that is stored leaves the others as they are.
LEMMA StoredRows ==
  ASSUME NEW v, NEW entry, registry' = Stored(v, entry)
  PROVE  /\ DOMAIN registry' = DOMAIN registry \cup {v}
         /\ registry'[v] = entry
         /\ \A w \in DOMAIN registry : w # v => registry'[w] = registry[w]
BY DEF Stored, With

\* A refresh keeps the entries of events, adds none, and leaves no less than
\* the snapshot has.
LEMMA RefreshedEntries ==
  ASSUME NEW snapshot, \A v \in DOMAIN snapshot : ~ IsEvent(snapshot[v]),
         cache' = Refreshed(snapshot)
  PROVE  /\ DOMAIN snapshot \subseteq DOMAIN cache'
         /\ \A v \in DOMAIN cache : IsEvent(cache[v]) => v \in DOMAIN cache' /\ cache'[v] = cache[v]
         /\ \A v \in DOMAIN cache' : IsEvent(cache'[v]) => v \in DOMAIN cache /\ cache[v] = cache'[v]
<1>1. ASSUME NEW v \in DOMAIN cache, IsEvent(cache[v])
      PROVE  v \in DOMAIN cache' /\ cache'[v] = cache[v]
  BY <1>1 DEF Refreshed, Merged, IsEvent
<1>2. ASSUME NEW v \in DOMAIN cache', IsEvent(cache'[v])
      PROVE  v \in DOMAIN cache /\ cache[v] = cache'[v]
  BY <1>2 DEF Refreshed, Merged, IsEvent
<1>3. DOMAIN snapshot \subseteq DOMAIN cache'
  BY DEF Refreshed
<1> QED BY <1>1, <1>2, <1>3

\* With the lock free nobody is in the middle of a write.
LEMMA FreeLock ==
  ASSUME IInv, LockFree
  PROVE  /\ \A r \in Caller : refresh[r].at # "persist"
         /\ consumer.at # "install"
BY RefresherAssumption DEF IInv, LockInv, LockFree, Caller

\* A caller that writes is the only one.
LEMMA OneWriter ==
  ASSUME IInv, NEW r \in Caller, refresh[r].at = "persist"
  PROVE  /\ lock = r /\ consumer.at # "install"
         /\ \A s \in Caller : refresh[s].at = "persist" => s = r
BY DEF IInv, LockInv, Caller

\* What the callers of a refresh and the consumer do to each other.
Quiet == UNCHANGED <<cache, registry, applied>>

\* When nothing is written and the consumer was not installing and does not
\* begin to, what is stored stays consistent.
LEMMA QuietInv ==
  ASSUME IInv, Quiet, consumer.at # "install", consumer'.at # "install"
  PROVE  /\ applied' = [v \in Validator |-> applied'[v]]
         /\ (RegistryHasApplied /\ CacheHasApplied /\ InstallingIsStored /\ RegistryHasCached)'
BY DEF IInv, Quiet, RegistryHasApplied, CacheHasApplied, InstallingIsStored,
       RegistryHasCached, Installing, IsEvent

\* Writing the whole cache of an entry to the registry takes no event back.
LEMMA PersistKeeps ==
  ASSUME IInv, NEW v, registry' = Stored(v, cache[v]), UNCHANGED <<cache, applied>>,
         consumer.at # "install", consumer'.at # "install"
  PROVE  (RegistryHasApplied /\ CacheHasApplied /\ InstallingIsStored /\ RegistryHasCached)'
<1>1. /\ DOMAIN registry' = DOMAIN registry \cup {v} /\ registry'[v] = cache[v]
      /\ \A w \in DOMAIN registry : w # v => registry'[w] = registry[w]
  BY StoredRows
<1>2. RegistryHasApplied'
  <2> SUFFICES ASSUME NEW w \in Validator, applied[w] # 0
               PROVE  /\ w \in DOMAIN registry' /\ registry'[w].version = applied[w]
                      /\ IsEvent(registry'[w])
    BY DEF RegistryHasApplied, IsEvent
  <2>1. CASE w = v
    BY <1>1, <2>1 DEF IInv, CacheHasApplied, Installing
  <2>2. CASE w # v
    BY <1>1, <2>2 DEF IInv, RegistryHasApplied
  <2> QED BY <2>1, <2>2
<1>3. CacheHasApplied' /\ InstallingIsStored'
  BY DEF IInv, CacheHasApplied, InstallingIsStored, Installing, IsEvent
<1>4. RegistryHasCached'
  BY <1>1 DEF IInv, RegistryHasCached, Installing, IsEvent
<1> QED BY <1>2, <1>3, <1>4

\* The event of the consumer reaches the registry first.
LEMMA PersistEventKeeps ==
  ASSUME IInv, PersistEvent
  PROVE  (RegistryHasApplied /\ CacheHasApplied /\ InstallingIsStored /\ RegistryHasCached)'
<1> DEFINE e == consumer.event
<1>1. /\ registry' = Stored(e.validator, FromEvent(e))
      /\ applied' = [applied EXCEPT ![e.validator] = e.version]
      /\ cache' = cache /\ consumer.at = "apply"
      /\ consumer'.at = "install" /\ consumer'.event = e
  BY DEF PersistEvent, IInv, ConsumerInv, Idle
<1>2. /\ DOMAIN registry' = DOMAIN registry \cup {e.validator}
      /\ registry'[e.validator] = FromEvent(e)
      /\ \A w \in DOMAIN registry : w # e.validator => registry'[w] = registry[w]
  BY <1>1, StoredRows
<1>3. registry'[e.validator].version = e.version /\ IsEvent(registry'[e.validator])
  BY <1>2 DEF FromEvent, Entry, IsEvent
<1>4. \A w \in Validator : applied'[w] = IF w = e.validator THEN e.version ELSE applied[w]
  BY <1>1 DEF IInv
<1>5. RegistryHasApplied'
  <2> SUFFICES ASSUME NEW w \in Validator, applied'[w] # 0
               PROVE  /\ w \in DOMAIN registry' /\ registry'[w].version = applied'[w]
                      /\ IsEvent(registry'[w])
    BY DEF RegistryHasApplied, IsEvent
  <2>1. CASE w = e.validator
    BY <1>2, <1>3, <1>4, <2>1
  <2>2. CASE w # e.validator
    BY <1>2, <1>4, <2>2 DEF IInv, RegistryHasApplied
  <2> QED BY <2>1, <2>2
<1>6. CacheHasApplied'
  BY <1>1, <1>4 DEF IInv, CacheHasApplied, Installing, IsEvent
<1>7. InstallingIsStored'
  BY <1>1, <1>2, <1>3, <1>4 DEF InstallingIsStored
<1>8. RegistryHasCached'
  BY <1>1, <1>2 DEF IInv, RegistryHasCached, Installing, IsEvent
<1> QED BY <1>5, <1>6, <1>7, <1>8

\* Then the cache, which is complete again.
LEMMA InstallEventKeeps ==
  ASSUME IInv, InstallEvent
  PROVE  (RegistryHasApplied /\ CacheHasApplied /\ InstallingIsStored /\ RegistryHasCached)'
<1> DEFINE e == consumer.event
<1>1. /\ cache' = With(cache, e.validator, FromEvent(e))
      /\ consumer.at = "install" /\ consumer'.at # "install"
      /\ UNCHANGED <<registry, applied>>
  BY DEF InstallEvent, Idle
<1>2. /\ DOMAIN cache' = DOMAIN cache \cup {e.validator}
      /\ cache'[e.validator].version = e.version /\ IsEvent(cache'[e.validator])
      /\ \A w \in DOMAIN cache : w # e.validator => cache'[w] = cache[w]
  BY <1>1 DEF With, FromEvent, Entry, IsEvent
<1>3. /\ e.validator \in DOMAIN registry /\ registry[e.validator].version = e.version
      /\ e.validator \in Validator => applied[e.validator] = e.version
  BY <1>1 DEF IInv, InstallingIsStored
<1>4. RegistryHasApplied' /\ InstallingIsStored'
  BY <1>1 DEF IInv, RegistryHasApplied, InstallingIsStored, IsEvent
<1>5. CacheHasApplied'
  <2> SUFFICES ASSUME NEW w \in Validator, applied[w] # 0
               PROVE  w \in DOMAIN cache' /\ cache'[w].version = applied[w] /\ IsEvent(cache'[w])
    BY <1>1 DEF CacheHasApplied, IsEvent
  <2>1. CASE w = e.validator
    BY <1>2, <1>3, <2>1
  <2>2. CASE w # e.validator
    BY <1>1, <1>2, <2>2 DEF IInv, CacheHasApplied, Installing, IsEvent
  <2> QED BY <2>1, <2>2
<1>6. RegistryHasCached'
  <2> SUFFICES ASSUME NEW w \in DOMAIN cache', IsEvent(cache'[w])
               PROVE  w \in DOMAIN registry /\ registry[w].version = cache'[w].version
    BY <1>1 DEF RegistryHasCached, IsEvent
  <2>1. CASE w = e.validator
    BY <1>2, <1>3, <2>1
  <2>2. CASE w # e.validator
    BY <1>1, <1>2, <2>2 DEF IInv, RegistryHasCached, Installing, IsEvent
  <2> QED BY <2>1, <2>2
<1> QED BY <1>4, <1>5, <1>6

\* A refresh that is installed takes no event back.
LEMMA RefreshedKeeps ==
  ASSUME IInv, NEW r \in Caller, refresh[r].at = "merge", LockFree,
         cache' = Refreshed(refresh[r].snapshot), UNCHANGED <<registry, applied, consumer>>
  PROVE  (RegistryHasApplied /\ CacheHasApplied /\ InstallingIsStored /\ RegistryHasCached)'
<1>1. \A v \in DOMAIN refresh[r].snapshot : ~ IsEvent(refresh[r].snapshot[v])
  BY DEF IInv, RefreshInv
<1>2. /\ \A v \in DOMAIN cache : IsEvent(cache[v]) => v \in DOMAIN cache' /\ cache'[v] = cache[v]
      /\ \A v \in DOMAIN cache' : IsEvent(cache'[v]) => v \in DOMAIN cache /\ cache[v] = cache'[v]
  BY <1>1, RefreshedEntries
<1>3. consumer.at # "install" /\ consumer'.at # "install"
  BY FreeLock
<1>4. RegistryHasApplied' /\ InstallingIsStored'
  BY <1>3 DEF IInv, RegistryHasApplied, InstallingIsStored, IsEvent
<1>5. CacheHasApplied'
  BY <1>2, <1>3 DEF IInv, CacheHasApplied, Installing, IsEvent
<1>6. RegistryHasCached'
  BY <1>2, <1>3 DEF IInv, RegistryHasCached, Installing, IsEvent
<1> QED BY <1>4, <1>5, <1>6

-----------------------------------------------------------------------------
(* Every action keeps the invariant                                        *)

StoredInv == RegistryHasApplied /\ CacheHasApplied /\ InstallingIsStored /\ RegistryHasCached
ControlInv == RefreshInv /\ ConsumerInv /\ LockInv

LEMMA InitIInv == Init => IInv
<1> SUFFICES ASSUME Init PROVE IInv
  OBVIOUS
<1>1. ControlInv
  BY DEF Init, ControlInv, RefreshInv, ConsumerInv, LockInv, Starting, Idle, Caller
<1>2. StoredInv
  BY DEF Init, StoredInv, RegistryHasApplied, CacheHasApplied, InstallingIsStored,
         RegistryHasCached, Nothing, Idle
<1> QED BY <1>1, <1>2 DEF Init, IInv, ControlInv, StoredInv

\* A fault is one more, whatever else a step does.
LEMMA FaultsGrow == ASSUME IInv, Fault PROVE faults' \in Nat
BY DEF IInv, Fault

\* What surrounds the cache: the validators, the contract and the queue.
Outside == UNCHANGED <<cache, registry, refresh, consumer, lock, applied>>

LEMMA OutsideInv == ASSUME IInv, Outside, faults' = faults \/ Fault PROVE IInv'
<1>1. faults' \in Nat
  BY FaultsGrow DEF IInv
<1>2. (ControlInv /\ StoredInv)'
  BY DEF IInv, Outside, ControlInv, StoredInv, RefreshInv, ConsumerInv, LockInv, RegistryHasApplied,
         CacheHasApplied, InstallingIsStored, RegistryHasCached, Installing, IsEvent
<1> QED BY <1>1, <1>2 DEF IInv, Outside, ControlInv, StoredInv

LEMMA ValidatorsAreOutside ==
  ASSUME NEW v \in Validator,
         \/ \E categories \in Categories : Register(v, categories)
         \/ Update(v) \/ Deactivate(v) \/ Unregister(v) \/ UnregisterFails(v)
         \/ Reannounce(v) \/ Announce(v) \/ Forward
  PROVE  Outside /\ (faults' = faults \/ Fault)
BY DEF Register, Update, Deactivate, Unregister, UnregisterFails, Reannounce, Announce,
       Forward, Mined, Outside, Fault

\* The end of a call leaves the other calls alone.
LEMMA CallEndsKeeps ==
  ASSUME IInv, NEW r \in Caller, CallEnds(r), r = "consumer" => consumer.at = "load"
  PROVE  /\ RefreshInv' /\ ConsumerInv'
         /\ refresh'[r].at = "idle" /\ \A s \in Caller \ {r} : refresh'[s] = refresh[s]
         /\ IF r = "consumer" THEN consumer'.at = "apply" ELSE consumer' = consumer
<1>1. refresh' = [refresh EXCEPT ![r] = Idle] /\ refresh = [s \in Caller |-> refresh[s]]
  BY DEF CallEnds, IInv, RefreshInv
<1>2. refresh'[r] = Idle /\ \A s \in Caller \ {r} : refresh'[s] = refresh[s]
  BY <1>1
<1>3. RefreshInv'
  <2>1. refresh' = [s \in Caller |-> refresh'[s]]
    BY <1>1
  <2>2. \A s \in Caller : refresh'[s] = Idle \/ refresh'[s] = refresh[s]
    BY <1>2
  <2> QED BY <2>1, <2>2 DEF IInv, RefreshInv, Idle, IsEvent
<1>4. ConsumerInv' /\ IF r = "consumer" THEN consumer'.at = "apply" ELSE consumer' = consumer
  <2>1. CASE r = "consumer"
    <3>1. consumer = [at |-> consumer.at, event |-> consumer.event]
      BY <2>1 DEF IInv, ConsumerInv, Idle
    <3>2. consumer' = [at |-> "apply", event |-> consumer.event]
      BY <3>1, <2>1 DEF CallEnds
    <3> QED BY <3>2, <2>1 DEF ConsumerInv
  <2>2. CASE r # "consumer"
    BY <2>2 DEF CallEnds, IInv, ConsumerInv
  <2> QED BY <2>1, <2>2
<1> QED BY <1>2, <1>3, <1>4 DEF Idle

LEMMA FetchInv == ASSUME IInv, NEW r \in Caller, Fetch(r) PROVE IInv'
<1> DEFINE merge == [at |-> "merge", snapshot |-> Snapshot]
<1>1. /\ refresh' = [refresh EXCEPT ![r] = merge] /\ DOMAIN Snapshot # {}
      /\ r = "consumer" => consumer.at = "load"
      /\ UNCHANGED <<cache, registry, consumer, lock, applied, faults>>
  BY RefresherAssumption DEF Fetch, MayFetch, Caller
<1>2. /\ refresh' = [s \in Caller |-> refresh'[s]] /\ refresh'[r] = merge
      /\ \A s \in Caller \ {r} : refresh'[s] = refresh[s]
  BY <1>1 DEF IInv, RefreshInv
<1>3. \A v \in DOMAIN Snapshot : ~ IsEvent(Snapshot[v])
  BY DEF Snapshot, Entry, IsEvent
<1>4. RefreshInv'
  <2> SUFFICES ASSUME NEW s \in Caller
               PROVE  /\ refresh'[s].at = "merge" =>
                           /\ DOMAIN refresh'[s].snapshot # {}
                           /\ \A v \in DOMAIN refresh'[s].snapshot : ~ IsEvent(refresh'[s].snapshot[v])
                      /\ refresh'[s].at = "persist" =>
                           refresh'[s] = [at |-> "persist", todo |-> refresh'[s].todo]
    BY <1>2 DEF RefreshInv, IsEvent
  <2>1. CASE s = r
    BY <1>1, <1>2, <1>3, <2>1
  <2>2. CASE s # r
    BY <1>2, <2>2 DEF IInv, RefreshInv
  <2> QED BY <2>1, <2>2
<1>5. ConsumerInv' /\ LockInv'
  BY <1>1, <1>2 DEF IInv, ConsumerInv, LockInv
<1>6. StoredInv'
  BY <1>1 DEF IInv, StoredInv, RegistryHasApplied, CacheHasApplied, InstallingIsStored,
              RegistryHasCached, Installing, IsEvent
<1> QED BY <1>1, <1>4, <1>5, <1>6 DEF IInv, StoredInv

LEMMA FetchNothingInv == ASSUME IInv, NEW r \in Caller, FetchNothing(r) PROVE IInv'
<1>1. /\ CallEnds(r) /\ UNCHANGED <<cache, registry, lock, applied>>
      /\ r = "consumer" => consumer.at = "load"
      /\ faults' = faults \/ Fault
  BY RefresherAssumption DEF FetchNothing, MayFetch, Caller
<1>2. /\ RefreshInv' /\ ConsumerInv'
      /\ refresh'[r].at = "idle" /\ \A s \in Caller \ {r} : refresh'[s] = refresh[s]
      /\ IF r = "consumer" THEN consumer'.at = "apply" ELSE consumer' = consumer
  BY <1>1, CallEndsKeeps
<1>3. LockInv'
  BY <1>1, <1>2 DEF IInv, LockInv, Caller
<1>4. StoredInv'
  <2>1. CASE r = "consumer"
    <3>1. Quiet /\ consumer.at # "install" /\ consumer'.at # "install"
      BY <1>1, <1>2, <2>1 DEF Quiet
    <3> QED BY <3>1, QuietInv DEF StoredInv
  <2>2. CASE r # "consumer"
    BY <1>1, <1>2, <2>2 DEF IInv, StoredInv, RegistryHasApplied, CacheHasApplied,
       InstallingIsStored, RegistryHasCached, Installing, IsEvent
  <2> QED BY <2>1, <2>2
<1>5. faults' \in Nat
  BY <1>1, FaultsGrow DEF IInv
<1> QED BY <1>1, <1>2, <1>3, <1>4, <1>5 DEF IInv, StoredInv

LEMMA InstallInv == ASSUME IInv, NEW r \in Caller, Install(r) PROVE IInv'
<1>1. /\ refresh[r].at = "merge" /\ LockFree
      /\ UNCHANGED <<registry, applied, faults>>
      /\ r = "consumer" => consumer.at = "load"
  BY DEF Install, IInv, LockInv
<1>2. consumer.at # "install" /\ \A s \in Caller : refresh[s].at # "persist"
  BY <1>1, FreeLock
<1>3. CASE Unneeded(r)
  <2>1. CallEnds(r) /\ UNCHANGED <<cache, lock>>
    BY <1>3 DEF Install
  <2>2. /\ RefreshInv' /\ ConsumerInv'
        /\ refresh'[r].at = "idle" /\ \A s \in Caller \ {r} : refresh'[s] = refresh[s]
        /\ IF r = "consumer" THEN consumer'.at = "apply" ELSE consumer' = consumer
    BY <1>1, <2>1, CallEndsKeeps
  <2>3. LockInv'
    BY <1>2, <2>1, <2>2 DEF IInv, LockInv, Caller
  <2>4. Quiet /\ consumer'.at # "install"
    BY <1>1, <1>2, <2>1, <2>2 DEF Quiet
  <2>5. StoredInv'
    BY <1>2, <2>4, QuietInv DEF StoredInv
  <2> QED BY <1>1, <2>2, <2>3, <2>5 DEF IInv, StoredInv
<1>4. CASE ~ Unneeded(r)
  <2> DEFINE persist == [at |-> "persist", todo |-> DOMAIN Refreshed(refresh[r].snapshot)]
  <2>1. /\ cache' = Refreshed(refresh[r].snapshot)
        /\ refresh' = [refresh EXCEPT ![r] = persist]
        /\ lock' = r /\ consumer' = consumer
    BY <1>4 DEF Install
  <2>2. /\ refresh' = [s \in Caller |-> refresh'[s]] /\ refresh'[r] = persist
        /\ \A s \in Caller \ {r} : refresh'[s] = refresh[s]
    BY <2>1 DEF IInv, RefreshInv
  <2>3. RefreshInv'
    <3> SUFFICES ASSUME NEW s \in Caller
                 PROVE  /\ refresh'[s].at = "merge" =>
                             /\ DOMAIN refresh'[s].snapshot # {}
                             /\ \A v \in DOMAIN refresh'[s].snapshot :
                                  ~ IsEvent(refresh'[s].snapshot[v])
                        /\ refresh'[s].at = "persist" =>
                             refresh'[s] = [at |-> "persist", todo |-> refresh'[s].todo]
      BY <2>2 DEF RefreshInv, IsEvent
    <3>1. CASE s = r
      BY <2>2, <3>1
    <3>2. CASE s # r
      BY <2>2, <3>2 DEF IInv, RefreshInv
    <3> QED BY <3>1, <3>2
  <2>4. ConsumerInv' /\ LockInv'
    BY <1>1, <1>2, <2>1, <2>2 DEF IInv, ConsumerInv, LockInv
  <2>5. StoredInv'
    BY <1>1, <2>1, RefreshedKeeps DEF StoredInv
  <2> QED BY <1>1, <2>3, <2>4, <2>5 DEF IInv, StoredInv
<1> QED BY <1>3, <1>4

LEMMA PersistInv == ASSUME IInv, NEW r \in Caller, Persist(r) PROVE IInv'
<1>1. /\ refresh[r].at = "persist" /\ UNCHANGED <<cache, applied, faults>>
      /\ r = "consumer" => consumer.at = "load"
  BY DEF Persist, IInv, LockInv
<1>2. /\ lock = r /\ consumer.at # "install"
      /\ \A s \in Caller : refresh[s].at = "persist" => s = r
  BY <1>1, OneWriter
<1>3. PICK v \in refresh[r].todo :
        /\ registry' = Stored(v, cache[v])
        /\ IF refresh[r].todo = {v}
           THEN CallEnds(r) /\ lock' = "free"
           ELSE /\ refresh' = [refresh EXCEPT ![r].todo = @ \ {v}]
                /\ UNCHANGED <<lock, consumer>>
  BY DEF Persist
<1>4. CASE refresh[r].todo = {v}
  <2>1. /\ RefreshInv' /\ ConsumerInv'
        /\ refresh'[r].at = "idle" /\ \A s \in Caller \ {r} : refresh'[s] = refresh[s]
        /\ IF r = "consumer" THEN consumer'.at = "apply" ELSE consumer' = consumer
    BY <1>1, <1>3, <1>4, CallEndsKeeps
  <2>2. LockInv'
    BY <1>2, <1>3, <1>4, <2>1 DEF IInv, LockInv, Caller
  <2>3. consumer'.at # "install"
    BY <1>2, <2>1
  <2>4. StoredInv'
    BY <1>1, <1>2, <1>3, <2>3, PersistKeeps DEF StoredInv
  <2> QED BY <1>1, <2>1, <2>2, <2>4 DEF IInv, StoredInv
<1>5. CASE refresh[r].todo # {v}
  <2> DEFINE rest == [at |-> "persist", todo |-> refresh[r].todo \ {v}]
  <2>1. refresh[r] = [at |-> "persist", todo |-> refresh[r].todo]
    BY <1>1 DEF IInv, RefreshInv
  <2>2. /\ refresh' = [s \in Caller |-> refresh'[s]] /\ refresh'[r] = rest
        /\ \A s \in Caller \ {r} : refresh'[s] = refresh[s]
    BY <1>3, <1>5, <2>1 DEF IInv, RefreshInv
  <2>3. RefreshInv'
    <3> SUFFICES ASSUME NEW s \in Caller
                 PROVE  /\ refresh'[s].at = "merge" =>
                             /\ DOMAIN refresh'[s].snapshot # {}
                             /\ \A w \in DOMAIN refresh'[s].snapshot :
                                  ~ IsEvent(refresh'[s].snapshot[w])
                        /\ refresh'[s].at = "persist" =>
                             refresh'[s] = [at |-> "persist", todo |-> refresh'[s].todo]
      BY <2>2 DEF RefreshInv, IsEvent
    <3>1. CASE s = r
      BY <2>2, <3>1
    <3>2. CASE s # r
      BY <2>2, <3>2 DEF IInv, RefreshInv
    <3> QED BY <3>1, <3>2
  <2>4. lock' = lock /\ consumer' = consumer
    BY <1>3, <1>5
  <2>5. ConsumerInv' /\ LockInv'
    <3>1. \A s \in Caller : refresh'[s].at = refresh[s].at
      BY <1>1, <2>2
    <3> QED BY <2>4, <3>1 DEF IInv, ConsumerInv, LockInv, Caller
  <2>6. StoredInv'
    BY <1>1, <1>2, <1>3, <2>4, PersistKeeps DEF StoredInv
  <2> QED BY <1>1, <2>3, <2>5, <2>6 DEF IInv, StoredInv
<1> QED BY <1>4, <1>5

LEMMA WriteFailsInv == ASSUME IInv, NEW r \in Caller, WriteFails(r) PROVE IInv'
<1>1. /\ refresh' = [refresh EXCEPT ![r] = Idle]
      /\ consumer' = IF r = "consumer" THEN Idle ELSE consumer
      /\ lock' = "free" /\ Fault /\ UNCHANGED <<cache, registry, applied>>
  BY DEF WriteFails
<1>2. consumer.at # "install" /\ \A s \in Caller \ {r} : refresh[s].at # "persist"
  <2>1. CASE refresh[r].at = "persist"
    BY <2>1, OneWriter
  <2>2. CASE LockFree
    BY <2>2, FreeLock
  <2> QED BY <2>1, <2>2 DEF WriteFails
<1>3. /\ refresh' = [s \in Caller |-> refresh'[s]] /\ refresh'[r] = Idle
      /\ \A s \in Caller \ {r} : refresh'[s] = refresh[s]
  BY <1>1 DEF IInv, RefreshInv
<1>4. RefreshInv' /\ ConsumerInv' /\ LockInv'
  <2>1. RefreshInv'
    <3>1. \A s \in Caller : refresh'[s] = Idle \/ refresh'[s] = refresh[s]
      BY <1>3
    <3> QED BY <1>3, <3>1 DEF IInv, RefreshInv, Idle, IsEvent
  <2>2. ConsumerInv'
    BY <1>1 DEF IInv, ConsumerInv
  <2>3. \A s \in Caller : refresh'[s].at # "persist"
    BY <1>2, <1>3 DEF Idle
  <2>4. refresh'["consumer"].at \in {"merge", "persist"} => consumer'.at = "load"
    <3>1. CASE r = "consumer"
      BY <1>3, <3>1 DEF Idle
    <3>2. CASE r # "consumer"
      BY <1>1, <1>3, <3>2 DEF IInv, LockInv, Caller
    <3> QED BY <3>1, <3>2
  <2>5. consumer'.at # "install"
    BY <1>1, <1>2 DEF Idle
  <2> QED BY <2>1, <2>2, <2>3, <2>4, <2>5 DEF LockInv
<1>5. StoredInv'
  <2>1. Quiet /\ consumer'.at # "install"
    BY <1>1, <1>2 DEF Quiet, Idle
  <2> QED BY <1>2, <2>1, QuietInv DEF StoredInv
<1>6. faults' \in Nat
  BY <1>1, FaultsGrow
<1> QED BY <1>1, <1>4, <1>5, <1>6 DEF IInv, StoredInv

LEMMA ConsumerStepInv ==
  ASSUME IInv, ReceiveEvent \/ PersistEvent \/ InstallEvent
  PROVE  IInv'
<1>1. CASE ReceiveEvent
  <2>1. /\ consumer = Idle /\ consumer'.at \in {"load", "apply"}
        /\ consumer' = [at |-> consumer'.at, event |-> consumer'.event]
        /\ UNCHANGED <<cache, registry, refresh, lock, applied, faults>>
    BY <1>1 DEF ReceiveEvent
  <2>2. RefreshInv' /\ ConsumerInv' /\ LockInv'
    BY <2>1 DEF IInv, RefreshInv, ConsumerInv, LockInv, Idle, IsEvent, Caller
  <2>3. Quiet /\ consumer.at # "install" /\ consumer'.at # "install"
    BY <2>1 DEF Quiet, Idle
  <2> QED BY <2>1, <2>2, <2>3, QuietInv DEF IInv
<1>2. CASE PersistEvent
  <2>1. /\ consumer = [at |-> "apply", event |-> consumer.event] /\ LockFree
        /\ consumer' = [at |-> "install", event |-> consumer.event]
        /\ applied' = [applied EXCEPT ![consumer.event.validator] = consumer.event.version]
        /\ lock' = "consumer" /\ UNCHANGED <<cache, refresh, faults>>
    BY <1>2 DEF PersistEvent, IInv, ConsumerInv, Idle
  <2>2. \A r \in Caller : refresh[r].at # "persist"
    BY <2>1, FreeLock
  <2>3. refresh["consumer"].at \notin {"merge", "persist"}
    BY <2>1 DEF IInv, LockInv
  <2>4. RefreshInv' /\ ConsumerInv'
    BY <2>1 DEF IInv, RefreshInv, ConsumerInv, IsEvent
  <2>5. LockInv'
    BY <2>1, <2>2, <2>3 DEF LockInv
  <2>6. applied' = [v \in Validator |-> applied'[v]] /\ faults' \in Nat
    BY <2>1 DEF IInv
  <2> QED BY <1>2, <2>4, <2>5, <2>6, PersistEventKeeps DEF IInv
<1>3. CASE InstallEvent
  <2>1. /\ consumer.at = "install" /\ consumer' = Idle /\ lock' = "free"
        /\ UNCHANGED <<registry, refresh, applied, faults>>
    BY <1>3 DEF InstallEvent
  <2>2. \A r \in Caller : refresh[r].at # "persist"
    BY <2>1, OneWriter
  <2>3. RefreshInv' /\ ConsumerInv'
    BY <2>1 DEF IInv, RefreshInv, ConsumerInv, IsEvent
  <2>4. refresh["consumer"].at \notin {"merge", "persist"}
    BY <2>1 DEF IInv, LockInv
  <2>5. LockInv'
    BY <2>1, <2>2, <2>4 DEF LockInv, Idle
  <2>6. applied' = [v \in Validator |-> applied'[v]] /\ faults' \in Nat
    BY <2>1 DEF IInv
  <2> QED BY <1>3, <2>3, <2>5, <2>6, InstallEventKeeps DEF IInv
<1> QED BY <1>1, <1>2, <1>3

LEMMA RestartInv == ASSUME IInv, Restart PROVE IInv'
<1>1. /\ cache' = registry /\ refresh' = Starting /\ consumer' = Idle /\ lock' = "free"
      /\ Fault /\ UNCHANGED <<registry, applied>>
  BY DEF Restart
<1>2. RefreshInv' /\ ConsumerInv' /\ LockInv'
  BY <1>1 DEF RefreshInv, ConsumerInv, LockInv, Starting, Idle, Caller
<1>3. StoredInv'
  BY <1>1 DEF IInv, StoredInv, RegistryHasApplied, CacheHasApplied, InstallingIsStored,
              RegistryHasCached, Installing, Idle, IsEvent
<1>4. faults' \in Nat
  BY <1>1, FaultsGrow
<1> QED BY <1>1, <1>2, <1>3, <1>4 DEF IInv, StoredInv

LEMMA NextIInv == ASSUME IInv, [Next]_vars PROVE IInv'
<1>1. CASE UNCHANGED vars
  BY <1>1, OutsideInv DEF vars, Outside
<1>2. ASSUME NEW v \in Validator,
             \/ \E categories \in Categories : Register(v, categories)
             \/ Update(v) \/ Deactivate(v) \/ Unregister(v) \/ UnregisterFails(v)
             \/ Reannounce(v) \/ Announce(v) \/ Forward
      PROVE  IInv'
  BY <1>2, ValidatorsAreOutside, OutsideInv
<1>3. CASE Forward
  <2>1. Outside /\ (faults' = faults \/ Fault)
    BY <1>3 DEF Forward, Outside, Fault
  <2> QED BY <2>1, OutsideInv
<1>4. ASSUME NEW r \in Caller,
             Fetch(r) \/ FetchNothing(r) \/ Install(r) \/ Persist(r) \/ WriteFails(r)
      PROVE  IInv'
  BY <1>4, FetchInv, FetchNothingInv, InstallInv, PersistInv, WriteFailsInv
<1>5. CASE ReceiveEvent \/ PersistEvent \/ InstallEvent
  BY <1>5, ConsumerStepInv
<1>6. CASE Restart
  BY <1>6, RestartInv
<1> QED BY <1>1, <1>2, <1>3, <1>4, <1>5, <1>6 DEF Next

\* The invariant in every reachable state.
THEOREM Invariance == Spec => []IInv
<1> QED BY InitIInv, NextIInv, PTL DEF Spec

-----------------------------------------------------------------------------
(* Theorems                                                                *)

\* EventIsAuthoritative: with the lock free, the cache has the last event of
\* every validator, however refreshes, failures and restarts interleave.
THEOREM AuthorityTheorem == Spec => []EventIsAuthoritative
<1>1. ASSUME IInv PROVE EventIsAuthoritative
  <2>1. ASSUME lock = "free" PROVE \A v \in Validator : ~ Installing(v)
    BY <1>1, <2>1 DEF IInv, LockInv, Installing
  <2> QED BY <1>1, <2>1 DEF EventIsAuthoritative, IInv, CacheHasApplied, IsEvent
<1> QED BY <1>1, Invariance, PTL

\* RegistryKeepsEvents: the registry a restart begins with has every event the
\* cache shows.
THEOREM RegistryTheorem == Spec => []RegistryKeepsEvents
<1>1. ASSUME IInv PROVE RegistryKeepsEvents
  <2>1. ASSUME lock = "free", NEW v PROVE ~ Installing(v)
    BY <1>1, <2>1 DEF IInv, LockInv, Installing
  <2> QED BY <1>1, <2>1 DEF RegistryKeepsEvents, IInv, RegistryHasCached, IsEvent
<1> QED BY <1>1, Invariance, PTL

\* RefreshPreserves: no step but a restart empties the cache or takes the entry
\* of an event from it.
THEOREM PreservesTheorem == Spec => RefreshPreserves
<1> DEFINE Preserved ==
      /\ DOMAIN cache # {} => DOMAIN cache' # {}
      /\ \A v \in DOMAIN cache : IsEvent(cache[v]) => v \in DOMAIN cache'
<1>1. ASSUME IInv, [Next]_vars, cache' # cache, faults' = faults PROVE Preserved
  <2>1. ASSUME NEW r \in Caller, Install(r) PROVE Preserved
    <3>1. cache' = Refreshed(refresh[r].snapshot) /\ refresh[r].at = "merge"
      BY <1>1, <2>1 DEF Install
    <3>2. /\ DOMAIN refresh[r].snapshot # {}
          /\ \A v \in DOMAIN refresh[r].snapshot : ~ IsEvent(refresh[r].snapshot[v])
      BY <1>1, <3>1 DEF IInv, RefreshInv
    <3>3. /\ DOMAIN refresh[r].snapshot \subseteq DOMAIN cache'
          /\ \A v \in DOMAIN cache : IsEvent(cache[v]) => v \in DOMAIN cache'
      BY <3>1, <3>2, RefreshedEntries
    <3> QED BY <3>2, <3>3
  <2>2. CASE InstallEvent
    BY <2>2 DEF InstallEvent, With
  <2>3. CASE Restart
    <3>1. faults' = faults + 1 /\ faults \in Nat
      BY <1>1, <2>3 DEF Restart, Fault, IInv
    <3> QED BY <1>1, <3>1
  <2>4. ASSUME NEW v \in Validator,
               \/ \E categories \in Categories : Register(v, categories)
               \/ Update(v) \/ Deactivate(v) \/ Unregister(v) \/ UnregisterFails(v)
               \/ Reannounce(v) \/ Announce(v)
        PROVE  FALSE
    BY <1>1, <2>4, ValidatorsAreOutside DEF Outside
  <2>5. ASSUME NEW r \in Caller, Fetch(r) \/ FetchNothing(r) \/ Persist(r) \/ WriteFails(r)
        PROVE  FALSE
    BY <1>1, <2>5 DEF Fetch, FetchNothing, Persist, WriteFails
  <2>6. ~ (Forward \/ ReceiveEvent \/ PersistEvent) /\ ~ UNCHANGED vars
    BY <1>1 DEF Forward, ReceiveEvent, PersistEvent, vars
  <2> QED BY <1>1, <2>1, <2>2, <2>3, <2>4, <2>5, <2>6 DEF Next
<1>2. ASSUME IInv, [Next]_vars
      PROVE  [cache' # cache /\ faults' = faults =>
                /\ DOMAIN cache # {} => DOMAIN cache' # {}
                /\ \A v \in DOMAIN cache : cache[v].origin = "validator-event" =>
                     v \in DOMAIN cache']_vars
  BY <1>1, <1>2 DEF IsEvent
<1> QED BY <1>2, Invariance, PTL DEF Spec, RefreshPreserves
=============================================================================
