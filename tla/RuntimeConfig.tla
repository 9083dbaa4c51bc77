----------------------------- MODULE RuntimeConfig -----------------------------
(***************************************************************************)
(* The runtime configuration of the language model of one service: the     *)
(* document admin keeps of it, the updates admin carries to the service    *)
(* step by step, and the service, which takes the document over when it    *)
(* starts.  A provider and its model are one value, Model.                 *)
(***************************************************************************)
EXTENDS Integers

CONSTANTS
  Update,       \* PUT requests of the console
  Model,        \* provider and model
  Temperature,
  Rejected,     \* models of a provider the service does not know
  Kinds,        \* of service: "validator", "generator" (that, or source-router)
  DefaultModel, DefaultTemperature,  \* the environment of the deployment
  Keep,         \* a field the request leaves out
  None,         \* no document, no reply
  MaxRestarts   \* bound: restarts of the service and of admin

ASSUME ConfigAssumption ==
  /\ DefaultModel \in Model \ Rejected /\ DefaultTemperature \in Temperature
  /\ Kinds \subseteq {"validator", "generator"}
  /\ MaxRestarts \in Nat

VARIABLES
  kind,         \* of the service
  document,     \* the document of the service in the collection config
  service,      \* what GET /admin/config answers, None while it is down
  client,       \* model and temperature its requests are made with
  updates,      \* per request: its step, desired configuration and reply
  raced,        \* two updates, or an update and a restart, were under way together
  synced,       \* the service has been brought to the document, as far as admin knows
  restarts, abandoned   \* restarts; whether one of them cut an update

configHistories == <<raced, synced, restarts, abandoned>>
configVars == <<kind, document, service, client, updates, configHistories>>

Payload == {p \in [model : Model \cup {Keep}, temperature : Temperature \cup {Keep}] :
              p.model # Keep \/ p.temperature # Keep}

Default == [model |-> DefaultModel, temperature |-> DefaultTemperature, version |-> 0]

InUse(config) == [model |-> config.model, temperature |-> config.temperature]

DefaultClient == InUse(Default)

Settled(u) == updates[u].at \in {"none", "ended"}

OldVersion == IF document = None THEN 0 ELSE document.version

StepTo(u, at) == updates' = [updates EXCEPT ![u].at = at]

-----------------------------------------------------------------------------
(* admin: persist_and_apply_llm_config.                                      *)

\* model_dump(exclude_none=True) over the current configuration.
Overlaid(current, payload) ==
  [current EXCEPT !.model = IF payload.model = Keep THEN @ ELSE payload.model,
                  !.temperature = IF payload.temperature = Keep THEN @ ELSE payload.temperature]

\* The request reads the configuration of the service, 503 when it is down ...
ReadCurrent(u) ==
  /\ updates[u].at = "none" /\ service # None
  /\ \E payload \in Payload :
       updates' = [updates EXCEPT ![u] =
         [at |-> "read", desired |-> Overlaid(service, payload), reply |-> None]]
  /\ raced' = (raced \/ \E w \in Update \ {u} : ~ Settled(w))
  /\ UNCHANGED <<document, service, client, synced, restarts, abandoned>>

\* ... and the version of the document ...
ReadVersion(u) ==
  /\ updates[u].at = "read"
  /\ updates' = [updates EXCEPT ![u].at = "versioned", ![u].desired.version = OldVersion + 1]
  /\ UNCHANGED <<document, service, client, configHistories>>

\* ... writes what is wanted as PENDING ...
WritePending(u) ==
  /\ updates[u].at = "versioned"
  /\ LET desired == updates[u].desired
     IN  document' = [desired |-> desired, version |-> desired.version, status |-> "PENDING",
                      actual |-> IF document = None THEN None ELSE document.actual]
  /\ StepTo(u, "pending")
  /\ synced' = FALSE
  /\ UNCHANGED <<service, client, raced, restarts, abandoned>>

Matches(desired, actual) == actual # None /\ desired = actual

\* ... and, once the service has answered or failed, what came of it.
WriteResult(u) ==
  /\ updates[u].at = "answered"
  /\ LET actual == updates[u].reply
     IN  IF Matches(updates[u].desired, actual)
           THEN /\ document' = [document EXCEPT !.actual = actual, !.status = "APPLIED"]
                /\ synced' = TRUE
           ELSE /\ document' = [document EXCEPT !.status = "ERROR"]
                /\ synced' = synced
  /\ StepTo(u, "ended")
  /\ UNCHANGED <<service, client, raced, restarts, abandoned>>

-----------------------------------------------------------------------------
(* The service: update_admin_config.                                         *)

\* A validator's AI client is built anew only for another provider or model; the
\* other services read the configuration at each request.
Rebuilt(config) ==
  IF kind = "validator" /\ config.model = client.model
    THEN client
    ELSE InUse(config)

\* Nobody waits for the answer of a request that outlived admin.
Answered(u, reply) ==
  updates' = [updates EXCEPT
    ![u].at = IF @ = "orphaned" THEN "ended" ELSE "answered", ![u].reply = reply]

\* An unknown provider is refused before anything is set.  A validator goes on
\* to upload and announce its configuration before it answers.
Put(u) ==
  /\ updates[u].at \in {"pending", "orphaned"} /\ service # None
  /\ LET desired == updates[u].desired
     IN  IF desired.model \in Rejected
           THEN Answered(u, None) /\ UNCHANGED <<service, client>>
           ELSE /\ service' = desired
                /\ client' = Rebuilt(desired)
                /\ IF kind = "validator" /\ updates[u].at = "pending"
                     THEN StepTo(u, "announcing")
                     ELSE Answered(u, desired)
  /\ UNCHANGED <<document, configHistories>>

\* The answer is what the service runs by then.  The upload, the transaction
\* or the event may fail, with the new configuration already in use.
Announce(u) ==
  /\ updates[u].at = "announcing"
  /\ Answered(u, service) \/ Answered(u, None)
  /\ UNCHANGED <<document, service, client, configHistories>>

\* The request, or its answer, is lost: a timeout, a service that is down.
PutFails(u) ==
  /\ updates[u].at \in {"pending", "orphaned", "announcing"}
  /\ Answered(u, None)
  /\ UNCHANGED <<document, service, client, configHistories>>

-----------------------------------------------------------------------------
(* Restarts.                                                                 *)

Restart == restarts < MaxRestarts /\ restarts' = restarts + 1

Stop ==
  /\ Restart /\ service # None
  /\ service' = None
  /\ synced' = FALSE
  /\ raced' = (raced \/ \E u \in Update : ~ Settled(u))
  /\ UNCHANGED <<document, client, updates, abandoned>>

\* Mutant: the service takes the last configuration that was confirmed.
ConfirmedOverride ==
  IF document = None \/ document.actual = None THEN None
  ELSE [document.actual EXCEPT !.version = document.version]

\* The override endpoint gives the configuration wanted, whatever its status.
Override == IF document = None THEN None ELSE document.desired

\* The service starts from its environment and takes the override; without
\* admin, or when the override is invalid, it stays with the environment.
Boot ==
  /\ service = None
  /\ \E reachable \in BOOLEAN :
       LET taken == reachable /\ Override # None /\ Override.model \notin Rejected
           config == IF taken THEN Override ELSE Default
       IN  /\ service' = config
           /\ client' = IF kind = "validator" /\ config.model = DefaultModel
                          THEN DefaultClient ELSE InUse(config)
           /\ synced' = taken
           /\ raced' = (raced \/ \E u \in Update : ~ Settled(u))
  /\ UNCHANGED <<document, updates, restarts, abandoned>>

\* admin dies and its requests with it.  A PUT on its way may still arrive.
AdminRestarts ==
  /\ Restart
  /\ abandoned' = (abandoned \/ \E u \in Update : ~ Settled(u))
  /\ updates' = [u \in Update |->
       IF Settled(u) THEN updates[u]
         ELSE [updates[u] EXCEPT !.at = IF @ \in {"pending", "orphaned"} THEN "orphaned" ELSE "ended"]]
  /\ UNCHANGED <<document, service, client, raced, synced>>

-----------------------------------------------------------------------------
ConfigInit ==
  /\ kind \in Kinds
  /\ document = None
  /\ service = Default
  /\ client = DefaultClient
  /\ updates = [u \in Update |-> [at |-> "none", desired |-> Default, reply |-> None]]
  /\ raced = FALSE /\ synced = FALSE /\ restarts = 0 /\ abandoned = FALSE

ConfigNext ==
  /\ UNCHANGED kind
  /\ \/ \E u \in Update : \/ ReadCurrent(u) \/ ReadVersion(u) \/ WritePending(u)
                          \/ Put(u) \/ Announce(u) \/ PutFails(u) \/ WriteResult(u)
     \/ Stop \/ Boot \/ AdminRestarts

ConfigSpec == ConfigInit /\ [][ConfigNext]_configVars

-----------------------------------------------------------------------------
AtRest == \A u \in Update : Settled(u)

(* At rest, and as long as updates came one after the other, the service     *)
(* reports the document's configuration whenever an update was APPLIED or    *)
(* the override taken since the document last changed, even when the update  *)
(* itself failed; APPLIED is said of nothing else; and a document is left    *)
(* PENDING only by a restart of admin.                                       *)
DocumentIsHonest ==
  AtRest /\ ~ raced /\ document # None =>
    /\ synced => service = document.desired
    /\ document.status = "APPLIED" => document.actual = document.desired
    /\ document.status = "PENDING" => abandoned

(* "Process Memory: effective configuration, immediate application without   *)
(* rebooting": a configuration that is APPLIED is the one requests are made  *)
(* with.                                                                     *)
AppliedIsInUse ==
  AtRest /\ ~ raced /\ synced /\ document.status = "APPLIED" =>
    client = InUse(document.actual)
=============================================================================
