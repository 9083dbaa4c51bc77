--------------------------- MODULE ValidatorService ---------------------------
(***************************************************************************)
(* One automatic validator process that serves LIGHT requests: the Kafka   *)
(* loop hands each message to a task as soon as a slot of the semaphore is *)
(* free, every task validates in a worker thread, and all the threads      *)
(* share the retry policy and the circuit breaker of evidence-search.      *)
(*                                                                         *)
(* Times are relative (what is left of a budget, a pause or a cool-down),  *)
(* so the clock itself is not part of the state.  What a verdict says is   *)
(* Grounding's subject; here an answer is only the kind of its outcome.    *)
(***************************************************************************)
EXTENDS Integers, FiniteSets

CONSTANTS
  Length,         \* bound: messages of the requests topic
  Topics,         \* what the messages may be to this process
  Type,           \* VALIDATOR_TYPE: "rag" or one that asks no evidence
  Strategy,       \* EVIDENCE_SEARCH_STRATEGY: "LOCAL" asks the router first
  MaxInFlight,    \* LIGHT_VALIDATION_MAX_IN_FLIGHT
  MaxAttempts,    \* EVIDENCE_SEARCH_REQUEST_MAX_ATTEMPTS
  Budget,         \* EVIDENCE_SEARCH_REQUEST_BUDGET_SECONDS
  RetryBase,      \* EVIDENCE_SEARCH_REQUEST_RETRY_BASE_SECONDS
  Threshold,      \* EVIDENCE_SEARCH_CIRCUIT_FAILURE_THRESHOLD
  Cooldown,       \* EVIDENCE_SEARCH_CIRCUIT_COOLDOWN_SECONDS
  MaxCrashes,     \* bound: crashes of the process
  MaxUnsent       \* bound: answers the broker does not accept

(* What a message is to this process: a request addressed to it, one for     *)
(* another validator, one that is malformed.                                 *)
MessageKind == {"mine", "other", "malformed"}

Message == 1..Length

ASSUME ServiceAssumption ==
  /\ Length \in Nat
  /\ Topics \subseteq [Message -> MessageKind]
  /\ {MaxInFlight, MaxAttempts, Threshold, Budget} \subseteq Nat \ {0}
  /\ {RetryBase, Cooldown, MaxCrashes, MaxUnsent} \subseteq Nat

VARIABLES
  topic,      \* what each message of the requests topic is
  position,   \* messages the consumer has returned to the loop
  committed,  \* offset the consumer group has committed
  held,       \* message waiting for a slot, 0 if none
  slots,      \* free permits of the semaphore
  stage,      \* where the task of each message stands
  attempts,   \* HTTP attempts of the current evidence request
  budget,     \* what is left of its deadline
  pause,      \* what is left of its backoff
  circuit,    \* [failures, cooling], shared by the worker threads
  outcome,    \* the kind of answer each task has computed
  answers,    \* answers published for each message
  unsent,     \* messages whose answer the broker did not accept
  crashes

consumer == <<topic, position, committed, held>>
evidence == <<attempts, budget, pause>>
faults == <<unsent, crashes>>
vars == <<consumer, slots, stage, evidence, circuit, outcome, answers, faults>>

InThread == {"routing", "asking", "calling", "pausing", "prompting"}
InFlight == {"started", "sending"} \cup InThread
Stage == InFlight \cup {"unread", "done", "lost"}

(* A verdict (an abstention is one), or an error: of these, apart, the       *)
(* request refused by the open circuit and the one given up after retries.   *)
Outcome == {"verdict", "error", "shed", "exhausted"}

-----------------------------------------------------------------------------
Tasks == {m \in Message : stage[m] \in InFlight}
Mine == {m \in Message : topic[m] = "mine"}
CircuitClosed == [failures |-> 0, cooling |-> 0]
Least(a, b) == IF a < b THEN a ELSE b
Less(n) == IF n > 0 THEN n - 1 ELSE 0

Move(m, from, to) ==
  /\ stage[m] = from
  /\ stage' = [stage EXCEPT ![m] = to]

\* The thread ends; the response is built on the event loop.
Settle(m, o) ==
  /\ stage' = [stage EXCEPT ![m] = "sending"]
  /\ outcome' = [outcome EXCEPT ![m] = o]
  /\ attempts' = [attempts EXCEPT ![m] = 0]
  /\ budget' = [budget EXCEPT ![m] = 0]
  /\ pause' = [pause EXCEPT ![m] = 0]

\* Mutant: only a request that was answered gives it back.
ReleaseAnswered(m) ==
  /\ stage' = [stage EXCEPT ![m] = "done"]
  /\ slots' = IF outcome[m] = "none" THEN slots ELSE slots + 1
\* The finally of process_message: whatever happened, the slot comes back.
Release(m) ==
  /\ stage' = [stage EXCEPT ![m] = "done"]
  /\ slots' = slots + 1

-----------------------------------------------------------------------------
(* The consumer loop.  The iterator moves the position when it returns a   *)
(* message, and the loop then waits for a slot with the message in hand.   *)

Deliver ==
  /\ held = 0
  /\ position < Length
  /\ position' = position + 1
  /\ held' = position + 1
  /\ UNCHANGED <<topic, committed, slots, stage, evidence, circuit, outcome, answers, faults>>

Start ==
  /\ held # 0
  /\ slots > 0
  /\ slots' = slots - 1
  /\ stage' = [stage EXCEPT ![held] = "started"]
  /\ held' = 0
  /\ UNCHANGED <<topic, position, committed, evidence, circuit, outcome, answers, faults>>

\* enable_auto_commit: the offset of whatever the iterator has returned.
AutoCommit ==
  /\ committed < position
  /\ committed' = position
  /\ UNCHANGED <<topic, position, held, slots, stage, evidence, circuit, outcome, answers, faults>>

\* A malformed request or one for another validator.
Ignore(m) ==
  /\ stage[m] = "started"
  /\ m \notin Mine
  /\ Release(m)
  /\ UNCHANGED <<consumer, evidence, circuit, outcome, answers, faults>>

Begin(m) ==
  /\ stage[m] = "started"
  /\ m \in Mine
  /\ stage' = [stage EXCEPT ![m] =
       IF Type # "rag" THEN "prompting"
       ELSE IF Strategy = "LOCAL" THEN "routing" ELSE "asking"]
  /\ budget' = [budget EXCEPT ![m] = Budget]
  /\ UNCHANGED <<consumer, slots, attempts, pause, circuit, outcome, answers, faults>>

\* No validation payload, or no model to ask: VALIDATION_SETUP.
BeginFails(m) ==
  /\ stage[m] = "started"
  /\ m \in Mine
  /\ Settle(m, "error")
  /\ UNCHANGED <<consumer, slots, circuit, answers, faults>>

-----------------------------------------------------------------------------
(* The worker thread.                                                      *)

\* resolve_local_sources; the deadline starts with the evidence request.
Routed(m) ==
  /\ Move(m, "routing", "asking")
  /\ budget' = [budget EXCEPT ![m] = Budget]
  /\ UNCHANGED <<consumer, slots, attempts, pause, circuit, outcome, answers, faults>>

NotRouted(m) ==
  /\ stage[m] = "routing"
  /\ \E o \in {"verdict", "error"} : Settle(m, o)
  /\ UNCHANGED <<consumer, slots, circuit, answers, faults>>

RecordFailure ==
  circuit' = [failures |-> circuit.failures + 1,
              cooling |-> IF circuit.failures + 1 >= Threshold
                          THEN Cooldown ELSE circuit.cooling]
RecordSuccess == circuit' = CircuitClosed

\* The head of the loop, with the circuit open.
Shed(m) ==
  /\ stage[m] = "asking"
  /\ circuit.cooling > 0
  /\ Settle(m, "shed")
  /\ UNCHANGED <<consumer, slots, circuit, answers, faults>>

\* The budget went by during the backoff: give up.
OutOfTime(m) ==
  /\ stage[m] = "asking"
  /\ circuit.cooling = 0
  /\ budget[m] = 0
  /\ RecordFailure
  /\ Settle(m, "exhausted")
  /\ UNCHANGED <<consumer, slots, answers, faults>>

Attempt(m) ==
  /\ circuit.cooling = 0
  /\ budget[m] > 0
  /\ Move(m, "asking", "calling")
  /\ attempts' = [attempts EXCEPT ![m] = @ + 1]
  /\ UNCHANGED <<consumer, slots, budget, pause, circuit, outcome, answers, faults>>

\* An object came back: the circuit closes whoever opened it meanwhile, and
\* the model is asked only when some context can be cited.
CallSucceeds(m) ==
  /\ stage[m] = "calling"
  /\ RecordSuccess
  /\ \/ /\ stage' = [stage EXCEPT ![m] = "prompting"]
        /\ UNCHANGED <<evidence, outcome>>
     \/ Settle(m, "verdict")
  /\ UNCHANGED <<consumer, slots, answers, faults>>

\* Mutant: the failure of every attempt counts for the circuit.
CountedCallFails(m) ==
  /\ attempts[m] < MaxAttempts
  /\ RecordFailure
  /\ Move(m, "calling", "pausing")
  /\ pause' = [pause EXCEPT ![m] = Least(RetryBase * 2^(attempts[m] - 1), budget[m])]
  /\ UNCHANGED <<consumer, slots, attempts, budget, outcome, answers, faults>>

\* Timeout, network error, 408, 429 or 5xx, with an attempt left.
CallFails(m) ==
  /\ attempts[m] < MaxAttempts
  /\ Move(m, "calling", "pausing")
  /\ pause' = [pause EXCEPT ![m] = Least(RetryBase * 2^(attempts[m] - 1), budget[m])]
  /\ UNCHANGED <<consumer, slots, attempts, budget, circuit, outcome, answers, faults>>

\* Mutant: the exception escapes the task, which answers nothing.
UnansweredLastCallFails(m) ==
  /\ stage[m] = "calling"
  /\ attempts[m] >= MaxAttempts
  /\ RecordFailure
  /\ Release(m)
  /\ UNCHANGED <<consumer, evidence, outcome, answers, faults>>

LastCallFails(m) ==
  /\ stage[m] = "calling"
  /\ attempts[m] >= MaxAttempts
  /\ RecordFailure
  /\ Settle(m, "exhausted")
  /\ UNCHANGED <<consumer, slots, answers, faults>>

\* Any other error leaves the circuit as it is.
CallRejected(m) ==
  /\ stage[m] = "calling"
  /\ Settle(m, "error")
  /\ UNCHANGED <<consumer, slots, circuit, answers, faults>>

\* Mutant: the retry starts only if the circuit has stayed closed.
ResumeIfClosed(m) ==
  /\ pause[m] = 0
  /\ circuit.failures = 0
  /\ Move(m, "pausing", "asking")
  /\ UNCHANGED <<consumer, slots, evidence, circuit, outcome, answers, faults>>

Resume(m) ==
  /\ pause[m] = 0
  /\ Move(m, "pausing", "asking")
  /\ UNCHANGED <<consumer, slots, evidence, circuit, outcome, answers, faults>>

Prompt(m) ==
  /\ stage[m] = "prompting"
  /\ \E o \in {"verdict", "error"} : Settle(m, o)
  /\ UNCHANGED <<consumer, slots, circuit, answers, faults>>

-----------------------------------------------------------------------------
(* The answer, and what can go wrong around it.                            *)

Send(m) ==
  /\ stage[m] = "sending"
  /\ answers' = [answers EXCEPT ![m] = @ + 1]
  /\ Release(m)
  /\ UNCHANGED <<consumer, evidence, circuit, outcome, faults>>

\* The exception of the producer is logged and the request forgotten.
SendFails(m) ==
  /\ stage[m] = "sending"
  /\ Cardinality(unsent) < MaxUnsent
  /\ unsent' = unsent \cup {m}
  /\ Release(m)
  /\ UNCHANGED <<consumer, evidence, circuit, outcome, answers, crashes>>

\* Mutant: the group has no offset yet and resumes at the end of the topic.
\* (auto_offset_reset left at its default, "latest").
CrashToLatest ==
  /\ crashes < MaxCrashes
  /\ crashes' = crashes + 1
  /\ position' = Length
  /\ held' = 0
  /\ slots' = MaxInFlight
  /\ stage' = [m \in Message |-> IF stage[m] = "done" THEN "done" ELSE "lost"]
  /\ attempts' = [m \in Message |-> 0]
  /\ budget' = [m \in Message |-> 0]
  /\ pause' = [m \in Message |-> 0]
  /\ circuit' = CircuitClosed
  /\ UNCHANGED <<topic, committed, outcome, answers, unsent>>

\* Everything in memory is gone; the group resumes at the committed offset.
Crash ==
  /\ crashes < MaxCrashes
  /\ crashes' = crashes + 1
  /\ position' = committed
  /\ held' = 0
  /\ slots' = MaxInFlight
  /\ stage' = [m \in Message |->
       IF m > committed THEN "unread"
       ELSE IF stage[m] = "done" THEN "done" ELSE "lost"]
  /\ outcome' = [m \in Message |-> IF m > committed THEN "none" ELSE outcome[m]]
  /\ attempts' = [m \in Message |-> 0]
  /\ budget' = [m \in Message |-> 0]
  /\ pause' = [m \in Message |-> 0]
  /\ circuit' = CircuitClosed
  /\ UNCHANGED <<topic, committed, answers, unsent>>

Tick ==
  /\ circuit.cooling > 0 \/ \E m \in Message : budget[m] > 0 \/ pause[m] > 0
  /\ circuit' = [circuit EXCEPT !.cooling = Less(@)]
  /\ budget' = [m \in Message |-> IF stage[m] \in {"asking", "calling", "pausing"}
                                  THEN Less(budget[m]) ELSE budget[m]]
  /\ pause' = [m \in Message |-> Less(pause[m])]
  /\ UNCHANGED <<consumer, slots, stage, attempts, outcome, answers, faults>>

-----------------------------------------------------------------------------
Init ==
  /\ topic \in Topics
  /\ position = 0 /\ committed = 0 /\ held = 0
  /\ slots = MaxInFlight
  /\ stage = [m \in Message |-> "unread"]
  /\ attempts = [m \in Message |-> 0]
  /\ budget = [m \in Message |-> 0]
  /\ pause = [m \in Message |-> 0]
  /\ circuit = CircuitClosed
  /\ outcome = [m \in Message |-> "none"]
  /\ answers = [m \in Message |-> 0]
  /\ unsent = {} /\ crashes = 0

\* What the task of a message may do next.
TaskStep(m) ==
  \/ Ignore(m) \/ Begin(m) \/ BeginFails(m)
  \/ Routed(m) \/ NotRouted(m)
  \/ Shed(m) \/ OutOfTime(m) \/ Attempt(m)
  \/ CallSucceeds(m) \/ CallFails(m) \/ LastCallFails(m) \/ CallRejected(m)
  \/ Resume(m) \/ Prompt(m)
  \/ Send(m) \/ SendFails(m)

Next ==
  \/ Deliver \/ Start \/ AutoCommit
  \/ \E m \in Message : TaskStep(m)
  \/ Crash \/ Tick

Spec == Init /\ [][Next]_vars

(* The loop and the tasks run whenever they can, every call ends (all have *)
(* timeouts) and time passes.  Neither the timer of the commits, nor a     *)
(* crash, nor any particular outcome of a call is assumed.                 *)
FairSpec ==
  /\ Spec
  /\ WF_vars(Deliver) /\ WF_vars(Start) /\ WF_vars(Tick)
  /\ \A m \in Message : WF_vars(TaskStep(m))

-----------------------------------------------------------------------------
(* Every permit of the semaphore is either free or held by one live task:    *)
(* the finally of process_message returns it exactly once on every path, so  *)
(* a validator neither stops after a few bad requests nor exceeds the limit. *)
SlotsBalance == Cardinality(Tasks) + slots = MaxInFlight

(* A request the loop has taken is being served, waits for a slot, was       *)
(* answered, failed to be sent, or was lost by a crash.  No failure of the   *)
(* router, the evidence service or the model leaves news-handler waiting.    *)
NoSilentDrop ==
  \A m \in Mine : m <= position =>
    \/ m = held
    \/ stage[m] \in InFlight \cup {"lost"}
    \/ stage[m] = "done" /\ (answers[m] > 0 \/ m \in unsent)

(* The offset is committed by a timer and not when a request is answered, so *)
(* a crash loses requests for good, but only those being served (at most     *)
(* MaxInFlight of them) and the one that waits for a slot; and an answer is  *)
(* repeated only if a crash came between.                                    *)
LossIsBounded ==
  [][\A m \in Message :
       /\ stage[m] # "lost" /\ stage'[m] = "lost" => m \in Tasks \cup {held}
       /\ answers'[m] <= crashes' + 1]_vars

(* The failures of the breaker are requests given up, one each, however many *)
(* attempts they made and however the threads interleave; the circuit opens  *)
(* only after Threshold of them with no success in between.                  *)
FailuresAreRequests ==
  /\ circuit.failures <= Cardinality({m \in Message : outcome[m] = "exhausted"})
  /\ circuit.cooling > 0 => circuit.failures >= Threshold

(* Whatever the breaker, the retries and the crashes do, the service gets to *)
(* the end of every request: it is finished or a crash has lost it.          *)
EveryRequestEnds == \A m \in Message : <>[](stage[m] \in {"done", "lost"})
=============================================================================
