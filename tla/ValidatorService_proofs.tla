------------------------ MODULE ValidatorService_proofs ------------------------
(***************************************************************************)
(* Proofs about the service of a validator, for any number of messages,    *)
(* slots, attempts, crashes and failures.                                  *)
(***************************************************************************)
EXTENDS ValidatorService, FiniteSetTheorems, TLAPS

-----------------------------------------------------------------------------
(* The inductive invariant                                                 *)

\* A task that has not settled on an outcome yet.
Working == {"started"} \cup InThread

\* The types the arguments below need.
TypeInv ==
  /\ position \in 0..Length /\ committed \in 0..position /\ held \in 0..Length
  /\ slots \in Nat /\ crashes \in Nat
  /\ stage \in [Message -> Stage]
  /\ outcome \in [Message -> {"none"} \cup Outcome]
  /\ answers \in [Message -> Nat]
  /\ circuit \in [failures : Nat, cooling : Nat]

\* The messages nobody works on are those after the position, and the one held.
LoopInv ==
  /\ held # 0 => held = position
  /\ \A m \in Message : stage[m] = "unread" <=> m > position \/ m = held

\* What each task has left behind so far.
TaskInv ==
  \A m \in Message :
    /\ stage[m] \in Working \cup {"unread"} => outcome[m] = "none"
    /\ stage[m] = "done" /\ m \in Mine => answers[m] > 0 \/ m \in unsent
    /\ answers[m] <= crashes + 1
    /\ stage[m] # "done" => answers[m] <= crashes

IInv == TypeInv /\ LoopInv /\ TaskInv /\ SlotsBalance /\ FailuresAreRequests

\* Messages given up after retries.
Exhausted == {m \in Message : outcome[m] = "exhausted"}

-----------------------------------------------------------------------------
(* Counting                                                                *)

LEMMA MessagesAreFinite ==
  \A S \in SUBSET Message : IsFiniteSet(S) /\ Cardinality(S) \in Nat
<1>1. IsFiniteSet(Message)
  BY ServiceAssumption, FS_Interval DEF Message
<1> QED BY <1>1, FS_Subset, FS_CardinalityType

\* A task that starts is one more.
LEMMA TaskStarts ==
  ASSUME TypeInv, NEW m \in Message, stage[m] = "unread",
         stage' = [stage EXCEPT ![m] = "started"]
  PROVE  Cardinality(Tasks') = Cardinality(Tasks) + 1
<1>1. Tasks' = Tasks \cup {m} /\ m \notin Tasks
  BY DEF TypeInv, Tasks, InFlight, InThread
<1>2. Tasks \in SUBSET Message
  BY DEF Tasks
<1> QED BY <1>1, <1>2, MessagesAreFinite, FS_AddElement

\* A task that goes on is still one.
LEMMA TaskGoesOn ==
  ASSUME TypeInv, NEW m \in Message, stage[m] \in InFlight, NEW s \in InFlight,
         stage' = [stage EXCEPT ![m] = s]
  PROVE  Tasks' = Tasks
BY DEF TypeInv, Tasks

\* A task that is done is one less.
LEMMA TaskEnds ==
  ASSUME TypeInv, NEW m \in Message, stage[m] \in InFlight,
         stage' = [stage EXCEPT ![m] = "done"]
  PROVE  Cardinality(Tasks') = Cardinality(Tasks) - 1
<1>1. Tasks' = Tasks \ {m} /\ m \in Tasks
  BY DEF TypeInv, Tasks, InFlight, InThread
<1>2. Tasks \in SUBSET Message
  BY DEF Tasks
<1> QED BY <1>1, <1>2, MessagesAreFinite, FS_RemoveElement

\* Settling on an outcome gives up at most one request more, and none less.
LEMMA OneMoreExhausted ==
  ASSUME TypeInv, NEW m \in Message, outcome[m] = "none", NEW o \in Outcome,
         outcome' = [outcome EXCEPT ![m] = o]
  PROVE  IF o = "exhausted" THEN Cardinality(Exhausted') = Cardinality(Exhausted) + 1
                            ELSE Exhausted' = Exhausted
<1>1. CASE o = "exhausted"
  <2>1. Exhausted' = Exhausted \cup {m} /\ m \notin Exhausted
    BY <1>1 DEF TypeInv, Exhausted
  <2>2. Exhausted \in SUBSET Message
    BY DEF Exhausted
  <2> QED BY <1>1, <2>1, <2>2, MessagesAreFinite, FS_AddElement
<1>2. CASE o # "exhausted"
  BY <1>2 DEF TypeInv, Exhausted
<1> QED BY <1>1, <1>2

-----------------------------------------------------------------------------
(* What the step of a task may do, whichever it is                         *)

Proceeds(m) ==
  /\ stage[m] \in Working
  /\ \E s \in InThread : stage' = [stage EXCEPT ![m] = s]
  /\ circuit' \in {circuit, CircuitClosed}
  /\ UNCHANGED <<consumer, slots, outcome, answers, faults>>

Settles(m) ==
  /\ stage[m] \in Working
  /\ stage' = [stage EXCEPT ![m] = "sending"]
  /\ \E o \in Outcome :
       /\ outcome' = [outcome EXCEPT ![m] = o]
       /\ \/ circuit' \in {circuit, CircuitClosed}
          \/ o = "exhausted" /\ RecordFailure
  /\ UNCHANGED <<consumer, slots, answers, faults>>

Finishes(m) ==
  /\ stage[m] \in {"started", "sending"}
  /\ Release(m)
  /\ \/ m \notin Mine /\ UNCHANGED <<answers, unsent>>
     \/ answers' = [answers EXCEPT ![m] = @ + 1] /\ UNCHANGED unsent
     \/ unsent' = unsent \cup {m} /\ UNCHANGED answers
  /\ UNCHANGED <<consumer, circuit, outcome, crashes>>

LEMMA TaskStepKinds ==
  ASSUME NEW m \in Message, TaskStep(m)
  PROVE  Proceeds(m) \/ Settles(m) \/ Finishes(m)
<1> USE DEF Working, InThread, Outcome, faults
<1>1. CASE Ignore(m)
  BY <1>1 DEF Ignore, Finishes
<1>2. CASE Send(m) \/ SendFails(m)
  BY <1>2 DEF Send, SendFails, Finishes
<1>3. CASE Begin(m)
  <2>1. \E s \in InThread : stage' = [stage EXCEPT ![m] = s]
    BY <1>3 DEF Begin
  <2> QED BY <1>3, <2>1 DEF Begin, Proceeds
<1>4. CASE Routed(m) \/ Attempt(m) \/ Resume(m)
  BY <1>4 DEF Routed, Attempt, Resume, Move, Proceeds, evidence
<1>5. CASE CallFails(m)
  BY <1>5 DEF CallFails, Move, Proceeds
<1>6. CASE BeginFails(m) \/ NotRouted(m) \/ Shed(m) \/ CallRejected(m) \/ Prompt(m)
  BY <1>6 DEF BeginFails, NotRouted, Shed, CallRejected, Prompt, Settle, Settles
<1>7. CASE OutOfTime(m) \/ LastCallFails(m)
  <2>1. RecordFailure /\ Settle(m, "exhausted") /\ stage[m] \in Working
    BY <1>7 DEF OutOfTime, LastCallFails
  <2>2. UNCHANGED <<consumer, slots, answers, faults>>
    BY <1>7 DEF OutOfTime, LastCallFails
  <2> QED BY <2>1, <2>2 DEF Settle, Settles
<1>8. CASE CallSucceeds(m)
  BY <1>8 DEF CallSucceeds, RecordSuccess, Settle, Settles, Proceeds, evidence
<1> QED BY <1>1, <1>2, <1>3, <1>4, <1>5, <1>6, <1>7, <1>8 DEF TaskStep

-----------------------------------------------------------------------------
(* Each kind of step keeps the invariant                                   *)

LEMMA InitIInv == Init => IInv
<1> SUFFICES ASSUME Init PROVE IInv
  OBVIOUS
<1> USE DEF Init
<1>1. TypeInv
  BY ServiceAssumption DEF TypeInv, Stage, CircuitClosed
<1>2. LoopInv
  BY ServiceAssumption DEF LoopInv, Message
<1>3. TaskInv
  BY DEF TaskInv
<1>4. SlotsBalance
  <2>1. Tasks = {}
    BY DEF Tasks, InFlight, InThread
  <2> QED BY <2>1, ServiceAssumption, FS_EmptySet DEF SlotsBalance
<1>5. FailuresAreRequests
  <2>1. Exhausted = {}
    BY DEF Exhausted
  <2> QED BY <2>1, FS_EmptySet DEF FailuresAreRequests, CircuitClosed, Exhausted
<1> QED BY <1>1, <1>2, <1>3, <1>4, <1>5 DEF IInv

LEMMA ProceedsIInv ==
  ASSUME IInv, NEW m \in Message, Proceeds(m)
  PROVE  IInv'
<1> PICK s \in InThread : stage' = [stage EXCEPT ![m] = s]
  BY DEF Proceeds
<1>0. UNCHANGED <<consumer, slots, outcome, answers, faults>>
  BY DEF Proceeds
<1>1. stage[m] \in InFlight /\ s \in InFlight /\ stage' \in [Message -> Stage]
  BY DEF Proceeds, Working, InFlight, Stage, IInv, TypeInv
<1>2. TypeInv'
  BY <1>0, <1>1 DEF Proceeds, IInv, TypeInv, consumer, faults, CircuitClosed
<1>3. LoopInv'
  BY <1>0, <1>1 DEF IInv, TypeInv, LoopInv, consumer, InFlight, InThread
<1>4. TaskInv'
  BY <1>0, <1>1 DEF Proceeds, Working, IInv, TypeInv, TaskInv, consumer, faults, Mine, InThread
<1>5. SlotsBalance'
  BY <1>0, <1>1, TaskGoesOn DEF IInv, SlotsBalance
<1>6. FailuresAreRequests'
  <2>1. Exhausted' = Exhausted /\ Cardinality(Exhausted) \in Nat
    BY <1>0, MessagesAreFinite DEF Exhausted
  <2> QED BY <2>1, ServiceAssumption
          DEF Proceeds, IInv, FailuresAreRequests, CircuitClosed, Exhausted
<1> QED BY <1>2, <1>3, <1>4, <1>5, <1>6 DEF IInv

LEMMA SettlesIInv ==
  ASSUME IInv, NEW m \in Message, Settles(m)
  PROVE  IInv'
<1> PICK o \in Outcome :
      /\ outcome' = [outcome EXCEPT ![m] = o]
      /\ \/ circuit' \in {circuit, CircuitClosed}
         \/ o = "exhausted" /\ RecordFailure
  BY DEF Settles
<1>0. UNCHANGED <<consumer, slots, answers, faults>>
  BY DEF Settles
<1>1. /\ stage[m] \in InFlight /\ stage' = [stage EXCEPT ![m] = "sending"]
      /\ "sending" \in InFlight /\ stage' \in [Message -> Stage]
  BY DEF Settles, Working, InFlight, Stage, IInv, TypeInv
<1>2. outcome[m] = "none"
  BY DEF Settles, IInv, TaskInv
<1>3. TypeInv'
  <2>1. circuit' \in [failures : Nat, cooling : Nat]
    BY ServiceAssumption DEF IInv, TypeInv, CircuitClosed, RecordFailure
  <2> QED BY <1>0, <1>1, <2>1 DEF IInv, TypeInv, consumer, faults
<1>4. LoopInv'
  BY <1>0, <1>1 DEF IInv, TypeInv, LoopInv, consumer, InFlight, InThread
<1>5. TaskInv'
  <2>1. /\ stage[m] # "done" /\ stage'[m] = "sending"
        /\ "sending" \notin Working \cup {"unread", "done"}
        /\ \A n \in Message \ {m} : stage'[n] = stage[n] /\ outcome'[n] = outcome[n]
    BY <1>1 DEF Working, InFlight, InThread, IInv, TypeInv
  <2>2. UNCHANGED <<Mine, answers, unsent, crashes>>
    BY <1>0 DEF consumer, faults, Mine
  <2> QED BY <2>1, <2>2 DEF IInv, TaskInv
<1>6. SlotsBalance'
  BY <1>0, <1>1, TaskGoesOn DEF IInv, SlotsBalance
<1>7. FailuresAreRequests'
  <2>1. Cardinality(Exhausted) \in Nat
    BY MessagesAreFinite DEF Exhausted
  <2>2. IF o = "exhausted" THEN Cardinality(Exhausted') = Cardinality(Exhausted) + 1
                           ELSE Exhausted' = Exhausted
    BY <1>2, OneMoreExhausted DEF IInv
  <2>3. /\ circuit.failures <= Cardinality(Exhausted) /\ circuit.failures \in Nat
        /\ circuit.cooling > 0 => circuit.failures >= Threshold
        /\ circuit.cooling \in Nat
    BY DEF IInv, TypeInv, FailuresAreRequests, Exhausted
  <2>4. /\ circuit'.failures <= Cardinality(Exhausted')
        /\ circuit'.cooling > 0 => circuit'.failures >= Threshold
    BY <2>1, <2>2, <2>3, ServiceAssumption DEF CircuitClosed, RecordFailure
  <2> QED BY <2>4 DEF FailuresAreRequests, Exhausted
<1> QED BY <1>3, <1>4, <1>5, <1>6, <1>7 DEF IInv

LEMMA FinishesIInv ==
  ASSUME IInv, NEW m \in Message, Finishes(m)
  PROVE  IInv'
<1>0. UNCHANGED <<consumer, circuit, outcome, crashes>>
  BY DEF Finishes
<1>1. /\ stage[m] \in InFlight /\ stage' = [stage EXCEPT ![m] = "done"]
      /\ slots' = slots + 1 /\ stage' \in [Message -> Stage]
  BY DEF Finishes, Release, InFlight, Stage, IInv, TypeInv
<1>2. TypeInv'
  <2>1. answers' \in [Message -> Nat]
    BY DEF Finishes, IInv, TypeInv
  <2>2. slots' \in Nat
    BY <1>1 DEF IInv, TypeInv
  <2> QED BY <1>0, <1>1, <2>1, <2>2, Zenon DEF IInv, TypeInv, consumer
<1>3. LoopInv'
  BY <1>0, <1>1 DEF IInv, TypeInv, LoopInv, consumer, InFlight, InThread
<1>4. TaskInv'
  <2>1. stage[m] # "done"
    BY <1>1 DEF InFlight, InThread
  <2> QED BY <1>0, <1>1, <2>1 DEF Finishes, Working, IInv, TypeInv, TaskInv, consumer, Mine, InThread
<1>5. SlotsBalance'
  <2>1. Cardinality(Tasks) \in Nat
    BY MessagesAreFinite DEF Tasks
  <2>2. Cardinality(Tasks') = Cardinality(Tasks) - 1
    BY <1>1, TaskEnds DEF IInv
  <2> QED BY <1>1, <2>1, <2>2 DEF IInv, TypeInv, SlotsBalance
<1>6. FailuresAreRequests'
  BY <1>0 DEF IInv, FailuresAreRequests
<1> QED BY <1>2, <1>3, <1>4, <1>5, <1>6 DEF IInv

\* The loop takes the next message: nobody works on it yet.
LEMMA DeliverIInv ==
  ASSUME IInv, Deliver
  PROVE  IInv'
<1> USE DEF Deliver, IInv
<1>1. /\ position \in Nat /\ position + 1 \in 0..Length /\ committed \in 0..position
      /\ UNCHANGED <<topic, committed, slots, stage, circuit, outcome, answers, unsent, crashes>>
  BY ServiceAssumption DEF TypeInv, faults
<1>2. TypeInv'
  BY <1>1, ServiceAssumption DEF TypeInv
<1>3. LoopInv'
  <2>1. \A m \in Message : m \in Nat \ {0}
    BY DEF Message
  <2> QED BY <1>1, <2>1 DEF LoopInv
<1>4. (TaskInv /\ SlotsBalance /\ FailuresAreRequests)'
  BY <1>1 DEF TaskInv, Mine, SlotsBalance, Tasks, FailuresAreRequests
<1> QED BY <1>2, <1>3, <1>4

\* Its task starts: one permit less, one task more.
LEMMA StartIInv ==
  ASSUME IInv, Start
  PROVE  IInv'
<1> USE DEF IInv
<1>1. /\ held \in Message /\ held = position /\ stage[held] = "unread"
      /\ stage' = [stage EXCEPT ![held] = "started"] /\ held' = 0
      /\ slots' = slots - 1 /\ slots > 0
      /\ UNCHANGED <<topic, position, committed, circuit, outcome, answers, unsent, crashes>>
  BY DEF Start, TypeInv, LoopInv, Message, faults
<1>2. stage' \in [Message -> Stage]
  BY <1>1 DEF TypeInv, Stage, InFlight
<1>3. TypeInv'
  <2>1. slots' \in Nat
    BY <1>1 DEF TypeInv
  <2> QED BY <1>1, <1>2, <2>1, ServiceAssumption DEF TypeInv
<1>4. LoopInv'
  <2>1. \A m \in Message : m \in Nat \ {0}
    BY DEF Message
  <2> QED BY <1>1, <2>1 DEF LoopInv, TypeInv
<1>5. TaskInv'
  BY <1>1 DEF TaskInv, TypeInv, Mine, Working
<1>6. SlotsBalance'
  <2>1. Cardinality(Tasks) \in Nat
    BY MessagesAreFinite DEF Tasks
  <2>2. Cardinality(Tasks') = Cardinality(Tasks) + 1
    BY <1>1, TaskStarts
  <2> QED BY <1>1, <2>1, <2>2 DEF TypeInv, SlotsBalance
<1>7. FailuresAreRequests'
  BY <1>1 DEF FailuresAreRequests
<1> QED BY <1>3, <1>4, <1>5, <1>6, <1>7

\* Everything in memory is gone, and every permit free.
LEMMA CrashIInv ==
  ASSUME IInv, Crash
  PROVE  IInv'
<1> USE DEF IInv
<1>1. /\ position' = committed /\ committed' = committed /\ held' = 0
      /\ slots' = MaxInFlight /\ crashes' = crashes + 1 /\ circuit' = CircuitClosed
      /\ UNCHANGED <<topic, answers, unsent>>
  BY DEF Crash
<1>2. \A m \in Message :
        /\ m \in Nat \ {0}
        /\ m > committed => stage'[m] = "unread" /\ outcome'[m] = "none"
        /\ ~ (m > committed) => /\ stage'[m] \in {"done", "lost"} /\ outcome'[m] = outcome[m]
                                /\ stage'[m] = "done" => stage[m] = "done"
  BY DEF Crash, Message
<1>3. stage' \in [Message -> Stage] /\ outcome' \in [Message -> {"none"} \cup Outcome]
  BY DEF Crash, TypeInv, Stage
<1>4. committed \in Nat /\ committed <= Length /\ crashes \in Nat
  BY ServiceAssumption DEF TypeInv
<1>5. TypeInv'
  <2>1. /\ position' \in 0..Length /\ committed' \in 0..position' /\ held' \in 0..Length
        /\ slots' \in Nat /\ crashes' \in Nat
        /\ circuit' \in [failures : Nat, cooling : Nat]
    BY <1>1, <1>4, ServiceAssumption DEF CircuitClosed
  <2> QED BY <1>1, <1>3, <2>1, Zenon DEF TypeInv
<1>6. LoopInv'
  BY <1>1, <1>2, <1>4 DEF LoopInv
<1>7. TaskInv'
  <2>1. Mine' = Mine
    BY <1>1 DEF Mine
  <2> QED BY <1>1, <1>2, <1>4, <2>1 DEF TaskInv, TypeInv, Working, InThread
<1>8. SlotsBalance'
  <2>1. Tasks' = {}
    BY <1>2 DEF Tasks, InFlight, InThread
  <2> QED BY <1>1, <2>1, ServiceAssumption, FS_EmptySet DEF SlotsBalance
<1>9. FailuresAreRequests'
  <2>1. Cardinality(Exhausted') \in Nat
    BY MessagesAreFinite DEF Exhausted
  <2> QED BY <1>1, <2>1 DEF FailuresAreRequests, CircuitClosed, Exhausted
<1> QED BY <1>5, <1>6, <1>7, <1>8, <1>9

LEMMA NextIInv == IInv /\ [Next]_vars => IInv'
<1> SUFFICES ASSUME IInv, [Next]_vars
             PROVE  IInv'
  OBVIOUS
<1>1. CASE Deliver
  BY <1>1, DeliverIInv
<1>2. CASE Start
  BY <1>2, StartIInv
<1>3. CASE AutoCommit
  <2>1. committed' = position /\ position \in 0..Length
    BY <1>3 DEF AutoCommit, IInv, TypeInv
  <2>2. UNCHANGED <<topic, position, held, slots, stage, circuit, outcome, answers, unsent, crashes>>
    BY <1>3 DEF AutoCommit, faults
  <2>3. TypeInv'
    BY <2>1, <2>2 DEF IInv, TypeInv
  <2> QED BY <2>2, <2>3 DEF IInv, LoopInv, TaskInv, Mine, SlotsBalance, Tasks, FailuresAreRequests
<1>4. ASSUME NEW m \in Message, TaskStep(m)
      PROVE  IInv'
  BY <1>4, TaskStepKinds, ProceedsIInv, SettlesIInv, FinishesIInv
<1>5. CASE Crash
  BY <1>5, CrashIInv
<1>6. CASE Tick
  <2>1. UNCHANGED <<consumer, slots, stage, outcome, answers, faults>>
    BY <1>6 DEF Tick
  <2>2. /\ circuit' \in [failures : Nat, cooling : Nat] /\ circuit'.failures = circuit.failures
        /\ circuit'.cooling > 0 => circuit.cooling > 0
    BY <1>6 DEF Tick, Less, IInv, TypeInv
  <2> QED BY <2>1, <2>2 DEF consumer, faults, IInv, TypeInv, LoopInv, TaskInv, Mine,
                            SlotsBalance, Tasks, FailuresAreRequests
<1>7. CASE UNCHANGED vars
  BY <1>7 DEF vars, consumer, faults, IInv, TypeInv, LoopInv, TaskInv, Mine,
              SlotsBalance, Tasks, FailuresAreRequests
<1> QED BY <1>1, <1>2, <1>3, <1>4, <1>5, <1>6, <1>7 DEF Next

-----------------------------------------------------------------------------
THEOREM Invariance == Spec => []IInv
BY InitIInv, NextIInv, PTL DEF Spec

\* Permits of the semaphore are never leaked or returned twice, whatever fails.
THEOREM SlotsTheorem == Spec => []SlotsBalance
<1>1. IInv => SlotsBalance
  BY DEF IInv
<1> QED BY <1>1, Invariance, PTL

\* A request the loop has taken is served, answered, refused by the broker or
\* lost in a crash: there is no other way for it to disappear.
THEOREM NoSilentDropTheorem == Spec => []NoSilentDrop
<1>1. IInv => NoSilentDrop
  <2> SUFFICES ASSUME IInv, NEW m \in Mine, m <= position, m # held
               PROVE  \/ stage[m] \in InFlight \cup {"lost"}
                      \/ stage[m] = "done" /\ (answers[m] > 0 \/ m \in unsent)
    BY DEF NoSilentDrop
  <2>1. m \in Message /\ stage[m] # "unread"
    BY DEF IInv, LoopInv, TypeInv, Mine, Message
  <2> QED BY <2>1 DEF IInv, TypeInv, TaskInv, Stage
<1> QED BY <1>1, Invariance, PTL

\* The circuit counts requests given up, one each, and opens only at Threshold.
THEOREM FailuresTheorem == Spec => []FailuresAreRequests
<1>1. IInv => FailuresAreRequests
  BY DEF IInv
<1> QED BY <1>1, Invariance, PTL

\* A crash loses only what is being served and what waits for a slot, and an
\* answer is repeated only after a crash.
THEOREM LossTheorem == Spec => LossIsBounded
<1>1. IInv /\ IInv' /\ [Next]_vars =>
        \A m \in Message :
          /\ stage[m] # "lost" /\ stage'[m] = "lost" => m \in Tasks \cup {held}
          /\ answers'[m] <= crashes' + 1
  <2> SUFFICES ASSUME IInv, IInv', [Next]_vars, NEW m \in Message,
                      stage[m] # "lost", stage'[m] = "lost"
               PROVE  m \in Tasks \cup {held}
    BY DEF IInv, TaskInv
  <2>1. CASE Crash
    <3>1. ~ (m > position) /\ stage[m] # "done"
      BY <2>1 DEF Crash, IInv, TypeInv, Message
    <3>2. m = held \/ stage[m] # "unread"
      BY <3>1 DEF IInv, LoopInv
    <3> QED BY <3>1, <3>2 DEF IInv, TypeInv, Tasks, Stage
  <2>2. ASSUME NEW n \in Message, TaskStep(n)
        PROVE  FALSE
    <3>1. \E s \in InFlight \cup {"done"} : stage' = [stage EXCEPT ![n] = s]
      BY <2>2, TaskStepKinds DEF Proceeds, Settles, Finishes, Release, InFlight
    <3> QED BY <3>1 DEF IInv, TypeInv, InFlight, InThread
  <2>3. CASE Start
    <3>1. stage' = [stage EXCEPT ![held] = "started"]
      BY <2>3 DEF Start
    <3> QED BY <3>1 DEF IInv, TypeInv
  <2>4. CASE Deliver \/ AutoCommit \/ Tick \/ UNCHANGED vars
    BY <2>4 DEF Deliver, AutoCommit, Tick, vars
  <2> QED BY <2>1, <2>2, <2>3, <2>4 DEF Next
<1> QED BY <1>1, Invariance, PTL DEF Spec, LossIsBounded
=============================================================================
