--------------------------- MODULE Console_proofs ---------------------------
(***************************************************************************)
(* Proofs about what admin keeps and answers, for any clients, calls,      *)
(* updates and faults: the accounts of clients (Quotas), the configuration *)
(* of a service (RuntimeConfig), the verdict on an assertion (Verdicts)    *)
(* and the models recommended for what is deployed (Recommendations).      *)
(***************************************************************************)
EXTENDS Quotas, RuntimeConfig, Verdicts, Recommendations, DataTheorems

-----------------------------------------------------------------------------
(* Types                                                                   *)

Actions == {"assertions_generated", "blockchain_registered", "validation_completed"}

Message == [action : Actions, call : Call, post : Nat]

CallKind == {"text", "assertions", "extract"} \X {"LIGHT", "BLOCKCHAIN"}

CallRecord ==
  [kind : CallKind,
   at : {"none", "admitted", "refused", "read", "charged", "given", "generating", "done", "failed"},
   seen : Int]

OrderRecord ==
  [saved : BOOLEAN, recorded : BOOLEAN, uploads : Nat, posts : Nat, post : Nat]

Tally == [handler : Nat, documents : Nat, cut : Nat, admin : Nat]

HandlerState ==
  {Idle} \cup [at : {"charge_news", "charge_val"}, call : Call, seen : Int]
         \cup [at : {"document", "upload", "record", "record_free"}, call : Call]

QuotasTypes ==
  /\ account \in ClientQuota \cup {NoClient}
  /\ calls \in [Call -> CallRecord]
  /\ orders \in [Call -> OrderRecord]
  /\ log \in Seq(Message)
  /\ group \in [{"handler", "admin"} -> [position : Nat, from : Nat]]
  /\ \A who \in {"handler", "admin"} :
       group[who].from <= group[who].position /\ group[who].position <= Len(log)
  /\ handler \in HandlerState
  /\ tally \in [Call -> Tally]
  /\ ledger \in [Service -> Int]
  /\ gross \in [Service -> Nat]
  /\ overlapped \subseteq Service
  /\ events \in [EventKind -> Nat]

LEMMA InitQuotasTypes == QuotasInit => QuotasTypes
<1> SUFFICES ASSUME QuotasInit PROVE QuotasTypes
  OBVIOUS
<1>1. PICK limits \in Limits : account = [limits |-> limits, consumed |-> Zero]
  BY DEF QuotasInit
<1>2. limits \in [Service -> Int] /\ Zero \in [Service -> Int] /\ Zero \in [Service -> Nat]
  BY QuotasAssumption DEF Zero
<1>3. account \in ClientQuota
  BY <1>1, <1>2 DEF ClientQuota
<1>4. log = << >> /\ log \in Seq(Message) /\ Len(log) = 0
  BY DEF QuotasInit
<1>5. group \in [{"handler", "admin"} -> [position : Nat, from : Nat]]
  BY DEF QuotasInit
<1>6. \A who \in {"handler", "admin"} :
        group[who].from <= group[who].position /\ group[who].position <= Len(log)
  BY <1>4 DEF QuotasInit
<1>7. calls \in [Call -> CallRecord] /\ orders \in [Call -> OrderRecord]
  BY DEF QuotasInit, CallRecord, CallKind, OrderRecord
<1>8. handler \in HandlerState
  BY DEF QuotasInit, HandlerState
<1>9. /\ tally \in [Call -> Tally] /\ overlapped \subseteq Service
      /\ events \in [EventKind -> Nat]
  BY DEF QuotasInit, Tally
<1>10. ledger \in [Service -> Int] /\ gross \in [Service -> Nat]
  BY <1>2 DEF QuotasInit
<1> QED BY <1>3, <1>4, <1>5, <1>6, <1>7, <1>8, <1>9, <1>10 DEF QuotasTypes

\* What a write leaves of the account and of the sums kept of it.
Accounts == account \in ClientQuota \cup {NoClient} /\ ledger \in [Service -> Int]
              /\ gross \in [Service -> Nat] /\ overlapped \subseteq Service

LEMMA WriteTypes ==
  ASSUME Accounts, NEW who, NEW s \in Service, NEW written \in ClientQuota, NEW delta \in Int,
         Account(who, s, written, delta)
  PROVE  Accounts'
<1>1. account' \in ClientQuota
  BY DEF Account
<1>2. ledger' \in [Service -> Int] /\ gross' \in [Service -> Nat] /\ overlapped' \subseteq Service
  BY DEF Account, Accounts
<1> QED BY <1>1, <1>2 DEF Accounts

LEMMA PatchedType ==
  ASSUME account \in ClientQuota, NEW s \in Service, NEW value \in Int
  PROVE  /\ Patched(s, value) \in ClientQuota
         /\ Patched(s, value).consumed = [account.consumed EXCEPT ![s] = value]
BY DEF Patched, ClientQuota

LEMMA ChargeTypes ==
  ASSUME Accounts, NEW who, NEW s \in Service, NEW value \in Int, NEW delta \in Int,
         Charge(who, s, value, delta) \/ ChargeFails \/ Unaccounted
  PROVE  Accounts'
<1>1. CASE Charge(who, s, value, delta)
  <2>1. account \in ClientQuota
    BY <1>1 DEF Charge, Accounts
  <2>2. PICK written \in ClientQuota : written = Patched(s, value)
    BY <2>1, PatchedType
  <2>3. Account(who, s, written, delta)
    BY <1>1, <2>2 DEF Charge
  <2> QED BY <2>3, WriteTypes
<1>2. CASE Unaccounted
  BY <1>2 DEF Unaccounted, Accounts
<1> QED BY <1>1, <1>2 DEF ChargeFails

LEMMA SeenIsInt ==
  ASSUME QuotasTypes
  PROVE  /\ \A c \in Call : calls[c].seen \in Int
         /\ handler \in HandlerState
         /\ handler.at \in {"charge_news", "charge_val"} =>
              handler \in [at : {"charge_news", "charge_val"}, call : Call, seen : Int]
         /\ handler.at \in {"document", "upload", "record", "record_free"} =>
              handler \in [at : {"document", "upload", "record", "record_free"}, call : Call]
         /\ account # NoClient => account \in ClientQuota /\ \A s \in Service : account.consumed[s] \in Int
BY DEF QuotasTypes, HandlerState, CallRecord, Idle, ClientQuota

CallPoints ==
  {"none", "admitted", "refused", "read", "charged", "given", "generating", "done", "failed"}

LEMMA CallUpdates ==
  ASSUME NEW r \in CallRecord, NEW at \in CallPoints
  PROVE  /\ [r EXCEPT !.at = at] \in CallRecord
         /\ [r EXCEPT !.at = at, !.seen = 0] \in CallRecord
<1>1. \A q \in CallRecord : [q EXCEPT !.at = at] \in CallRecord
  BY DEF CallRecord, CallPoints
<1>2. \A q \in CallRecord : [q EXCEPT !.seen = 0] \in CallRecord
  BY DEF CallRecord
<1>3. PICK moved \in CallRecord : moved = [r EXCEPT !.at = at]
  BY <1>1
<1>4. [r EXCEPT !.at = at, !.seen = 0] = [moved EXCEPT !.seen = 0]
  BY <1>3, Zenon
<1> QED BY <1>1, <1>2, <1>4

LEMMA TallyUpdates ==
  ASSUME tally \in [Call -> Tally], NEW c \in Call
  PROVE  /\ [tally EXCEPT ![c].handler = @ + 1] \in [Call -> Tally]
         /\ [tally EXCEPT ![c].documents = @ + 1] \in [Call -> Tally]
         /\ [tally EXCEPT ![c].cut = @ + 1] \in [Call -> Tally]
         /\ [tally EXCEPT ![c].admin = @ + 1] \in [Call -> Tally]
<1>1. \A r \in Tally :
        /\ [r EXCEPT !.handler = @ + 1] \in Tally
        /\ [r EXCEPT !.documents = @ + 1] \in Tally
        /\ [r EXCEPT !.cut = @ + 1] \in Tally
        /\ [r EXCEPT !.admin = @ + 1] \in Tally
  BY DEF Tally
<1>2. PICK r \in Tally : r = tally[c]
  OBVIOUS
<1>3. /\ [tally EXCEPT ![c] = [r EXCEPT !.handler = @ + 1]] \in [Call -> Tally]
      /\ [tally EXCEPT ![c] = [r EXCEPT !.documents = @ + 1]] \in [Call -> Tally]
      /\ [tally EXCEPT ![c] = [r EXCEPT !.cut = @ + 1]] \in [Call -> Tally]
      /\ [tally EXCEPT ![c] = [r EXCEPT !.admin = @ + 1]] \in [Call -> Tally]
  BY <1>1
<1> QED BY <1>2, <1>3

LEMMA OrderUpdates ==
  ASSUME orders \in [Call -> OrderRecord], NEW c \in Call, NEW value \in BOOLEAN, NEW n \in Nat
  PROVE  /\ [orders EXCEPT ![c].recorded = value] \in [Call -> OrderRecord]
         /\ [orders EXCEPT ![c].uploads = @ + 1] \in [Call -> OrderRecord]
         /\ [orders EXCEPT ![c].posts = @ + 1] \in [Call -> OrderRecord]
         /\ [orders EXCEPT ![c].post = n] \in [Call -> OrderRecord]
<1>1. \A r \in OrderRecord :
        /\ [r EXCEPT !.recorded = value] \in OrderRecord
        /\ [r EXCEPT !.uploads = @ + 1] \in OrderRecord
        /\ [r EXCEPT !.posts = @ + 1] \in OrderRecord
        /\ [r EXCEPT !.post = n] \in OrderRecord
  BY DEF OrderRecord
<1>2. PICK r \in OrderRecord : r = orders[c]
  OBVIOUS
<1>3. /\ [orders EXCEPT ![c] = [r EXCEPT !.recorded = value]] \in [Call -> OrderRecord]
      /\ [orders EXCEPT ![c] = [r EXCEPT !.uploads = @ + 1]] \in [Call -> OrderRecord]
      /\ [orders EXCEPT ![c] = [r EXCEPT !.posts = @ + 1]] \in [Call -> OrderRecord]
      /\ [orders EXCEPT ![c] = [r EXCEPT !.post = n]] \in [Call -> OrderRecord]
  BY <1>1
<1> QED BY <1>2, <1>3

LEMMA GotoTypes ==
  ASSUME QuotasTypes, NEW c \in Call,
         NEW at \in CallPoints, Goto(c, at) \/ End(c, at)
  PROVE  calls' \in [Call -> CallRecord]
<1>1. calls \in [Call -> CallRecord]
  BY DEF QuotasTypes
<1>2. /\ [calls[c] EXCEPT !.at = at] \in CallRecord
      /\ [calls[c] EXCEPT !.at = at, !.seen = 0] \in CallRecord
  BY <1>1, CallUpdates
<1>3. CASE Goto(c, at)
  BY <1>1, <1>2, <1>3 DEF Goto
<1>4. CASE End(c, at)
  <2>1. calls' = [calls EXCEPT ![c] = [calls[c] EXCEPT !.at = at, !.seen = 0]]
    BY <1>1, <1>4 DEF End, CallRecord
  <2> QED BY <1>1, <1>2, <2>1
<1> QED BY <1>3, <1>4

\* Appending to the log moves no consumer.
LEMMA AppendTypes ==
  ASSUME QuotasTypes, NEW msg \in Message, log' = Append(log, msg), UNCHANGED group
  PROVE  /\ log' \in Seq(Message) /\ Len(log') = Len(log) + 1
         /\ \A who \in {"handler", "admin"} :
              group'[who].from <= group'[who].position /\ group'[who].position <= Len(log')
<1>1. log \in Seq(Message) /\ Len(log) \in Nat
  BY DEF QuotasTypes
<1>2. log' \in Seq(Message) /\ Len(log') = Len(log) + 1
  BY <1>1
<1> QED BY <1>1, <1>2 DEF QuotasTypes

LEMMA EndpointTypes ==
  ASSUME QuotasTypes, NEW c \in Call,
         \/ Enter(c) \/ Generate(c) \/ ChargeGiven(c) \/ RefundGiven(c) \/ SendGiven(c) \/ Extract(c)
  PROVE  QuotasTypes'
<1>1. /\ account \in ClientQuota \cup {NoClient} /\ Accounts
      /\ calls[c].seen \in Int /\ calls \in [Call -> CallRecord] /\ orders \in [Call -> OrderRecord]
  BY SeenIsInt DEF QuotasTypes, Accounts
<1>2. UNCHANGED <<group, handler, tally, events>>
  BY DEF Enter, Generate, ChargeGiven, RefundGiven, SendGiven, Extract, histories
<1>3. CASE Enter(c)
  <2>1. PICK asked \in KindsOf[c], admitted \in BOOLEAN :
          /\ admitted => account # NoClient
          /\ calls' = [calls EXCEPT ![c] =
               [kind |-> asked,
                at |-> IF admitted THEN ReadThen(asked[1]) ELSE "refused",
                seen |-> IF admitted /\ asked[1] # "text" THEN account.consumed["news"] ELSE 0]]
          /\ orders' = IF admitted /\ asked[1] = "text"
                         THEN [orders EXCEPT ![c].saved = TRUE] ELSE orders
    BY <1>3 DEF Enter
  <2>2. asked \in {"text", "assertions", "extract"} \X {"LIGHT", "BLOCKCHAIN"}
    BY QuotasAssumption
  <2>3. ReadThen(asked[1]) \in {"admitted", "read", "generating"}
    BY <2>2 DEF ReadThen
  <2>4. admitted => account.consumed["news"] \in Int
    BY <2>1, SeenIsInt DEF Service
  <2>5. calls' \in [Call -> CallRecord]
    BY <1>1, <2>1, <2>2, <2>3, <2>4 DEF CallRecord, CallKind
  <2>6. orders' \in [Call -> OrderRecord]
    BY <1>1, <2>1 DEF OrderRecord
  <2>7. UNCHANGED <<account, log, ledger, gross, overlapped>>
    BY <1>3 DEF Enter, histories
  <2> QED BY <1>2, <2>5, <2>6, <2>7 DEF QuotasTypes
<1>4. CASE Generate(c) \/ SendGiven(c)
  <2>1. PICK msg : msg = Generated(c)
    OBVIOUS
  <2>2. msg \in Message /\ log' = Append(log, msg)
    BY <1>4, <2>1 DEF Generated, Message, Actions, Generate, SendGiven
  <2>3. UNCHANGED <<account, orders, ledger, gross, overlapped>> /\ End(c, "done")
    BY <1>4 DEF Generate, SendGiven, histories
  <2>4. calls' \in [Call -> CallRecord]
    BY <2>3, GotoTypes DEF CallPoints
  <2> QED BY <1>2, <2>2, <2>3, <2>4, AppendTypes DEF QuotasTypes
<1>5. CASE ChargeGiven(c) \/ RefundGiven(c) \/ Extract(c)
  <2>1. UNCHANGED log
    BY <1>5 DEF ChargeGiven, RefundGiven, Extract
  <2>2. Accounts'
    <3>1. PICK seen \in Int : seen = calls[c].seen
      BY <1>1
    <3>2. \/ Charge(c, "news", seen + 1, 1) \/ Charge(c, "news", seen - 1, -2)
          \/ ChargeFails \/ Unaccounted
      BY <1>5, <3>1 DEF ChargeGiven, RefundGiven, Extract
    <3>3. "news" \in Service /\ seen + 1 \in Int /\ seen - 1 \in Int /\ -2 \in Int
      BY DEF Service
    <3> QED BY <1>1, <3>2, <3>3, ChargeTypes
  <2>3. calls' \in [Call -> CallRecord]
    BY <1>5, GotoTypes DEF ChargeGiven, RefundGiven, Extract, CallPoints
  <2>4. orders' \in [Call -> OrderRecord]
    BY <1>1, <1>5, ZenonT(40) DEF ChargeGiven, RefundGiven, Extract, OrderRecord
  <2> QED BY <1>2, <2>1, <2>2, <2>3, <2>4 DEF QuotasTypes, Accounts
<1> QED BY <1>3, <1>4, <1>5

LEMMA AdvanceTypes ==
  ASSUME QuotasTypes, NEW who \in {"handler", "admin"}, Handed(who), Advance(who), UNCHANGED log
  PROVE  /\ Next_(who) \in Message
         /\ group' \in [{"handler", "admin"} -> [position : Nat, from : Nat]]
         /\ \A w \in {"handler", "admin"} :
              group'[w].from <= group'[w].position /\ group'[w].position <= Len(log')
<1>1. /\ log \in Seq(Message) /\ Len(log) \in Nat
      /\ group \in [{"handler", "admin"} -> [position : Nat, from : Nat]]
  BY DEF QuotasTypes
<1>2. /\ group[who].position \in Nat /\ group[who].position < Len(log)
      /\ group[who].position + 1 \in 1..Len(log)
  BY <1>1 DEF Handed
<1>3. Next_(who) \in Message
  BY <1>1, <1>2 DEF Next_
<1>4. /\ group' = [group EXCEPT ![who] = [group[who] EXCEPT !.position = @ + 1]]
      /\ [group[who] EXCEPT !.position = @ + 1] \in [position : Nat, from : Nat]
  BY <1>1, <1>2 DEF Advance
<1>5. group' \in [{"handler", "admin"} -> [position : Nat, from : Nat]]
  BY <1>1, <1>4
<1>6. ASSUME NEW w \in {"handler", "admin"}
      PROVE  group'[w].from <= group'[w].position /\ group'[w].position <= Len(log')
  <2>1. group[w].from <= group[w].position /\ group[w].position <= Len(log)
    BY DEF QuotasTypes
  <2>2. CASE w = who
    <3>1. group'[w].from = group[w].from /\ group'[w].position = group[w].position + 1
      BY <1>1, <1>4, <2>2
    <3> QED BY <1>1, <1>2, <2>1, <2>2, <3>1
  <2>3. CASE w # who
    BY <1>1, <1>4, <2>1, <2>3
  <2> QED BY <2>2, <2>3
<1> QED BY <1>3, <1>5, <1>6

LEMMA ConsumerTypes ==
  ASSUME QuotasTypes,
         \/ TakeGenerated \/ ChargeGeneration \/ WriteDocument \/ SendUpload \/ TakeRegistered
         \/ TakeValidated \/ ChargeValidation \/ RecordValidation
  PROVE  QuotasTypes'
<1>1. /\ Accounts /\ orders \in [Call -> OrderRecord] /\ tally \in [Call -> Tally]
  BY DEF QuotasTypes, Accounts
<1>2. UNCHANGED <<calls, log, events>>
  BY DEF TakeGenerated, ChargeGeneration, WriteDocument, SendUpload, TakeRegistered, TakeValidated,
         ChargeValidation, RecordValidation, Take, histories
<1>3. CASE TakeGenerated \/ TakeRegistered \/ TakeValidated
  <2>1. Handed("handler") /\ Advance("handler") /\ UNCHANGED <<account, histories>>
    BY <1>3 DEF TakeGenerated, TakeRegistered, TakeValidated, Take
  <2>2. PICK msg \in Message : msg = Next_("handler")
    BY <1>2, <2>1, AdvanceTypes
  <2>3. msg.call \in Call /\ msg.post \in Nat
    BY DEF Message
  <2>4. account # NoClient => account.consumed["news"] \in Int /\ account.consumed["val"] \in Int
    BY SeenIsInt DEF Service
  <2>5. handler' \in HandlerState /\ orders' \in [Call -> OrderRecord]
    <3>1. CASE TakeGenerated
      <4>1. /\ UNCHANGED orders
            /\ \/ UNCHANGED handler
               \/ /\ account # NoClient
                  /\ handler' = [at |-> "charge_news", call |-> msg.call,
                                 seen |-> account.consumed["news"]]
        BY <2>2, <3>1 DEF TakeGenerated
      <4> QED BY <1>1, <2>3, <2>4, <4>1, SeenIsInt DEF HandlerState
    <3>2. CASE TakeRegistered
      <4>1. orders' = [orders EXCEPT ![msg.call].post = msg.post] /\ UNCHANGED handler
        BY <2>2, <3>2 DEF TakeRegistered
      <4> QED BY <1>1, <2>3, <4>1, OrderUpdates, SeenIsInt
    <3>3. CASE TakeValidated
      <4>1. \/ handler' = Idle
            \/ handler' = [at |-> "record_free", call |-> msg.call]
            \/ /\ account # NoClient
               /\ handler' = [at |-> "charge_val", call |-> msg.call, seen |-> account.consumed["val"]]
        BY <2>2, <3>3 DEF TakeValidated
      <4>2. UNCHANGED orders
        BY <3>3 DEF TakeValidated
      <4> QED BY <1>1, <2>3, <2>4, <4>1, <4>2 DEF HandlerState
    <3> QED BY <1>3, <3>1, <3>2, <3>3
  <2>6. UNCHANGED <<account, tally, ledger, gross, overlapped>>
    BY <2>1 DEF histories
  <2>7. "handler" \in {"handler", "admin"}
    OBVIOUS
  <2>8. /\ group' \in [{"handler", "admin"} -> [position : Nat, from : Nat]]
        /\ \A w \in {"handler", "admin"} :
             group'[w].from <= group'[w].position /\ group'[w].position <= Len(log')
    BY <1>2, <2>1, <2>7, AdvanceTypes
  <2> QED BY <1>2, <2>5, <2>6, <2>8 DEF QuotasTypes
<1>4. CASE ChargeGeneration \/ ChargeValidation
  <2>1. /\ handler \in [at : {"charge_news", "charge_val"}, call : Call, seen : Int]
        /\ UNCHANGED <<orders, group>>
    BY <1>4, SeenIsInt DEF ChargeGeneration, ChargeValidation
  <2>2. PICK seen \in Int, c \in Call : seen = handler.seen /\ c = handler.call
    BY <2>1
  <2>3. PICK s \in Service : Charge("handler", s, seen + 1, 1) \/ ChargeFails
    BY <1>4, <2>2 DEF ChargeGeneration, ChargeValidation, Service
  <2>4. seen + 1 \in Int /\ 1 \in Int
    OBVIOUS
  <2>5. Accounts'
    BY <1>1, <2>3, <2>4, ChargeTypes
  <2>6. \/ handler' = Idle
        \/ \E at \in {"document", "record", "record_free"} : handler' = [at |-> at, call |-> c]
    BY <1>4, <2>2 DEF ChargeGeneration, ChargeValidation
  <2>7. handler' \in HandlerState
    BY <2>2, <2>6 DEF HandlerState
  <2>8. tally' = [tally EXCEPT ![c].handler = @ + 1] \/ UNCHANGED tally
    BY <1>4, <2>2 DEF ChargeGeneration, ChargeValidation
  <2>9. tally' \in [Call -> Tally]
    <3>1. [tally EXCEPT ![c].handler = @ + 1] \in [Call -> Tally]
      BY <1>1, <2>2, TallyUpdates
    <3> QED BY <1>1, <2>8, <3>1
  <2> QED BY <1>2, <2>1, <2>5, <2>7, <2>9 DEF QuotasTypes, Accounts
<1>5. CASE WriteDocument \/ SendUpload \/ RecordValidation
  <2>1. PICK c \in Call : c = handler.call
    BY <1>5, SeenIsInt DEF WriteDocument, SendUpload, RecordValidation
  <2>2. /\ handler' = Idle \/ handler' = [at |-> "upload", call |-> c]
        /\ \/ orders' = [orders EXCEPT ![c].recorded = TRUE]
           \/ orders' = [orders EXCEPT ![c].recorded = FALSE]
           \/ orders' = [orders EXCEPT ![c].uploads = @ + 1]
        /\ UNCHANGED tally \/ tally' = [tally EXCEPT ![c].documents = @ + 1]
        /\ UNCHANGED <<account, group, ledger, gross, overlapped>>
    BY <1>5, <2>1 DEF WriteDocument, SendUpload, RecordValidation, histories
  <2>3. orders' \in [Call -> OrderRecord]
    <3>1. /\ [orders EXCEPT ![c].recorded = TRUE] \in [Call -> OrderRecord]
          /\ [orders EXCEPT ![c].recorded = FALSE] \in [Call -> OrderRecord]
          /\ [orders EXCEPT ![c].uploads = @ + 1] \in [Call -> OrderRecord]
      BY <1>1, <2>1, OrderUpdates
    <3> QED BY <2>2, <3>1
  <2>4. handler' \in HandlerState /\ tally' \in [Call -> Tally]
    <3>1. [tally EXCEPT ![c].documents = @ + 1] \in [Call -> Tally]
      BY <1>1, <2>1, TallyUpdates
    <3> QED BY <1>1, <2>1, <2>2, <3>1 DEF HandlerState
  <2> QED BY <1>2, <2>2, <2>3, <2>4 DEF QuotasTypes
<1> QED BY <1>3, <1>4, <1>5

\* A consumer goes back to an offset it has committed.
LEMMA RewindTypes ==
  ASSUME QuotasTypes, NEW who \in {"handler", "admin"},
         NEW offset \in group[who].from .. group[who].position,
         group' = [group EXCEPT ![who] = [position |-> offset, from |-> offset]], UNCHANGED log
  PROVE  /\ offset \in Nat
         /\ group' \in [{"handler", "admin"} -> [position : Nat, from : Nat]]
         /\ \A w \in {"handler", "admin"} :
              group'[w].from <= group'[w].position /\ group'[w].position <= Len(log')
<1>1. group \in [{"handler", "admin"} -> [position : Nat, from : Nat]] /\ Len(log) \in Nat
  BY DEF QuotasTypes
<1>2. group[who].from \in Nat /\ group[who].position \in Nat
  BY <1>1
<1>3. offset \in Nat /\ offset <= group[who].position
  BY <1>2
<1>4. group' \in [{"handler", "admin"} -> [position : Nat, from : Nat]]
  BY <1>1, <1>3
<1>5. ASSUME NEW w \in {"handler", "admin"}
      PROVE  group'[w].from <= group'[w].position /\ group'[w].position <= Len(log')
  <2>1. group[w].from <= group[w].position /\ group[w].position <= Len(log)
    BY DEF QuotasTypes
  <2>2. CASE w = who
    BY <1>1, <1>2, <1>3, <2>1, <2>2
  <2>3. CASE w # who
    BY <1>1, <2>1, <2>3
  <2> QED BY <2>2, <2>3
<1> QED BY <1>3, <1>4, <1>5

LEMMA EventTypes ==
  ASSUME QuotasTypes, NEW sort \in EventKind, Event(sort)
  PROVE  events' \in [EventKind -> Nat]
BY DEF QuotasTypes, Event

LEMMA WorldTypes ==
  ASSUME QuotasTypes,
         \/ \E c \in Call : Post(c) \/ Validate(c)
         \/ HandlerCrash \/ GeneratorCrash \/ AdminCrash \/ Bill
         \/ CreateClient \/ UpdateClient \/ DeleteClient
  PROVE  QuotasTypes'
<1>1. /\ Accounts /\ orders \in [Call -> OrderRecord] /\ calls \in [Call -> CallRecord]
      /\ tally \in [Call -> Tally] /\ log \in Seq(Message)
  BY DEF QuotasTypes, Accounts
<1>2. ASSUME NEW c \in Call, Post(c)
      PROVE  QuotasTypes'
  <2>1. orders[c].posts + 1 \in Nat
    BY <1>1 DEF OrderRecord
  <2>2. PICK msg \in Message : msg = Registered(c, orders[c].posts + 1)
    BY <2>1 DEF Registered, Message, Actions
  <2>3. /\ log' = Append(log, msg) /\ orders' = [orders EXCEPT ![c].posts = @ + 1]
        /\ UNCHANGED <<account, calls, group, handler, tally, ledger, gross, overlapped>>
    BY <1>2, <2>2 DEF Post, histories
  <2>4. events' \in [EventKind -> Nat]
    BY <1>2, EventTypes DEF Post, EventKind, QuotasTypes
  <2>5. orders' \in [Call -> OrderRecord]
    BY <1>1, <2>3, OrderUpdates
  <2> QED BY <2>3, <2>4, <2>5, AppendTypes DEF QuotasTypes
<1>3. ASSUME NEW c \in Call, Validate(c)
      PROVE  QuotasTypes'
  <2>1. PICK post \in 1 .. orders[c].posts :
          /\ IF InLog(Validated(c, post)) THEN Event("repeat") ELSE UNCHANGED events
          /\ log' = Append(log, Validated(c, post))
    BY <1>3 DEF Validate
  <2>2. post \in Nat
    BY <1>1, <2>1 DEF OrderRecord
  <2>3. PICK msg \in Message : msg = Validated(c, post)
    BY <2>2 DEF Validated, Message, Actions
  <2>4. UNCHANGED <<account, calls, orders, group, handler, tally, ledger, gross, overlapped>>
    BY <1>3 DEF Validate, histories
  <2>5. events' \in [EventKind -> Nat]
    BY <2>1, EventTypes DEF EventKind, QuotasTypes
  <2> QED BY <2>1, <2>3, <2>4, <2>5, AppendTypes DEF QuotasTypes
<1>4. CASE HandlerCrash
  <2>1. PICK offset \in group["handler"].from .. group["handler"].position :
          group' = [group EXCEPT !["handler"] = [position |-> offset, from |-> offset]]
    BY <1>4 DEF HandlerCrash
  <2>2. UNCHANGED <<account, orders, log, ledger, gross, overlapped>> /\ Event("handler")
    BY <1>4 DEF HandlerCrash
  <2>9. tally' \in [Call -> Tally]
    <3>1. handler.at = "record" => handler.call \in Call
      BY SeenIsInt
    <3>2. \/ UNCHANGED tally
          \/ handler.at = "record" /\ tally' = [tally EXCEPT ![handler.call].cut = @ + 1]
      BY <1>4 DEF HandlerCrash
    <3> QED BY <1>1, <3>1, <3>2, TallyUpdates
  <2>3. events' \in [EventKind -> Nat]
    BY <2>2, EventTypes DEF EventKind
  <2>4. handler' \in HandlerState
    BY <1>4 DEF HandlerCrash, HandlerState
  <2>5. \A c \in Call : [calls[c] EXCEPT !.at = "failed", !.seen = 0] \in CallRecord
    BY <1>1, CallUpdates DEF CallPoints
  <2>6. calls' \in [Call -> CallRecord]
    BY <1>1, <1>4, <2>5 DEF HandlerCrash
  <2>7. "handler" \in {"handler", "admin"}
    OBVIOUS
  <2>8. /\ group' \in [{"handler", "admin"} -> [position : Nat, from : Nat]]
        /\ \A w \in {"handler", "admin"} :
             group'[w].from <= group'[w].position /\ group'[w].position <= Len(log')
    BY <2>1, <2>2, <2>7, RewindTypes
  <2> QED BY <2>2, <2>3, <2>4, <2>6, <2>8, <2>9 DEF QuotasTypes
<1>8. CASE GeneratorCrash
  <2>1. UNCHANGED <<account, orders, log, group, handler, tally, ledger, gross, overlapped>>
        /\ Event("generator")
    BY <1>8 DEF GeneratorCrash, histories
  <2>2. PICK again \in SUBSET {c \in Call : calls[c].kind[1] = "text" /\ calls[c].at = "done"} :
          calls' = [c \in Call |->
            IF c \in again THEN [calls[c] EXCEPT !.at = "admitted"]
            ELSE IF calls[c].at = "generating" THEN [calls[c] EXCEPT !.at = "failed", !.seen = 0]
            ELSE calls[c]]
    BY <1>8 DEF GeneratorCrash
  <2>3. \A c \in Call : /\ [calls[c] EXCEPT !.at = "admitted"] \in CallRecord
                       /\ [calls[c] EXCEPT !.at = "failed", !.seen = 0] \in CallRecord
    BY <1>1, CallUpdates DEF CallPoints
  <2>4. calls' \in [Call -> CallRecord]
    BY <1>1, <2>2, <2>3
  <2>5. events' \in [EventKind -> Nat]
    BY <2>1, EventTypes DEF EventKind
  <2> QED BY <2>1, <2>4, <2>5 DEF QuotasTypes
<1>5. CASE AdminCrash
  <2>1. PICK offset \in group["admin"].from .. group["admin"].position :
          group' = [group EXCEPT !["admin"] = [position |-> offset, from |-> offset]]
    BY <1>5 DEF AdminCrash
  <2>2. UNCHANGED <<account, calls, orders, log, handler, tally, ledger, gross, overlapped>>
        /\ Event("admin")
    BY <1>5 DEF AdminCrash, histories
  <2>3. events' \in [EventKind -> Nat]
    BY <2>2, EventTypes DEF EventKind
  <2>4. "admin" \in {"handler", "admin"}
    OBVIOUS
  <2>5. /\ group' \in [{"handler", "admin"} -> [position : Nat, from : Nat]]
        /\ \A w \in {"handler", "admin"} :
             group'[w].from <= group'[w].position /\ group'[w].position <= Len(log')
    BY <2>1, <2>2, <2>4, RewindTypes
  <2> QED BY <2>2, <2>3, <2>5 DEF QuotasTypes
<1>6. CASE Bill
  <2>1. "admin" \in {"handler", "admin"} /\ Handed("admin") /\ Advance("admin")
        /\ UNCHANGED <<calls, orders, log, handler, events>>
    BY <1>6 DEF Bill
  <2>2. PICK msg \in Message : msg = Next_("admin")
    BY <2>1, AdvanceTypes
  <2>3. PICK s \in Service : s = BilledService(msg.action)
    BY DEF BilledService, Service
  <2>4. \/ UNCHANGED <<account, histories>>
        \/ /\ Account("admin", s, Incremented(s), 1)
           /\ tally' = [tally EXCEPT ![msg.call].admin = @ + 1]
    BY <1>6, <2>2, <2>3 DEF Bill
  <2>5. Incremented(s) \in ClientQuota
    <3>1. CASE account = NoClient
      <4>1. Zero \in [Service -> Int] /\ [Zero EXCEPT ![s] = 1] \in [Service -> Int]
        BY DEF Zero
      <4> QED BY <3>1, <4>1 DEF Incremented, ClientQuota
    <3>2. CASE account # NoClient
      <4>1. account \in ClientQuota /\ account.consumed[s] + 1 \in Int
        BY <3>2, SeenIsInt
      <4> QED BY <3>2, <4>1, PatchedType DEF Incremented
    <3> QED BY <3>1, <3>2
  <2>6. Accounts'
    <3>1. PICK written \in ClientQuota : written = Incremented(s)
      BY <2>5
    <3>2. CASE Account("admin", s, Incremented(s), 1)
      BY <1>1, <3>1, <3>2, WriteTypes
    <3> QED BY <1>1, <2>4, <3>2 DEF histories, Accounts
  <2>7. tally' \in [Call -> Tally]
    <3>1. msg.call \in Call
      BY DEF Message
    <3> QED BY <1>1, <2>4, <3>1, TallyUpdates DEF histories
  <2>8. /\ group' \in [{"handler", "admin"} -> [position : Nat, from : Nat]]
        /\ \A w \in {"handler", "admin"} :
             group'[w].from <= group'[w].position /\ group'[w].position <= Len(log')
    BY <2>1, AdvanceTypes
  <2> QED BY <2>1, <2>6, <2>7, <2>8 DEF QuotasTypes, Accounts
<1>7. CASE CreateClient \/ UpdateClient \/ DeleteClient
  <2>1. Event("console") /\ UNCHANGED <<calls, orders, log, group, handler, tally, gross>>
    BY <1>7 DEF CreateClient, UpdateClient, DeleteClient, Operate
  <2>2. events' \in [EventKind -> Nat]
    BY <2>1, EventTypes DEF EventKind
  <2>3. Zero \in [Service -> Int]
    BY DEF Zero
  <2>4. CASE CreateClient
    <3>1. PICK limits \in Limits : account' = [limits |-> limits, consumed |-> Zero]
      BY <2>4 DEF CreateClient
    <3>2. account' \in ClientQuota
      BY <2>3, <3>1, QuotasAssumption DEF ClientQuota
    <3>3. UNCHANGED <<ledger, overlapped>>
      BY <2>4 DEF CreateClient
    <3> QED BY <2>1, <2>2, <3>2, <3>3 DEF QuotasTypes
  <2>5. CASE UpdateClient
    <3>1. PICK limits \in Limits : account' = [account EXCEPT !.limits = limits]
      BY <2>5 DEF UpdateClient
    <3>2. account \in ClientQuota
      BY <1>1, <2>5 DEF UpdateClient, Accounts
    <3>3. account' \in ClientQuota
      BY <3>1, <3>2, QuotasAssumption DEF ClientQuota
    <3>4. UNCHANGED <<ledger, overlapped>>
      BY <2>5 DEF UpdateClient
    <3> QED BY <2>1, <2>2, <3>3, <3>4 DEF QuotasTypes
  <2>6. CASE DeleteClient
    <3>1. account' = NoClient /\ ledger' = Zero /\ overlapped' \subseteq Service
      BY <1>1, <2>6 DEF DeleteClient, Accounts
    <3> QED BY <2>1, <2>2, <2>3, <3>1 DEF QuotasTypes
  <2> QED BY <1>7, <2>4, <2>5, <2>6
<1> QED BY <1>2, <1>3, <1>4, <1>5, <1>6, <1>7, <1>8

LEMMA NextQuotasTypes == QuotasTypes /\ [QuotasNext]_quotaVars => QuotasTypes'
<1> SUFFICES ASSUME QuotasTypes, [QuotasNext]_quotaVars
             PROVE  QuotasTypes'
  OBVIOUS
<1>1. CASE UNCHANGED quotaVars
  BY <1>1 DEF quotaVars, histories, QuotasTypes
<1> QED BY <1>1, EndpointTypes, ConsumerTypes, WorldTypes DEF QuotasNext

-----------------------------------------------------------------------------
(* The counters                                                            *)

\* Between a read of the counter and the write it is for.
CallHolds(c) == calls[c].at \in {"read", "charged", "generating"}

HandlerHolds(s) ==
  \/ s = "news" /\ handler.at = "charge_news"
  \/ s = "val" /\ handler.at = "charge_val"

\* The counter as the call knows it: what it read, and the charge it made.
Known(c) == IF calls[c].at = "charged" THEN calls[c].seen + 1 ELSE calls[c].seen

\* What is known of a counter is true until somebody else writes it.
Held(s, known) ==
  /\ known <= gross[s]
  /\ s \notin overlapped => account # NoClient /\ account.consumed[s] = known

CountersInv ==
  /\ account = NoClient => ledger = Zero
  /\ account # NoClient => \A s \in Service :
       /\ s \notin overlapped => account.consumed[s] = ledger[s]
       /\ account.consumed[s] <= gross[s]
  /\ \A c \in Call : CallHolds(c) => Held("news", Known(c))
  /\ \A s \in Service : HandlerHolds(s) => Held(s, handler.seen)

LEMMA InitCounters == QuotasInit => CountersInv
<1> SUFFICES ASSUME QuotasInit PROVE CountersInv
  OBVIOUS
<1>1. PICK limits \in Limits : account = [limits |-> limits, consumed |-> Zero]
  BY DEF QuotasInit
<1>2. account.consumed = Zero /\ ledger = Zero /\ gross = Zero /\ \A s \in Service : Zero[s] = 0
  BY <1>1 DEF QuotasInit, Zero
<1>3. \A c \in Call : ~ CallHolds(c)
  BY DEF QuotasInit, CallHolds
<1>4. \A s \in Service : ~ HandlerHolds(s)
  BY DEF QuotasInit, HandlerHolds, Idle
<1> QED BY <1>2, <1>3, <1>4 DEF CountersInv

\* Nothing is written; a call or the handler may have read.
LEMMA Reads ==
  ASSUME CountersInv, QuotasTypes, UNCHANGED <<account, ledger, gross, overlapped>>,
         \A c \in Call : CallHolds(c)' =>
           \/ calls'[c] = calls[c]
           \/ /\ account # NoClient /\ calls'[c].at # "charged"
              /\ calls'[c].seen = account.consumed["news"],
         \A s \in Service : HandlerHolds(s)' =>
           \/ handler' = handler
           \/ account # NoClient /\ handler'.seen = account.consumed[s]
  PROVE  CountersInv'
<1>1. ASSUME NEW c \in Call, CallHolds(c)'
      PROVE  Held("news", Known(c))'
  <2>1. CASE calls'[c] = calls[c]
    <3>1. Held("news", Known(c))
      BY <1>1, <2>1 DEF CountersInv, CallHolds
    <3> QED BY <2>1, <3>1 DEF Held, Known
  <2>2. CASE /\ account # NoClient /\ calls'[c].at # "charged"
             /\ calls'[c].seen = account.consumed["news"]
    BY <2>2 DEF Held, Known, CountersInv, Service
  <2> QED BY <1>1, <2>1, <2>2
<1>2. ASSUME NEW s \in Service, HandlerHolds(s)'
      PROVE  Held(s, handler.seen)'
  <2>1. CASE handler' = handler
    <3>1. Held(s, handler.seen)
      BY <1>2, <2>1 DEF CountersInv, HandlerHolds
    <3> QED BY <2>1, <3>1 DEF Held
  <2>2. CASE account # NoClient /\ handler'.seen = account.consumed[s]
    BY <2>2 DEF Held, CountersInv
  <2> QED BY <1>2, <2>1, <2>2
<1> QED BY <1>1, <1>2 DEF CountersInv

Consumed == IF account = NoClient THEN Zero ELSE account.consumed

\* One counter is written, with a value that is right unless it was overlapped ...
Written(who, s, value, delta) ==
  /\ account' # NoClient /\ account'.consumed = [Consumed EXCEPT ![s] = value]
  /\ ledger' = [ledger EXCEPT ![s] = @ + delta]
  /\ gross' = [gross EXCEPT ![s] = @ + (IF delta > 0 THEN delta ELSE 0)]
  /\ overlapped' = IF Holders(s, who) = {} THEN overlapped ELSE overlapped \cup {s}
  /\ s \notin overlapped => value = Consumed[s] + delta
  /\ value <= gross'[s]

\* ... by one who holds it no longer, or knows what it wrote.
Others(who, s, value) ==
  /\ \A c \in Call : CallHolds(c)' =>
       \/ c # who /\ calls'[c] = calls[c]
       \/ c = who /\ s = "news" /\ Known(c)' = value
  /\ \A t \in Service : HandlerHolds(t)' => who # "handler" /\ handler' = handler

LEMMA Writes ==
  ASSUME QuotasTypes, CountersInv, NEW who, NEW s \in Service, NEW value \in Int, NEW delta \in Int,
         Written(who, s, value, delta), Others(who, s, value)
  PROVE  CountersInv'
<1> USE DEF Written, Others
<1>1. /\ Consumed \in [Service -> Int] /\ ledger \in [Service -> Int] /\ gross \in [Service -> Nat]
      /\ overlapped \subseteq Service
  <2>1. Zero \in [Service -> Int]
    BY DEF Zero
  <2> QED BY <2>1, SeenIsInt DEF QuotasTypes, Consumed, ClientQuota
<1>2. \A t \in Service :
        /\ t \notin overlapped => Consumed[t] = ledger[t]
        /\ Consumed[t] <= gross[t]
  <2>1. CASE account = NoClient
    <3>1. \A t \in Service : Zero[t] = 0
      BY DEF Zero
    <3> QED BY <1>1, <2>1, <3>1 DEF CountersInv, Consumed
  <2>2. CASE account # NoClient
    BY <2>2 DEF CountersInv, Consumed
  <2> QED BY <2>1, <2>2
<1>3. \A t \in Service :
        /\ t # s => /\ account'.consumed[t] = Consumed[t] /\ ledger'[t] = ledger[t]
                    /\ gross'[t] = gross[t] /\ (t \in overlapped' <=> t \in overlapped)
        /\ gross[t] <= gross'[t] /\ gross[t] \in Nat /\ gross'[t] \in Nat
        /\ t \notin overlapped' => t \notin overlapped
  BY <1>1
<1>4. account'.consumed[s] = value /\ ledger'[s] = ledger[s] + delta
  BY <1>1
<1>5. \A t \in Service :
        /\ t \notin overlapped' => account'.consumed[t] = ledger'[t]
        /\ account'.consumed[t] <= gross'[t]
  <2> SUFFICES ASSUME NEW t \in Service
               PROVE  /\ t \notin overlapped' => account'.consumed[t] = ledger'[t]
                      /\ account'.consumed[t] <= gross'[t]
    OBVIOUS
  <2>1. CASE t = s
    BY <1>2, <1>3, <1>4, <2>1
  <2>2. CASE t # s
    BY <1>2, <1>3, <2>2
  <2> QED BY <2>1, <2>2
\* Whoever else knew the counter is among the holders.
<1>6. ASSUME NEW t \in Service, NEW known \in Int, Held(t, known),
             t = s => Holders(s, who) # {}
      PROVE  Held(t, known)'
  <2>1. known <= gross'[t]
    BY <1>3, <1>6 DEF Held
  <2>2. ASSUME t \notin overlapped'
        PROVE  account'.consumed[t] = known
    <3>1. t # s
      BY <1>6, <2>2
    <3>2. t \notin overlapped /\ account'.consumed[t] = Consumed[t]
      BY <1>3, <2>2, <3>1
    <3> QED BY <1>6, <3>2 DEF Held, Consumed
  <2> QED BY <2>1, <2>2 DEF Held
<1>7. ASSUME NEW c \in Call, CallHolds(c)'
      PROVE  Held("news", Known(c))'
  <2>1. CASE c # who /\ calls'[c] = calls[c]
    <3>1. CallHolds(c) /\ Known(c)' = Known(c)
      BY <1>7, <2>1 DEF CallHolds, Known
    <3>2. Held("news", Known(c))
      BY <3>1 DEF CountersInv
    <3>3. "news" = s => c \in Holders(s, who)
      BY <2>1, <3>1 DEF Holders, CallHolds
    <3>4. PICK known \in Int : known = Known(c)
      BY SeenIsInt DEF Known
    <3>5. Held("news", known)'
      BY <1>6, <3>2, <3>3, <3>4 DEF Service
    <3> QED BY <3>1, <3>4, <3>5
  <2>2. CASE c = who /\ s = "news" /\ Known(c)' = value
    BY <1>4, <2>2 DEF Held
  <2> QED BY <1>7, <2>1, <2>2
<1>8. ASSUME NEW t \in Service, HandlerHolds(t)'
      PROVE  Held(t, handler.seen)'
  <2>1. who # "handler" /\ handler' = handler /\ HandlerHolds(t)
    BY <1>8 DEF HandlerHolds
  <2>2. Held(t, handler.seen)
    BY <2>1 DEF CountersInv
  <2>3. t = s => "handler" \in Holders(s, who)
    BY <2>1 DEF Holders, HandlerHolds
  <2>4. PICK known \in Int : known = handler.seen
    BY <2>1, SeenIsInt DEF HandlerHolds
  <2>5. Held(t, known)'
    BY <1>6, <2>2, <2>3, <2>4
  <2> QED BY <2>1, <2>4, <2>5
<1> QED BY <1>5, <1>7, <1>8 DEF CountersInv

\* A PATCH of a counter by who.
LEMMA Charges ==
  ASSUME QuotasTypes, CountersInv, NEW who, NEW s \in Service, NEW value \in Int, NEW delta \in Int,
         Charge(who, s, value, delta),
         s \notin overlapped => account.consumed[s] + delta = value,
         value <= gross[s] + (IF delta > 0 THEN delta ELSE 0),
         Others(who, s, value)
  PROVE  CountersInv'
<1>1. account \in ClientQuota /\ account # NoClient /\ Account(who, s, Patched(s, value), delta)
  BY SeenIsInt DEF Charge
<1>2. account' \in ClientQuota /\ account'.consumed = [Consumed EXCEPT ![s] = value]
  BY <1>1, PatchedType DEF Account, Consumed
<1>3. account' # NoClient
  BY <1>2, QuotasAssumption
<1>4. s \notin overlapped => value = Consumed[s] + delta
  BY <1>1 DEF Consumed
<1>5. /\ ledger' = [ledger EXCEPT ![s] = @ + delta]
      /\ gross' = [gross EXCEPT ![s] = @ + (IF delta > 0 THEN delta ELSE 0)]
      /\ overlapped' = IF Holders(s, who) = {} THEN overlapped ELSE overlapped \cup {s}
  BY <1>1 DEF Account
<1>6. value <= gross'[s]
  BY <1>5 DEF QuotasTypes
<1>7. Written(who, s, value, delta)
  BY <1>2, <1>3, <1>4, <1>5, <1>6 DEF Written
<1> QED BY <1>7, Writes

\* A call that does not write.
LEMMA CallReads ==
  ASSUME QuotasTypes, CountersInv, NEW c \in Call,
         UNCHANGED <<account, ledger, gross, overlapped, handler>>,
         \A d \in Call \ {c} : calls'[d] = calls[d],
         CallHolds(c)' => /\ account # NoClient /\ calls'[c].at # "charged"
                          /\ calls'[c].seen = account.consumed["news"]
  PROVE  CountersInv'
<1>1. \A d \in Call : CallHolds(d)' =>
        \/ calls'[d] = calls[d]
        \/ /\ account # NoClient /\ calls'[d].at # "charged"
           /\ calls'[d].seen = account.consumed["news"]
  OBVIOUS
<1>2. \A s \in Service : HandlerHolds(s)' =>
        handler' = handler \/ (account # NoClient /\ handler'.seen = account.consumed[s])
  OBVIOUS
<1> QED BY <1>1, <1>2, Reads

LEMMA Moved ==
  ASSUME QuotasTypes, NEW c \in Call, NEW at, Goto(c, at) \/ End(c, at)
  PROVE  /\ calls'[c].at = at /\ (Goto(c, at) => calls'[c].seen = calls[c].seen)
         /\ \A d \in Call \ {c} : calls'[d] = calls[d]
BY DEF QuotasTypes, Goto, End, CallRecord

LEMMA EnterCounters ==
  ASSUME QuotasTypes, CountersInv, NEW c \in Call, Enter(c)
  PROVE  CountersInv'
<1>1. PICK asked \in KindsOf[c], admitted \in BOOLEAN :
        /\ admitted => account # NoClient
        /\ calls' = [calls EXCEPT ![c] =
             [kind |-> asked,
              at |-> IF admitted THEN ReadThen(asked[1]) ELSE "refused",
              seen |-> IF admitted /\ asked[1] # "text" THEN account.consumed["news"] ELSE 0]]
  BY DEF Enter
<1>2. calls'[c] = [kind |-> asked,
                   at |-> IF admitted THEN ReadThen(asked[1]) ELSE "refused",
                   seen |-> IF admitted /\ asked[1] # "text" THEN account.consumed["news"] ELSE 0]
  BY <1>1 DEF QuotasTypes
<1>3. ReadThen(asked[1]) # "charged" /\ (asked[1] = "text" => ReadThen(asked[1]) = "admitted")
  <2>1. asked \in {"text", "assertions", "extract"} \X {"LIGHT", "BLOCKCHAIN"}
    BY QuotasAssumption
  <2> QED BY <2>1 DEF ReadThen
<1>4. CallHolds(c)' => /\ account # NoClient /\ calls'[c].at # "charged"
                       /\ calls'[c].seen = account.consumed["news"]
  BY <1>1, <1>2, <1>3 DEF CallHolds
<1>5. \A d \in Call \ {c} : calls'[d] = calls[d]
  BY <1>1 DEF QuotasTypes
<1>6. UNCHANGED <<account, ledger, gross, overlapped, handler>>
  BY DEF Enter, histories
<1> QED BY <1>4, <1>5, <1>6, CallReads

LEMMA EndpointCounters ==
  ASSUME QuotasTypes, CountersInv, NEW c \in Call,
         Generate(c) \/ ChargeGiven(c) \/ RefundGiven(c) \/ SendGiven(c) \/ Extract(c)
  PROVE  CountersInv'
<1>1. PICK at \in {"charged", "given", "done", "failed"} : Goto(c, at) \/ End(c, at)
  BY DEF Generate, ChargeGiven, RefundGiven, SendGiven, Extract
<1>2. /\ \A d \in Call \ {c} : calls'[d] = calls[d]
      /\ calls'[c].at = at /\ (Goto(c, at) => calls'[c].seen = calls[c].seen)
  BY <1>1, Moved
<1>3. /\ calls[c].seen \in Int /\ "news" \in Service /\ c # "handler"
      /\ CallHolds(c) => Held("news", Known(c))
      /\ UNCHANGED handler
  BY SeenIsInt, QuotasAssumption
     DEF Service, CountersInv, Generate, ChargeGiven, RefundGiven, SendGiven, Extract
<1>4. \/ UNCHANGED <<account, ledger, gross, overlapped>> /\ at # "charged"
      \/ /\ Charge(c, "news", calls[c].seen + 1, 1) /\ calls[c].at \in {"read", "generating"}
         /\ (at = "charged" /\ Goto(c, at)) \/ at = "done"
      \/ Charge(c, "news", calls[c].seen - 1, -2) /\ calls[c].at = "charged" /\ at = "given"
  <2>1. CASE Generate(c) \/ SendGiven(c)
    <3>1. calls'[c].at = "done"
      BY <2>1, Moved DEF Generate, SendGiven
    <3> QED BY <1>2, <2>1, <3>1 DEF Generate, SendGiven, histories
  <2>2. CASE ChargeGiven(c)
    <3>1. CASE Charge(c, "news", calls[c].seen + 1, 1) /\ Goto(c, "charged")
      <4>1. calls'[c].at = "charged"
        BY <3>1, Moved
      <4> QED BY <1>2, <2>2, <3>1, <4>1 DEF ChargeGiven
    <3>2. CASE Unaccounted /\ End(c, "failed")
      <4>1. calls'[c].at = "failed"
        BY <3>2, Moved
      <4> QED BY <1>2, <3>2, <4>1 DEF Unaccounted
    <3> QED BY <2>2, <3>1, <3>2 DEF ChargeGiven, ChargeFails
  <2>3. CASE RefundGiven(c)
    <3>1. CASE Charge(c, "news", calls[c].seen - 1, -2) /\ Goto(c, "given")
      <4>1. calls'[c].at = "given"
        BY <3>1, Moved
      <4> QED BY <1>2, <2>3, <3>1, <4>1 DEF RefundGiven
    <3>2. CASE Unaccounted /\ End(c, "failed")
      <4>1. calls'[c].at = "failed"
        BY <3>2, Moved
      <4> QED BY <1>2, <3>2, <4>1 DEF Unaccounted
    <3> QED BY <2>3, <3>1, <3>2 DEF RefundGiven, ChargeFails
  <2>4. CASE Extract(c)
    <3>1. calls'[c].at = "done"
      BY <2>4, Moved DEF Extract
    <3> QED BY <1>2, <2>4, <3>1 DEF Extract, ChargeFails, Unaccounted
  <2> QED BY <2>1, <2>2, <2>3, <2>4
<1>5. CASE UNCHANGED <<account, ledger, gross, overlapped>> /\ at # "charged"
  <2>1. ~ CallHolds(c)'
    BY <1>2, <1>5 DEF CallHolds
  <2> QED BY <1>2, <1>3, <1>5, <2>1, CallReads
<1>6. ASSUME NEW value, ~ CallHolds(c)' \/ Known(c)' = value
      PROVE  Others(c, "news", value)
  BY <1>2, <1>3, <1>6 DEF Others
<1>7. CASE /\ Charge(c, "news", calls[c].seen + 1, 1) /\ calls[c].at \in {"read", "generating"}
           /\ (at = "charged" /\ Goto(c, at)) \/ at = "done"
  <2>1. PICK value \in Int : value = calls[c].seen + 1
    BY <1>3
  <2>2. Held("news", calls[c].seen)
    BY <1>3, <1>7 DEF CallHolds, Known
  <2>3. ~ CallHolds(c)' \/ Known(c)' = value
    BY <1>2, <1>7, <2>1 DEF CallHolds, Known
  <2>4. /\ "news" \notin overlapped => account.consumed["news"] + 1 = value
        /\ value <= gross["news"] + (IF 1 > 0 THEN 1 ELSE 0)
    <3>1. PICK seen \in Int : seen = calls[c].seen
      BY <1>3
    <3>2. PICK sum \in Nat : sum = gross["news"]
      BY <1>3 DEF QuotasTypes
    <3>3. "news" \notin overlapped => account.consumed["news"] = seen
      BY <2>2, <3>1 DEF Held
    <3>4. seen <= sum
      BY <2>2, <3>1, <3>2 DEF Held
    <3>5. value = seen + 1
      BY <2>1, <3>1
    <3>6. value <= sum + 1
      BY <3>4, <3>5
    <3> QED BY <3>2, <3>3, <3>5, <3>6
  <2>5. Others(c, "news", value) /\ Charge(c, "news", value, 1)
    BY <1>6, <1>7, <2>1, <2>3
  <2> QED BY <1>3, <2>4, <2>5, Charges
<1>8. CASE Charge(c, "news", calls[c].seen - 1, -2) /\ calls[c].at = "charged" /\ at = "given"
  <2>1. PICK value \in Int : value = calls[c].seen - 1
    BY <1>3
  <2>2. Held("news", calls[c].seen + 1)
    BY <1>3, <1>8 DEF CallHolds, Known
  <2>3. ~ CallHolds(c)'
    BY <1>2, <1>8 DEF CallHolds
  <2>4. /\ "news" \notin overlapped => account.consumed["news"] + (-2) = value
        /\ value <= gross["news"] + (IF -2 > 0 THEN -2 ELSE 0)
    <3>1. PICK seen \in Int : seen = calls[c].seen /\ value = seen - 1
      BY <1>3, <2>1
    <3>2. seen + 1 <= gross["news"] /\ gross["news"] \in Nat
      BY <1>3, <2>2, <3>1 DEF Held, QuotasTypes
    <3>3. "news" \notin overlapped => account.consumed["news"] = seen + 1
      BY <2>2, <3>1 DEF Held
    <3>4. (seen + 1) + (-2) = seen - 1 /\ ~ -2 > 0
      OBVIOUS
    <3>5. value <= gross["news"] + 0
      BY <3>1, <3>2
    <3> QED BY <3>1, <3>3, <3>4, <3>5
  <2>5. Others(c, "news", value) /\ Charge(c, "news", value, -2)
    BY <1>6, <1>8, <2>1, <2>3
  <2> QED BY <1>3, <2>4, <2>5, Charges
<1> QED BY <1>4, <1>5, <1>7, <1>8

LEMMA ConsumerCounters ==
  ASSUME QuotasTypes, CountersInv,
         \/ TakeGenerated \/ ChargeGeneration \/ WriteDocument \/ SendUpload \/ TakeRegistered
         \/ TakeValidated \/ ChargeValidation \/ RecordValidation
  PROVE  CountersInv'
<1>1. UNCHANGED calls
  BY DEF TakeGenerated, ChargeGeneration, WriteDocument, SendUpload, TakeRegistered, TakeValidated,
         ChargeValidation, RecordValidation, Take
<1>2. CASE \/ TakeGenerated \/ TakeRegistered \/ TakeValidated
           \/ WriteDocument \/ SendUpload \/ RecordValidation
  <2>1. UNCHANGED <<account, ledger, gross, overlapped>>
    BY <1>2 DEF TakeGenerated, TakeRegistered, TakeValidated, WriteDocument, SendUpload,
                RecordValidation, Take, histories
  <2>2. ASSUME NEW s \in Service, HandlerHolds(s)'
        PROVE  handler' = handler \/ (account # NoClient /\ handler'.seen = account.consumed[s])
    <3>1. CASE TakeGenerated
      <4>1. \/ UNCHANGED handler
            \/ /\ account # NoClient /\ handler'.at = "charge_news"
               /\ handler'.seen = account.consumed["news"]
        BY <3>1 DEF TakeGenerated
      <4> QED BY <2>2, <4>1 DEF HandlerHolds
    <3>2. CASE TakeRegistered
      BY <3>2 DEF TakeRegistered
    <3>3. CASE TakeValidated
      <4>1. \/ handler'.at \in {"idle", "record_free"}
            \/ /\ account # NoClient /\ handler'.at = "charge_val"
               /\ handler'.seen = account.consumed["val"]
        BY <3>3 DEF TakeValidated, Idle
      <4> QED BY <2>2, <4>1 DEF HandlerHolds
    <3>4. CASE WriteDocument \/ SendUpload \/ RecordValidation
      BY <2>2, <3>4 DEF WriteDocument, SendUpload, RecordValidation, HandlerHolds, Idle
    <3> QED BY <1>2, <3>1, <3>2, <3>3, <3>4
  <2>3. \A c \in Call : CallHolds(c)' =>
          \/ calls'[c] = calls[c]
          \/ /\ account # NoClient /\ calls'[c].at # "charged"
             /\ calls'[c].seen = account.consumed["news"]
    BY <1>1
  <2> QED BY <2>1, <2>2, <2>3, Reads
<1>3. ASSUME NEW s \in Service, HandlerHolds(s), handler'.at \in {"idle", "document", "record", "record_free"},
             Charge("handler", s, handler.seen + 1, 1) \/ ChargeFails
      PROVE  CountersInv'
  <2>1. PICK value \in Int : value = handler.seen + 1
    BY <1>3, SeenIsInt DEF HandlerHolds
  <2>2. \A t \in Service : ~ HandlerHolds(t)'
    BY <1>3 DEF HandlerHolds
  <2>3. Held(s, handler.seen) /\ handler.seen \in Int /\ gross[s] \in Nat
    BY <1>3, SeenIsInt DEF HandlerHolds, CountersInv, QuotasTypes
  <2>4. CASE Charge("handler", s, handler.seen + 1, 1)
    <3>1. /\ s \notin overlapped => account.consumed[s] + 1 = value
          /\ value <= gross[s] + (IF 1 > 0 THEN 1 ELSE 0)
      BY <2>1, <2>3 DEF Held
    <3>2. \A c \in Call : c # "handler"
      BY QuotasAssumption
    <3>3. Others("handler", s, value)
      BY <1>1, <2>2, <3>2 DEF Others
    <3>4. Charge("handler", s, value, 1)
      BY <2>1, <2>4
    <3> QED BY <3>1, <3>3, <3>4, Charges
  <2>5. CASE ChargeFails
    <3>1. UNCHANGED <<account, ledger, gross, overlapped>>
      BY <2>5 DEF ChargeFails, Unaccounted
    <3>2. \A c \in Call : CallHolds(c)' =>
            \/ calls'[c] = calls[c]
            \/ /\ account # NoClient /\ calls'[c].at # "charged"
               /\ calls'[c].seen = account.consumed["news"]
      BY <1>1
    <3>3. \A t \in Service : HandlerHolds(t)' =>
            handler' = handler \/ (account # NoClient /\ handler'.seen = account.consumed[t])
      BY <2>2
    <3> QED BY <3>1, <3>2, <3>3, Reads
  <2> QED BY <1>3, <2>4, <2>5
<1>4. CASE ChargeGeneration
  <2>1. HandlerHolds("news") /\ "news" \in Service
    BY <1>4 DEF ChargeGeneration, HandlerHolds, Service
  <2>3. handler'.at \in {"idle", "document"}
    BY <1>4 DEF ChargeGeneration, Idle
  <2>2. Charge("handler", "news", handler.seen + 1, 1) \/ ChargeFails
    BY <1>4 DEF ChargeGeneration
  <2> QED BY <1>3, <2>1, <2>2, <2>3
<1>5. CASE ChargeValidation
  <2>1. HandlerHolds("val") /\ handler'.at \in {"record", "record_free"} /\ "val" \in Service
    BY <1>5 DEF ChargeValidation, HandlerHolds, Service
  <2>2. Charge("handler", "val", handler.seen + 1, 1) \/ ChargeFails
    BY <1>5 DEF ChargeValidation
  <2> QED BY <1>3, <2>1, <2>2
<1> QED BY <1>2, <1>4, <1>5

\* Everybody who reads and writes stops or stays as he is.
LEMMA Stays ==
  ASSUME QuotasTypes, CountersInv, UNCHANGED <<account, ledger, gross, overlapped>>,
         \A c \in Call : CallHolds(c)' => calls'[c] = calls[c],
         \A s \in Service : HandlerHolds(s)' => handler' = handler
  PROVE  CountersInv'
BY Reads

LEMMA WorldCounters ==
  ASSUME QuotasTypes, CountersInv,
         \/ \E c \in Call : Post(c) \/ Validate(c)
         \/ HandlerCrash \/ GeneratorCrash \/ AdminCrash
         \/ CreateClient \/ UpdateClient \/ DeleteClient
  PROVE  CountersInv'
<1>1. CASE (\E c \in Call : Post(c) \/ Validate(c)) \/ AdminCrash
  <2>1. UNCHANGED <<account, ledger, gross, overlapped, calls, handler>>
    BY <1>1 DEF Post, Validate, AdminCrash, histories
  <2> QED BY <2>1, Stays
<1>2. CASE HandlerCrash
  <2>1. UNCHANGED <<account, ledger, gross, overlapped>> /\ handler' = Idle
    BY <1>2 DEF HandlerCrash
  <2>2. ASSUME NEW c \in Call, CallHolds(c)'
        PROVE  calls'[c] = calls[c]
    <3>1. CASE calls[c].at \in {"read", "charged", "given"}
      <4>1. calls'[c] = [calls[c] EXCEPT !.at = "failed", !.seen = 0]
        BY <1>2, <3>1 DEF HandlerCrash
      <4>2. calls'[c].at = "failed"
        BY <4>1 DEF QuotasTypes, CallRecord
      <4> QED BY <2>2, <4>2 DEF CallHolds
    <3>2. CASE calls[c].at \notin {"read", "charged", "given"}
      BY <1>2, <3>2 DEF HandlerCrash
    <3> QED BY <3>1, <3>2
  <2>3. \A s \in Service : ~ HandlerHolds(s)'
    BY <2>1 DEF HandlerHolds, Idle
  <2> QED BY <2>1, <2>2, <2>3, Stays
<1>6. CASE GeneratorCrash
  <2>1. UNCHANGED <<account, ledger, gross, overlapped, handler>>
    BY <1>6 DEF GeneratorCrash, histories
  <2>2. PICK again \in SUBSET {c \in Call : calls[c].kind[1] = "text" /\ calls[c].at = "done"} :
          calls' = [c \in Call |->
            IF c \in again THEN [calls[c] EXCEPT !.at = "admitted"]
            ELSE IF calls[c].at = "generating" THEN [calls[c] EXCEPT !.at = "failed", !.seen = 0]
            ELSE calls[c]]
    BY <1>6 DEF GeneratorCrash
  <2>3. ASSUME NEW c \in Call, CallHolds(c)'
        PROVE  calls'[c] = calls[c]
    <3>1. CASE c \in again \/ calls[c].at = "generating"
      <4>1. calls'[c].at \in {"admitted", "failed"}
        BY <2>2, <3>1 DEF QuotasTypes, CallRecord
      <4> QED BY <2>3, <4>1 DEF CallHolds
    <3>2. CASE c \notin again /\ calls[c].at # "generating"
      BY <2>2, <3>2
    <3> QED BY <3>1, <3>2
  <2> QED BY <2>1, <2>3, Stays
<1>3. CASE CreateClient
  <2>1. PICK limits \in Limits : account' = [limits |-> limits, consumed |-> Zero]
    BY <1>3 DEF CreateClient
  <2>2. /\ account = NoClient /\ ledger = Zero
        /\ UNCHANGED <<calls, handler, ledger, gross, overlapped>>
    BY <1>3 DEF CreateClient, Operate, CountersInv
  <2>3. account'.consumed = Zero /\ \A s \in Service : Zero[s] = 0 /\ 0 <= gross'[s]
    BY <2>1, <2>2 DEF Zero, QuotasTypes
  <2>4. account' # NoClient
    <3>1. Zero \in [Service -> Int]
      BY DEF Zero
    <3> QED BY <2>1, <3>1, QuotasAssumption DEF ClientQuota
  <2>5. ASSUME NEW s, NEW known, Held(s, known)
        PROVE  Held(s, known)'
    BY <2>2, <2>5 DEF Held
  <2>6. \A c \in Call : CallHolds(c)' => Held("news", Known(c))'
    <3> SUFFICES ASSUME NEW c \in Call, CallHolds(c)'
                 PROVE  Held("news", Known(c))'
      OBVIOUS
    <3>1. Held("news", Known(c)) /\ Known(c)' = Known(c)
      BY <2>2 DEF CallHolds, CountersInv, Known
    <3> QED BY <2>2, <3>1 DEF Held
  <2>7. \A s \in Service : HandlerHolds(s)' => Held(s, handler.seen)'
    BY <2>2 DEF HandlerHolds, CountersInv, Held
  <2> QED BY <2>2, <2>3, <2>4, <2>6, <2>7 DEF CountersInv
<1>4. CASE UpdateClient
  <2>1. PICK limits \in Limits : account' = [account EXCEPT !.limits = limits]
    BY <1>4 DEF UpdateClient
  <2>2. /\ account # NoClient /\ account \in ClientQuota
        /\ UNCHANGED <<calls, handler, ledger, gross, overlapped>>
    BY <1>4, SeenIsInt DEF UpdateClient, Operate
  <2>3. account'.consumed = account.consumed /\ account' \in ClientQuota
    BY <2>1, <2>2, QuotasAssumption DEF ClientQuota
  <2>4. account' # NoClient
    BY <2>3, QuotasAssumption
  <2>5. \A c \in Call : CallHolds(c)' => Held("news", Known(c))'
    BY <2>2, <2>3, <2>4 DEF CallHolds, CountersInv, Known, Held
  <2>6. \A s \in Service : HandlerHolds(s)' => Held(s, handler.seen)'
    BY <2>2, <2>3, <2>4 DEF HandlerHolds, CountersInv, Held
  <2> QED BY <2>2, <2>3, <2>4, <2>5, <2>6 DEF CountersInv
<1>5. CASE DeleteClient
  <2>1. /\ account' = NoClient /\ ledger' = Zero
        /\ overlapped' = overlapped \cup {s \in Service : Holders(s, "console") # {}}
        /\ UNCHANGED <<calls, handler, gross>>
    BY <1>5 DEF DeleteClient, Operate
  <2>2. \A c \in Call : CallHolds(c)' => Held("news", Known(c))'
    <3> SUFFICES ASSUME NEW c \in Call, CallHolds(c)'
                 PROVE  Held("news", Known(c))'
      OBVIOUS
    <3>1. CallHolds(c) /\ Known(c)' = Known(c) /\ Held("news", Known(c))
      BY <2>1 DEF CallHolds, CountersInv, Known
    <3>2. c \in Holders("news", "console")
      BY <3>1, QuotasAssumption DEF Holders, CallHolds
    <3>3. "news" \in overlapped'
      BY <2>1, <3>2 DEF Service
    <3> QED BY <2>1, <3>1, <3>3 DEF Held
  <2>3. \A s \in Service : HandlerHolds(s)' => Held(s, handler.seen)'
    <3> SUFFICES ASSUME NEW s \in Service, HandlerHolds(s)'
                 PROVE  Held(s, handler.seen)'
      OBVIOUS
    <3>1. HandlerHolds(s) /\ Held(s, handler.seen)
      BY <2>1 DEF HandlerHolds, CountersInv
    <3>2. "handler" \in Holders(s, "console")
      BY <3>1 DEF Holders, HandlerHolds
    <3>3. s \in overlapped'
      BY <2>1, <3>2
    <3> QED BY <2>1, <3>1, <3>3 DEF Held
  <2> QED BY <2>1, <2>2, <2>3 DEF CountersInv
<1> QED BY <1>1, <1>2, <1>3, <1>4, <1>5, <1>6

LEMMA BillCounters ==
  ASSUME QuotasTypes, CountersInv, Bill
  PROVE  CountersInv'
<1>1. UNCHANGED <<calls, handler>>
  BY DEF Bill
<1>2. CASE UNCHANGED <<account, histories>>
  <2>1. UNCHANGED <<account, ledger, gross, overlapped>>
    BY <1>2 DEF histories
  <2> QED BY <1>1, <2>1, Stays
<1>3. CASE ~ UNCHANGED <<account, histories>>
  <2>1. PICK s \in Service : Account("admin", s, Incremented(s), 1)
    <3>1. BilledService(Next_("admin").action) \in Service
      BY DEF BilledService, Service
    <3> QED BY <1>3, <3>1 DEF Bill
  <2>2. PICK value \in Int : value = Consumed[s] + 1
    <3>1. Consumed[s] \in Int
      <4>1. Zero \in [Service -> Int]
        BY DEF Zero
      <4> QED BY <4>1, SeenIsInt DEF Consumed
    <3> QED BY <3>1
  <2>3. Incremented(s) \in ClientQuota /\ Incremented(s).consumed = [Consumed EXCEPT ![s] = value]
    <3>1. CASE account = NoClient
      <4>1. Zero \in [Service -> Int] /\ [Zero EXCEPT ![s] = 1] \in [Service -> Int] /\ value = 1
        BY <2>2, <3>1 DEF Zero, Consumed
      <4>2. Incremented(s) = [limits |-> Zero, consumed |-> [Zero EXCEPT ![s] = 1]]
        BY <3>1 DEF Incremented
      <4> QED BY <3>1, <4>1, <4>2 DEF Consumed, ClientQuota
    <3>2. CASE account # NoClient
      <4>1. account \in ClientQuota /\ value = account.consumed[s] + 1
        BY <2>2, <3>2, SeenIsInt DEF Consumed
      <4>2. Incremented(s) = Patched(s, value)
        BY <3>2, <4>1 DEF Incremented
      <4> QED BY <3>2, <4>1, <4>2, PatchedType DEF Consumed
    <3> QED BY <3>1, <3>2
  <2>4. account' # NoClient /\ account'.consumed = [Consumed EXCEPT ![s] = value]
    BY <2>1, <2>3, QuotasAssumption DEF Account
  <2>5. /\ ledger' = [ledger EXCEPT ![s] = @ + 1]
        /\ gross' = [gross EXCEPT ![s] = @ + (IF 1 > 0 THEN 1 ELSE 0)]
        /\ overlapped' = IF Holders(s, "admin") = {} THEN overlapped ELSE overlapped \cup {s}
    BY <2>1 DEF Account
  <2>6. value <= gross'[s]
    <3>1. Consumed[s] <= gross[s]
      <4>1. CASE account = NoClient
        BY <4>1 DEF Consumed, Zero, QuotasTypes
      <4>2. CASE account # NoClient
        BY <4>2 DEF Consumed, CountersInv
      <4> QED BY <4>1, <4>2
    <3>2. gross'[s] = gross[s] + 1 /\ gross[s] \in Nat
      BY <2>5 DEF QuotasTypes
    <3>3. Consumed[s] \in Int
      <4>1. Zero \in [Service -> Int]
        BY DEF Zero
      <4> QED BY <4>1, SeenIsInt DEF Consumed
    <3> QED BY <2>2, <3>1, <3>2, <3>3
  <2>7. Written("admin", s, value, 1)
    BY <2>2, <2>4, <2>5, <2>6 DEF Written
  <2>8. Others("admin", s, value)
    <3>1. \A c \in Call : c # "admin"
      BY QuotasAssumption
    <3> QED BY <1>1, <3>1 DEF Others
  <2> QED BY <2>7, <2>8, Writes
<1> QED BY <1>2, <1>3

LEMMA NextCounters == QuotasTypes /\ CountersInv /\ [QuotasNext]_quotaVars => CountersInv'
<1> SUFFICES ASSUME QuotasTypes, CountersInv, [QuotasNext]_quotaVars
             PROVE  CountersInv'
  OBVIOUS
<1>1. CASE UNCHANGED quotaVars
  <2>1. UNCHANGED <<account, ledger, gross, overlapped, calls, handler>>
    BY <1>1 DEF quotaVars, histories
  <2> QED BY <2>1, Stays
<1> QED BY <1>1, EnterCounters, EndpointCounters, ConsumerCounters, WorldCounters, BillCounters
        DEF QuotasNext

-----------------------------------------------------------------------------
(* What has a document behind it                                           *)

Started(c) == tally[c].documents > 0

\* Of what the chain services do for an order, and of the validations the
\* handler looks at, none comes before the document.
StartedInv ==
  /\ \A c \in Call : orders[c].uploads > 0 \/ orders[c].posts > 0 => Started(c)
  /\ \A i \in 1 .. Len(log) : log[i].action # "assertions_generated" => Started(log[i].call)
  /\ handler.at \in {"upload", "charge_val", "record", "record_free"} => Started(handler.call)

LEMMA InitStarted == QuotasInit => StartedInv
BY DEF QuotasInit, StartedInv, Idle

\* Only WriteDocument counts a document.
LEMMA DocumentsStay ==
  ASSUME QuotasTypes,
         \/ \E c \in Call : \/ Enter(c) \/ Generate(c) \/ ChargeGiven(c) \/ RefundGiven(c)
                            \/ SendGiven(c) \/ Extract(c) \/ Post(c) \/ Validate(c)
         \/ TakeGenerated \/ ChargeGeneration \/ SendUpload \/ TakeRegistered
         \/ TakeValidated \/ ChargeValidation \/ RecordValidation
         \/ HandlerCrash \/ GeneratorCrash \/ Bill \/ AdminCrash
         \/ CreateClient \/ UpdateClient \/ DeleteClient \/ UNCHANGED quotaVars
  PROVE  \A c \in Call : tally'[c].documents = tally[c].documents
<1>1. \/ UNCHANGED tally
      \/ \E d : \/ tally' = [tally EXCEPT ![d].handler = @ + 1]
                \/ tally' = [tally EXCEPT ![d].cut = @ + 1]
                \/ tally' = [tally EXCEPT ![d].admin = @ + 1]
  <2>1. CASE \/ \E c \in Call : \/ Enter(c) \/ Generate(c) \/ ChargeGiven(c) \/ RefundGiven(c)
                                \/ SendGiven(c) \/ Extract(c) \/ Post(c) \/ Validate(c)
             \/ TakeGenerated \/ ChargeGeneration \/ SendUpload \/ TakeRegistered
             \/ TakeValidated \/ RecordValidation
             \/ GeneratorCrash \/ AdminCrash
             \/ CreateClient \/ UpdateClient \/ DeleteClient \/ UNCHANGED quotaVars
    BY <2>1 DEF Enter, Generate, ChargeGiven, RefundGiven, SendGiven, Extract, Post, Validate,
                TakeGenerated, ChargeGeneration, SendUpload, TakeRegistered, TakeValidated,
                RecordValidation, GeneratorCrash, AdminCrash, CreateClient, UpdateClient,
                DeleteClient, Take, Operate, histories, quotaVars
  <2>2. CASE ChargeValidation \/ HandlerCrash \/ Bill
    BY <2>2 DEF ChargeValidation, HandlerCrash, Bill, histories
  <2> QED BY <2>1, <2>2
<1>2. tally \in [Call -> Tally]
  BY DEF QuotasTypes
<1>3. CASE UNCHANGED tally
  BY <1>3
<1>4. ASSUME NEW d, \/ tally' = [tally EXCEPT ![d].handler = @ + 1]
                    \/ tally' = [tally EXCEPT ![d].cut = @ + 1]
                    \/ tally' = [tally EXCEPT ![d].admin = @ + 1]
      PROVE  \A c \in Call : tally'[c].documents = tally[c].documents
  BY <1>2, <1>4 DEF Tally
<1> QED BY <1>1, <1>3, <1>4

\* The log only grows, by one message of a started order or of generate-asertions.
LEMMA StartedLog ==
  ASSUME QuotasTypes, StartedInv,
         \A c \in Call : Started(c) => tally'[c].documents > 0,
         \/ UNCHANGED log
         \/ \E msg \in Message :
              /\ log' = Append(log, msg)
              /\ msg.action # "assertions_generated" => tally'[msg.call].documents > 0
  PROVE  \A i \in 1 .. Len(log') :
           log'[i].action # "assertions_generated" => tally'[log'[i].call].documents > 0
<1>1. log \in Seq(Message) /\ Len(log) \in Nat
  BY DEF QuotasTypes
<1>2. ASSUME NEW i \in 1 .. Len(log), log[i].action # "assertions_generated"
      PROVE  tally'[log[i].call].documents > 0
  <2>1. log[i] \in Message
    BY <1>1
  <2>2. log[i].call \in Call
    BY <2>1 DEF Message
  <2> QED BY <1>2, <2>2 DEF StartedInv
<1>3. CASE UNCHANGED log
  BY <1>2, <1>3
<1>4. ASSUME NEW msg \in Message, log' = Append(log, msg),
             msg.action # "assertions_generated" => tally'[msg.call].documents > 0
      PROVE  \A i \in 1 .. Len(log') :
               log'[i].action # "assertions_generated" => tally'[log'[i].call].documents > 0
  <2>1. Len(log') = Len(log) + 1 /\ log'[Len(log) + 1] = msg
        /\ \A i \in 1 .. Len(log) : log'[i] = log[i]
    BY <1>1, <1>4
  <2> SUFFICES ASSUME NEW i \in 1 .. Len(log'), log'[i].action # "assertions_generated"
               PROVE  tally'[log'[i].call].documents > 0
    OBVIOUS
  <2>2. i \in 1 .. Len(log) \/ i = Len(log) + 1
    BY <1>1, <2>1
  <2>3. CASE i \in 1 .. Len(log)
    BY <1>2, <2>1, <2>3
  <2>4. CASE i = Len(log) + 1
    BY <1>4, <2>1, <2>4
  <2> QED BY <2>2, <2>3, <2>4
<1> QED BY <1>3, <1>4

\* A step that writes no document.
LEMMA StartedStays ==
  ASSUME QuotasTypes, StartedInv,
         \A c \in Call : tally'[c].documents = tally[c].documents,
         \/ UNCHANGED log
         \/ \E msg \in Message :
              /\ log' = Append(log, msg)
              /\ msg.action # "assertions_generated" => Started(msg.call),
         \A c \in Call : orders'[c].uploads > 0 \/ orders'[c].posts > 0 => Started(c),
         \/ UNCHANGED handler
         \/ handler'.at \notin {"upload", "charge_val", "record", "record_free"}
         \/ handler'.call \in Call /\ Started(handler'.call)
  PROVE  StartedInv'
<1>1. \A c \in Call : Started(c) => tally'[c].documents > 0
  BY DEF Started
<1>2. ASSUME NEW msg \in Message, msg.action # "assertions_generated" => Started(msg.call)
      PROVE  msg.action # "assertions_generated" => tally'[msg.call].documents > 0
  BY <1>1, <1>2 DEF Message
<1>3. \A i \in 1 .. Len(log') :
        log'[i].action # "assertions_generated" => tally'[log'[i].call].documents > 0
  BY <1>1, <1>2, StartedLog
<1>4. handler'.at \in {"upload", "charge_val", "record", "record_free"} =>
        tally'[handler'.call].documents > 0
  <2>1. handler.at \in {"upload", "charge_val", "record", "record_free"} => handler.call \in Call
    BY SeenIsInt
  <2> QED BY <1>1, <2>1 DEF StartedInv
<1> QED BY <1>1, <1>3, <1>4 DEF StartedInv, Started

\* The message the handler is at is in the log.
LEMMA HandedIsLogged ==
  ASSUME QuotasTypes, StartedInv, Handed("handler"),
         Next_("handler").action # "assertions_generated"
  PROVE  Next_("handler").call \in Call /\ Started(Next_("handler").call)
<1>1. /\ log \in Seq(Message) /\ Len(log) \in Nat /\ group["handler"].position \in Nat
  BY DEF QuotasTypes
<1>2. group["handler"].position + 1 \in 1 .. Len(log)
  BY <1>1 DEF Handed
<1>3. log[group["handler"].position + 1] \in Message
  BY <1>1, <1>2
<1> QED BY <1>2, <1>3 DEF StartedInv, Next_, Message

LEMMA NextStarted ==
  QuotasTypes /\ StartedInv /\ [QuotasNext]_quotaVars => StartedInv'
<1> SUFFICES ASSUME QuotasTypes, StartedInv, [QuotasNext]_quotaVars
             PROVE  StartedInv'
  OBVIOUS
<1>1. /\ orders \in [Call -> OrderRecord] /\ tally \in [Call -> Tally]
      /\ \A c \in Call : orders[c].uploads > 0 \/ orders[c].posts > 0 => Started(c)
  BY DEF QuotasTypes, StartedInv
<1>2. CASE \/ \E c \in Call : \/ Enter(c) \/ ChargeGiven(c) \/ RefundGiven(c) \/ Extract(c)
           \/ HandlerCrash \/ GeneratorCrash \/ Bill \/ AdminCrash
           \/ CreateClient \/ UpdateClient \/ DeleteClient \/ UNCHANGED quotaVars
  <2>1. UNCHANGED log /\ (UNCHANGED handler \/ handler' = Idle)
    BY <1>2 DEF Enter, ChargeGiven, RefundGiven, Extract, HandlerCrash, GeneratorCrash, Bill,
                AdminCrash, CreateClient, UpdateClient, DeleteClient, Operate, quotaVars
  <2>2. UNCHANGED orders \/ \E c \in Call : orders' = [orders EXCEPT ![c].saved = TRUE]
    BY <1>2 DEF Enter, ChargeGiven, RefundGiven, Extract, HandlerCrash, GeneratorCrash, Bill,
                AdminCrash, CreateClient, UpdateClient, DeleteClient, Operate, quotaVars
  <2>3. \A c \in Call : orders'[c].uploads > 0 \/ orders'[c].posts > 0 => Started(c)
    BY <1>1, <2>2 DEF OrderRecord
  <2>4. \A c \in Call : tally'[c].documents = tally[c].documents
    BY <1>2, DocumentsStay
  <2>5. UNCHANGED handler \/ handler'.at = "idle"
    BY <2>1 DEF Idle
  <2> QED BY <2>1, <2>3, <2>4, <2>5, StartedStays
<1>3. ASSUME NEW c \in Call, Generate(c) \/ SendGiven(c) \/ Post(c) \/ Validate(c)
      PROVE  StartedInv'
  <2>1. UNCHANGED handler
    BY <1>3 DEF Generate, SendGiven, Post, Validate
  <2>2. \A d \in Call : tally'[d].documents = tally[d].documents
    BY <1>3, DocumentsStay
  <2>3. CASE Generate(c) \/ SendGiven(c)
    <3>1. PICK msg \in Message : msg = Generated(c)
      BY DEF Generated, Message, Actions
    <3>2. /\ log' = Append(log, msg) /\ msg.action = "assertions_generated" /\ UNCHANGED orders
      BY <2>3, <3>1 DEF Generate, SendGiven, Generated
    <3> QED BY <1>1, <2>1, <2>2, <3>2, StartedStays
  <2>4. CASE Post(c)
    <3>1. orders[c].posts \in Nat /\ orders[c].uploads \in Nat
      BY <1>1 DEF OrderRecord
    <3>2. Started(c)
      <4>1. orders[c].posts < orders[c].uploads \/ orders[c].posts > 0
        BY <2>4 DEF Post
      <4>2. orders[c].uploads > 0 \/ orders[c].posts > 0
        BY <3>1, <4>1
      <4> QED BY <1>1, <4>2
    <3>3. PICK msg \in Message : msg = Registered(c, orders[c].posts + 1)
      <4>1. orders[c].posts + 1 \in Nat
        BY <3>1
      <4> QED BY <4>1 DEF Registered, Message, Actions
    <3>4. log' = Append(log, msg) /\ msg.call = c /\ orders' = [orders EXCEPT ![c].posts = @ + 1]
      BY <2>4, <3>3 DEF Post, Registered
    <3>5. \A d \in Call : orders'[d].uploads > 0 \/ orders'[d].posts > 0 => Started(d)
      BY <1>1, <3>2, <3>4 DEF OrderRecord
    <3> QED BY <2>1, <2>2, <3>2, <3>4, <3>5, StartedStays
  <2>5. CASE Validate(c)
    <3>1. PICK post \in 1 .. orders[c].posts : log' = Append(log, Validated(c, post))
      BY <2>5 DEF Validate
    <3>2. orders[c].posts \in Nat /\ post \in Nat /\ orders[c].posts > 0
      BY <1>1, <3>1 DEF OrderRecord
    <3>3. PICK msg \in Message : msg = Validated(c, post)
      BY <3>2 DEF Validated, Message, Actions
    <3>4. log' = Append(log, msg) /\ msg.call = c /\ UNCHANGED orders /\ Started(c)
      BY <1>1, <2>5, <3>1, <3>2, <3>3 DEF Validate, Validated
    <3> QED BY <1>1, <2>1, <2>2, <3>4, StartedStays
  <2> QED BY <1>3, <2>3, <2>4, <2>5
<1>4. CASE TakeGenerated \/ TakeRegistered \/ TakeValidated
  <2>1. UNCHANGED log /\ Handed("handler") /\ handler = Idle
    BY <1>4 DEF TakeGenerated, TakeRegistered, TakeValidated, Take
  <2>2. PICK d, n : d = Next_("handler").call /\ n = Next_("handler").post
    OBVIOUS
  <2>3. UNCHANGED orders \/ orders' = [orders EXCEPT ![d].post = n]
    BY <1>4, <2>2 DEF TakeGenerated, TakeRegistered, TakeValidated
  <2>4. \A c \in Call : orders'[c].uploads > 0 \/ orders'[c].posts > 0 => Started(c)
    BY <1>1, <2>3 DEF OrderRecord
  <2>5. \/ UNCHANGED handler \/ handler'.at \in {"charge_news", "idle"}
        \/ handler'.call \in Call /\ Started(handler'.call)
    <3>1. CASE TakeGenerated
      BY <3>1 DEF TakeGenerated
    <3>2. CASE TakeRegistered
      BY <3>2 DEF TakeRegistered
    <3>3. CASE TakeValidated
      <4>1. Next_("handler").action # "assertions_generated"
        BY <3>3 DEF TakeValidated, Take
      <4>2. d \in Call /\ Started(d)
        BY <2>1, <2>2, <4>1, HandedIsLogged
      <4>3. handler' = Idle \/ handler'.call = d
        BY <2>2, <3>3 DEF TakeValidated
      <4> QED BY <4>2, <4>3 DEF Idle
    <3> QED BY <1>4, <3>1, <3>2, <3>3
  <2>6. \A c \in Call : tally'[c].documents = tally[c].documents
    BY <1>4, DocumentsStay
  <2> QED BY <2>1, <2>4, <2>5, <2>6, StartedStays
<1>5. CASE ChargeGeneration \/ SendUpload \/ ChargeValidation \/ RecordValidation
  <2>1. UNCHANGED log
    BY <1>5 DEF ChargeGeneration, SendUpload, ChargeValidation, RecordValidation
  <2>2. PICK d \in Call : d = handler.call
    BY <1>5, SeenIsInt DEF ChargeGeneration, SendUpload, ChargeValidation, RecordValidation
  <2>3. CASE ChargeGeneration
    <3>1. UNCHANGED orders /\ handler'.at \in {"idle", "document"}
      BY <2>3 DEF ChargeGeneration, Idle
    <3>2. \A c \in Call : tally'[c].documents = tally[c].documents
      BY <2>3, DocumentsStay
    <3> QED BY <1>1, <2>1, <3>1, <3>2, StartedStays
  <2>4. CASE SendUpload \/ ChargeValidation \/ RecordValidation
    <3>1. Started(d)
      BY <2>2, <2>4 DEF SendUpload, ChargeValidation, RecordValidation, StartedInv
    <3>2. \/ UNCHANGED orders \/ orders' = [orders EXCEPT ![d].uploads = @ + 1]
          \/ orders' = [orders EXCEPT ![d].recorded = TRUE]
      BY <2>2, <2>4 DEF SendUpload, ChargeValidation, RecordValidation
    <3>3. \A c \in Call : orders'[c].uploads > 0 \/ orders'[c].posts > 0 => Started(c)
      BY <1>1, <3>1, <3>2 DEF OrderRecord
    <3>4. handler'.at = "idle" \/ handler'.call = d
      BY <2>2, <2>4 DEF SendUpload, ChargeValidation, RecordValidation, Idle
    <3>5. \A c \in Call : tally'[c].documents = tally[c].documents
      BY <2>4, DocumentsStay
    <3> QED BY <2>1, <3>1, <3>3, <3>4, <3>5, StartedStays
  <2> QED BY <1>5, <2>3, <2>4
<1>6. CASE WriteDocument
  <2>1. PICK d \in Call : d = handler.call
    BY <1>6, SeenIsInt DEF WriteDocument
  <2>2. /\ handler' = [at |-> "upload", call |-> d] /\ UNCHANGED log
        /\ orders' = [orders EXCEPT ![d].recorded = FALSE]
        /\ tally' = [tally EXCEPT ![d].documents = @ + 1]
    BY <1>6, <2>1 DEF WriteDocument
  <2>3. /\ \A c \in Call : Started(c) => tally'[c].documents > 0
        /\ tally'[d].documents > 0
    BY <1>1, <2>2 DEF Started, Tally
  <2>4. \A c \in Call : orders'[c].uploads = orders[c].uploads /\ orders'[c].posts = orders[c].posts
    BY <1>1, <2>2 DEF OrderRecord
  <2>5. \A i \in 1 .. Len(log') :
          log'[i].action # "assertions_generated" => tally'[log'[i].call].documents > 0
    BY <2>2, <2>3, StartedLog
  <2>6. \A c \in Call : orders'[c].uploads > 0 \/ orders'[c].posts > 0 => tally'[c].documents > 0
    BY <1>1, <2>3, <2>4
  <2>7. handler'.at \in {"upload", "charge_val", "record", "record_free"} =>
          tally'[handler'.call].documents > 0
    BY <2>2, <2>3
  <2> QED BY <2>5, <2>6, <2>7 DEF StartedInv, Started
<1> QED BY <1>2, <1>3, <1>4, <1>5, <1>6 DEF QuotasNext

-----------------------------------------------------------------------------
(* The charges of a validation by news-handler                             *)

Due(c) == IF Started(c) /\ ~ orders[c].recorded THEN 1 ELSE 0

Unrecorded(c) == IF handler.at = "record" /\ handler.call = c THEN 1 ELSE 0

\* A document is good for one charge until a validation is recorded.
ChargesInv ==
  /\ handler.at \in {"charge_val", "record", "record_free"} => ~ orders[handler.call].recorded
  /\ \A c \in Call :
       tally[c].handler + Due(c) <= tally[c].documents + tally[c].cut + Unrecorded(c)

LEMMA InitCharges == QuotasInit => ChargesInv
BY DEF QuotasInit, ChargesInv, Due, Started, Unrecorded, Idle

LEMMA ChargesNumbers ==
  ASSUME QuotasTypes, NEW c \in Call
  PROVE  /\ tally[c].handler \in Nat /\ tally[c].documents \in Nat /\ tally[c].cut \in Nat
         /\ tally[c].admin \in Nat /\ orders[c].recorded \in BOOLEAN
BY DEF QuotasTypes, Tally, OrderRecord

\* A step that charges nothing, writes no document and records nothing.
LEMMA ChargesStay ==
  ASSUME QuotasTypes, ChargesInv,
         \A c \in Call : /\ tally'[c].handler = tally[c].handler
                         /\ tally'[c].documents = tally[c].documents
                         /\ tally'[c].cut = tally[c].cut
                         /\ orders'[c].recorded = orders[c].recorded,
         \/ UNCHANGED handler
         \/ /\ handler.at # "record" /\ handler'.at # "record"
            /\ handler'.at \in {"charge_val", "record_free"} =>
                 handler'.call \in Call /\ ~ orders[handler'.call].recorded
  PROVE  ChargesInv'
<1>1. ASSUME NEW c \in Call
      PROVE  tally'[c].handler + Due(c)' <= tally'[c].documents + tally'[c].cut + Unrecorded(c)'
  <2>1. Due(c)' = Due(c) /\ Unrecorded(c)' = Unrecorded(c)
    BY DEF Due, Started, Unrecorded
  <2> QED BY <2>1 DEF ChargesInv
<1>2. handler'.at \in {"charge_val", "record", "record_free"} => ~ orders'[handler'.call].recorded
  <2>1. handler.at \in {"charge_val", "record", "record_free"} => handler.call \in Call
    BY SeenIsInt
  <2> QED BY <2>1 DEF ChargesInv
<1> QED BY <1>1, <1>2 DEF ChargesInv

LEMMA ChargeValidationCharges ==
  ASSUME QuotasTypes, StartedInv, ChargesInv, ChargeValidation
  PROVE  ChargesInv'
<1>1. PICK d \in Call : d = handler.call
  BY SeenIsInt DEF ChargeValidation
<1>2. Started(d) /\ ~ orders[d].recorded /\ UNCHANGED orders /\ handler.at = "charge_val"
  BY <1>1 DEF ChargeValidation, StartedInv, ChargesInv
<1>3. CASE /\ handler' = [at |-> "record", call |-> d]
           /\ tally' = [tally EXCEPT ![d].handler = @ + 1]
  <2>1. tally \in [Call -> Tally] /\ tally'[d] = [tally[d] EXCEPT !.handler = @ + 1]
        /\ \A c \in Call \ {d} : tally'[c] = tally[c]
    BY <1>3 DEF QuotasTypes
  <2>2. ASSUME NEW c \in Call
        PROVE  tally'[c].handler + Due(c)' <= tally'[c].documents + tally'[c].cut + Unrecorded(c)'
    <3>1. tally[c].handler + Due(c) <= tally[c].documents + tally[c].cut + Unrecorded(c)
      BY DEF ChargesInv
    <3>2. CASE c # d
      <4>1. tally'[c] = tally[c] /\ Unrecorded(c)' = 0 /\ Unrecorded(c) = 0 /\ Due(c)' = Due(c)
        BY <1>1, <1>2, <1>3, <2>1, <3>2 DEF Unrecorded, Due, Started
      <4> QED BY <3>1, <4>1
    <3>3. CASE c = d
      <4>1. /\ tally'[c].handler = tally[c].handler + 1 /\ tally'[c].documents = tally[c].documents
            /\ tally'[c].cut = tally[c].cut
        BY <2>1, <3>3 DEF Tally
      <4>2. Unrecorded(c)' = 1 /\ Unrecorded(c) = 0 /\ Due(c)' = Due(c) /\ Due(c) = 1
        BY <1>2, <1>3, <3>3, <4>1 DEF Unrecorded, Due, Started
      <4> QED BY <3>1, <4>1, <4>2, ChargesNumbers
    <3> QED BY <3>2, <3>3
  <2>3. handler'.call = d /\ ~ orders'[d].recorded
    BY <1>2, <1>3
  <2> QED BY <2>2, <2>3 DEF ChargesInv
<1>4. CASE handler' = [at |-> "record_free", call |-> d] /\ UNCHANGED tally
  <2>1. handler.at # "record" /\ handler'.at # "record" /\ handler'.call = d
    BY <1>2, <1>4
  <2> QED BY <1>2, <1>4, <2>1, ChargesStay
<1> QED BY <1>1, <1>3, <1>4 DEF ChargeValidation

LEMMA RecordValidationCharges ==
  ASSUME QuotasTypes, StartedInv, ChargesInv, RecordValidation
  PROVE  ChargesInv'
<1>1. PICK d \in Call : d = handler.call
  BY SeenIsInt DEF RecordValidation
<1>2. Started(d) /\ ~ orders[d].recorded
  BY <1>1 DEF RecordValidation, StartedInv, ChargesInv
<1>3. /\ handler' = Idle /\ orders' = [orders EXCEPT ![d].recorded = TRUE] /\ UNCHANGED tally
  BY <1>1 DEF RecordValidation, histories
<1>4. orders'[d].recorded /\ \A c \in Call \ {d} : orders'[c] = orders[c]
  BY <1>3 DEF QuotasTypes, OrderRecord
<1>5. ASSUME NEW c \in Call
      PROVE  tally'[c].handler + Due(c)' <= tally'[c].documents + tally'[c].cut + Unrecorded(c)'
  <2>1. tally[c].handler + Due(c) <= tally[c].documents + tally[c].cut + Unrecorded(c)
    BY DEF ChargesInv
  <2>2. Unrecorded(c)' = 0 /\ Unrecorded(c) \in 0 .. 1 /\ (c # d => Unrecorded(c) = 0)
    BY <1>1, <1>3 DEF Unrecorded, Idle
  <2>3. (c = d => Due(c) = 1 /\ Due(c)' = 0) /\ (c # d => Due(c)' = Due(c)) /\ Due(c) \in 0 .. 1
    BY <1>2, <1>3, <1>4 DEF Due, Started
  <2> QED BY <1>3, <2>1, <2>2, <2>3, ChargesNumbers
<1> QED BY <1>3, <1>5 DEF ChargesInv, Idle

LEMMA WriteDocumentCharges ==
  ASSUME QuotasTypes, StartedInv, ChargesInv, WriteDocument
  PROVE  ChargesInv'
<1>1. PICK d \in Call : d = handler.call
  BY SeenIsInt DEF WriteDocument
<1>2. /\ handler' = [at |-> "upload", call |-> d] /\ handler.at = "document"
      /\ orders' = [orders EXCEPT ![d].recorded = FALSE]
      /\ tally' = [tally EXCEPT ![d].documents = @ + 1]
  BY <1>1 DEF WriteDocument
<1>3. /\ \A c \in Call \ {d} : orders'[c] = orders[c] /\ tally'[c] = tally[c]
      /\ tally'[d].handler = tally[d].handler /\ tally'[d].cut = tally[d].cut
      /\ tally'[d].documents = tally[d].documents + 1
  BY <1>2 DEF QuotasTypes, Tally
<1>4. ASSUME NEW c \in Call
      PROVE  tally'[c].handler + Due(c)' <= tally'[c].documents + tally'[c].cut + Unrecorded(c)'
  <2>1. tally[c].handler + Due(c) <= tally[c].documents + tally[c].cut + Unrecorded(c)
    BY DEF ChargesInv
  <2>2. Unrecorded(c)' = 0 /\ Unrecorded(c) = 0
    BY <1>2 DEF Unrecorded
  <2>3. Due(c)' \in 0 .. 1 /\ Due(c) \in 0 .. 1
    BY DEF Due
  <2>4. CASE c = d
    BY <1>3, <2>1, <2>2, <2>3, <2>4, ChargesNumbers
  <2>5. CASE c # d
    <3>1. Due(c)' = Due(c) /\ tally'[c] = tally[c]
      BY <1>3, <2>5 DEF Due, Started
    <3> QED BY <2>1, <2>2, <3>1
  <2> QED BY <2>4, <2>5
<1> QED BY <1>2, <1>4 DEF ChargesInv

LEMMA HandlerCrashCharges ==
  ASSUME QuotasTypes, StartedInv, ChargesInv, HandlerCrash
  PROVE  ChargesInv'
<1>1. handler' = Idle /\ UNCHANGED orders
  BY DEF HandlerCrash
<1>2. CASE handler.at # "record"
  <2>1. UNCHANGED tally
    BY <1>2 DEF HandlerCrash
  <2>2. handler'.at = "idle"
    BY <1>1 DEF Idle
  <2> QED BY <1>1, <1>2, <2>1, <2>2, ChargesStay
<1>3. CASE handler.at = "record"
  <2>1. PICK d \in Call : d = handler.call
    BY <1>3, SeenIsInt
  <2>2. tally' = [tally EXCEPT ![d].cut = @ + 1]
    BY <1>3, <2>1 DEF HandlerCrash
  <2>3. /\ \A c \in Call \ {d} : tally'[c] = tally[c]
        /\ tally'[d].handler = tally[d].handler /\ tally'[d].documents = tally[d].documents
        /\ tally'[d].cut = tally[d].cut + 1
    BY <2>2 DEF QuotasTypes, Tally
  <2>4. ASSUME NEW c \in Call
        PROVE  tally'[c].handler + Due(c)' <= tally'[c].documents + tally'[c].cut + Unrecorded(c)'
    <3>1. tally[c].handler + Due(c) <= tally[c].documents + tally[c].cut + Unrecorded(c)
      BY DEF ChargesInv
    <3>2. Unrecorded(c)' = 0 /\ Unrecorded(c) = IF c = d THEN 1 ELSE 0
      BY <1>1, <1>3, <2>1 DEF Unrecorded, Idle
    <3>3. Due(c)' = Due(c) /\ Due(c) \in 0 .. 1
      BY <1>1, <2>3 DEF Due, Started
    <3> QED BY <2>3, <3>1, <3>2, <3>3, ChargesNumbers
  <2> QED BY <1>1, <2>4 DEF ChargesInv, Idle
<1> QED BY <1>2, <1>3

LEMMA NextCharges ==
  QuotasTypes /\ StartedInv /\ ChargesInv /\ [QuotasNext]_quotaVars => ChargesInv'
<1> SUFFICES ASSUME QuotasTypes, StartedInv, ChargesInv, [QuotasNext]_quotaVars
             PROVE  ChargesInv'
  OBVIOUS
<1>1. orders \in [Call -> OrderRecord] /\ tally \in [Call -> Tally]
  BY DEF QuotasTypes
<1>2. CASE \/ \E c \in Call : \/ Enter(c) \/ Generate(c) \/ ChargeGiven(c) \/ RefundGiven(c)
                              \/ SendGiven(c) \/ Extract(c) \/ Post(c) \/ Validate(c)
           \/ GeneratorCrash \/ Bill \/ AdminCrash
           \/ CreateClient \/ UpdateClient \/ DeleteClient \/ UNCHANGED quotaVars
  <2>1. UNCHANGED handler
    BY <1>2 DEF Enter, Generate, ChargeGiven, RefundGiven, SendGiven, Extract, Post, Validate,
                GeneratorCrash, Bill, AdminCrash, CreateClient, UpdateClient, DeleteClient,
                Operate, quotaVars
  <2>2. \/ UNCHANGED orders
        \/ \E c : \/ orders' = [orders EXCEPT ![c].saved = TRUE]
                  \/ orders' = [orders EXCEPT ![c].posts = @ + 1]
    BY <1>2 DEF Enter, Generate, ChargeGiven, RefundGiven, SendGiven, Extract, Post, Validate,
                GeneratorCrash, Bill, AdminCrash, CreateClient, UpdateClient, DeleteClient,
                Operate, quotaVars
  <2>3. \A c \in Call : orders'[c].recorded = orders[c].recorded
    BY <1>1, <2>2 DEF OrderRecord
  <2>4. UNCHANGED tally \/ \E c : tally' = [tally EXCEPT ![c].admin = @ + 1]
    <3>1. CASE Bill
      BY <3>1 DEF Bill, histories
    <3>2. CASE ~ Bill
      BY <1>2, <3>2
         DEF Enter, Generate, ChargeGiven, RefundGiven, SendGiven, Extract, Post, Validate,
             GeneratorCrash, AdminCrash, CreateClient, UpdateClient, DeleteClient,
             Operate, histories, quotaVars
    <3> QED BY <3>1, <3>2
  <2>5. \A c \in Call : /\ tally'[c].handler = tally[c].handler
                        /\ tally'[c].documents = tally[c].documents
                        /\ tally'[c].cut = tally[c].cut
    BY <1>1, <2>4 DEF Tally
  <2> QED BY <2>1, <2>3, <2>5, ChargesStay
<1>3. CASE TakeGenerated \/ TakeRegistered \/ TakeValidated
  <2>1. PICK d, n : d = Next_("handler").call /\ n = Next_("handler").post
    OBVIOUS
  <2>2. UNCHANGED tally /\ handler = Idle
        /\ (UNCHANGED orders \/ orders' = [orders EXCEPT ![d].post = n])
    BY <1>3, <2>1 DEF TakeGenerated, TakeRegistered, TakeValidated, Take, histories
  <2>3. \A c \in Call : orders'[c].recorded = orders[c].recorded
    BY <1>1, <2>2 DEF OrderRecord
  <2>4. \/ UNCHANGED handler
        \/ /\ handler.at # "record" /\ handler'.at # "record"
           /\ handler'.at \in {"charge_val", "record_free"} =>
                handler'.call \in Call /\ ~ orders[handler'.call].recorded
    <3>1. CASE TakeGenerated \/ TakeRegistered
      BY <2>2, <3>1 DEF TakeGenerated, TakeRegistered, Idle
    <3>2. CASE TakeValidated
      <4>1. Handed("handler") /\ Next_("handler").action # "assertions_generated"
        BY <3>2 DEF TakeValidated, Take
      <4>2. d \in Call
        BY <2>1, <4>1, HandedIsLogged
      <4>3. \/ handler' = Idle
            \/ /\ handler'.at \in {"charge_val", "record_free"} /\ handler'.call = d
               /\ ~ orders[d].recorded
        BY <2>1, <3>2 DEF TakeValidated, AlreadyDone
      <4> QED BY <2>2, <4>2, <4>3 DEF Idle
    <3> QED BY <1>3, <3>1, <3>2
  <2> QED BY <2>2, <2>3, <2>4, ChargesStay
<1>4. CASE ChargeGeneration \/ SendUpload
  <2>1. PICK d : d = handler.call
    OBVIOUS
  <2>2. /\ handler.at # "record" /\ handler'.at \in {"idle", "document"} /\ UNCHANGED tally
        /\ UNCHANGED orders \/ orders' = [orders EXCEPT ![d].uploads = @ + 1]
    BY <1>4, <2>1 DEF ChargeGeneration, SendUpload, Idle, histories
  <2>3. \A c \in Call : orders'[c].recorded = orders[c].recorded
    BY <1>1, <2>2 DEF OrderRecord
  <2> QED BY <2>2, <2>3, ChargesStay
<1> QED BY <1>2, <1>3, <1>4, ChargeValidationCharges, RecordValidationCharges, WriteDocumentCharges,
           HandlerCrashCharges DEF QuotasNext

-----------------------------------------------------------------------------
(* The answers of generate-asertions                                       *)

IsAnswer(msg, c) == msg.action = "assertions_generated" /\ msg.call = c

\* The answers for a call among the first n messages.
Answers(messages, c, n) == {i \in 1..n : IsAnswer(messages[i], c)}

Count(messages, c, n) == Cardinality(Answers(messages, c, n))

LEMMA CountIsNat ==
  ASSUME NEW messages, NEW c, NEW n \in Nat
  PROVE  IsFiniteSet(Answers(messages, c, n)) /\ Count(messages, c, n) \in Nat
<1>1. IsFiniteSet(1..n) /\ Answers(messages, c, n) \in SUBSET (1..n)
  BY FS_Interval DEF Answers
<1>2. IsFiniteSet(Answers(messages, c, n))
  BY <1>1, FS_Subset
<1> QED BY <1>2, FS_CardinalityType DEF Count

LEMMA CountGrows ==
  ASSUME NEW messages, NEW c, NEW m \in Nat, NEW n \in Nat, m <= n
  PROVE  Count(messages, c, m) <= Count(messages, c, n)
<1>1. Answers(messages, c, m) \in SUBSET Answers(messages, c, n)
  BY DEF Answers
<1> QED BY <1>1, CountIsNat, FS_Subset DEF Count

\* One message more.
LEMMA CountNext ==
  ASSUME NEW messages, NEW c, NEW n \in Nat
  PROVE  Count(messages, c, n + 1) =
           IF IsAnswer(messages[n + 1], c) THEN Count(messages, c, n) + 1
                                           ELSE Count(messages, c, n)
<1>1. CASE IsAnswer(messages[n + 1], c)
  <2>1. Answers(messages, c, n + 1) = Answers(messages, c, n) \cup {n + 1}
    BY <1>1 DEF Answers
  <2>2. n + 1 \notin Answers(messages, c, n)
    BY DEF Answers
  <2> QED BY <1>1, <2>1, <2>2, CountIsNat, FS_AddElement DEF Count
<1>2. CASE ~ IsAnswer(messages[n + 1], c)
  <2>1. Answers(messages, c, n + 1) = Answers(messages, c, n)
    BY <1>2 DEF Answers
  <2> QED BY <1>2, <2>1 DEF Count
<1> QED BY <1>1, <1>2

\* Logs that agree so far.
LEMMA CountAgrees ==
  ASSUME NEW messages, NEW longer, NEW c, NEW n \in Nat,
         \A i \in 1..n : messages[i] = longer[i]
  PROVE  Count(messages, c, n) = Count(longer, c, n)
<1>1. Answers(messages, c, n) = Answers(longer, c, n)
  BY DEF Answers
<1> QED BY <1>1 DEF Count

\* What a message more in the log counts.
LEMMA CountAppend ==
  ASSUME QuotasTypes, NEW msg \in Message, NEW c \in Call, log' = Append(log, msg)
  PROVE  /\ Count(log', c, Len(log')) =
              IF IsAnswer(msg, c) THEN Count(log, c, Len(log)) + 1 ELSE Count(log, c, Len(log))
         /\ \A n \in Nat : n <= Len(log) => Count(log', c, n) = Count(log, c, n)
<1>1. log \in Seq(Message) /\ Len(log) \in Nat
  BY DEF QuotasTypes
<1>2. PICK longer \in Seq(Message) : longer = log'
  BY <1>1
<1>3. /\ Len(longer) = Len(log) + 1 /\ longer[Len(log) + 1] = msg
      /\ \A i \in 1..Len(log) : longer[i] = log[i]
  BY <1>1, <1>2
<1>4. ASSUME NEW n \in Nat, n <= Len(log)
      PROVE  Count(longer, c, n) = Count(log, c, n)
  <2>1. \A i \in 1..n : log[i] = longer[i]
    BY <1>1, <1>3, <1>4
  <2> QED BY <2>1, CountAgrees
<1>5. Count(longer, c, Len(longer)) =
        IF IsAnswer(msg, c) THEN Count(log, c, Len(log)) + 1 ELSE Count(log, c, Len(log))
  <2>1. Count(longer, c, Len(log)) = Count(log, c, Len(log))
    BY <1>1, <1>4
  <2> QED BY <1>1, <1>3, <2>1, CountNext
<1> QED BY <1>2, <1>4, <1>5

LEMMA EventSteps ==
  ASSUME QuotasTypes, NEW sort \in EventKind, Event(sort)
  PROVE  /\ events'[sort] = events[sort] + 1
         /\ \A other \in EventKind \ {sort} : events'[other] = events[other]
BY DEF QuotasTypes, Event

\* An answer ends the call, which only a restart of generate-asertions reopens.
AnswersInv ==
  \A c \in Call :
    Count(log, c, Len(log)) <= events["generator"] + (IF calls[c].at = "done" THEN 1 ELSE 0)

LEMMA InitAnswers == QuotasInit => AnswersInv
<1> SUFFICES ASSUME QuotasInit, NEW c \in Call
             PROVE  Count(log, c, Len(log)) <=
                      events["generator"] + (IF calls[c].at = "done" THEN 1 ELSE 0)
  BY DEF AnswersInv
<1>1. Len(log) = 0 /\ events["generator"] = 0
  BY DEF QuotasInit, EventKind
<1>2. Answers(log, c, 0) = {}
  BY DEF Answers
<1>3. Count(log, c, 0) = 0
  BY <1>2, FS_EmptySet DEF Count
<1> QED BY <1>1, <1>3

\* A step after which neither the answers nor who is done are fewer than allowed.
LEMMA AnswersStay ==
  ASSUME QuotasTypes, AnswersInv, NEW c \in Call,
         \/ UNCHANGED log
         \/ \E msg \in Message : log' = Append(log, msg) /\ ~ IsAnswer(msg, c),
         events'["generator"] = events["generator"],
         calls[c].at = "done" => calls'[c].at = "done"
  PROVE  Count(log', c, Len(log')) <=
           events'["generator"] + (IF calls'[c].at = "done" THEN 1 ELSE 0)
<1>1. Count(log', c, Len(log')) = Count(log, c, Len(log))
  <2>1. CASE UNCHANGED log
    BY <2>1
  <2>2. CASE \E msg \in Message : log' = Append(log, msg) /\ ~ IsAnswer(msg, c)
    BY <2>2, CountAppend
  <2> QED BY <2>1, <2>2
<1>2. Count(log, c, Len(log)) <= events["generator"] + (IF calls[c].at = "done" THEN 1 ELSE 0)
  BY DEF AnswersInv
<1>3. events["generator"] \in Nat /\ Count(log, c, Len(log)) \in Nat
  BY CountIsNat DEF QuotasTypes, EventKind
<1> QED BY <1>1, <1>2, <1>3

LEMMA AnswerSteps ==
  ASSUME QuotasTypes, AnswersInv, NEW d \in Call, Generate(d) \/ SendGiven(d)
  PROVE  AnswersInv'
<1>1. PICK msg \in Message : msg = Generated(d)
  BY DEF Generated, Message, Actions
<1>2. /\ log' = Append(log, msg) /\ UNCHANGED events /\ calls[d].at # "done"
      /\ calls' = [calls EXCEPT ![d].at = "done", ![d].seen = 0]
  BY <1>1 DEF Generate, SendGiven, End
<1>3. /\ \A c \in Call \ {d} : calls'[c] = calls[c] /\ ~ IsAnswer(msg, c)
      /\ calls'[d].at = "done" /\ IsAnswer(msg, d)
  BY <1>1, <1>2 DEF QuotasTypes, CallRecord, IsAnswer, Generated
<1>4. ASSUME NEW c \in Call
      PROVE  Count(log', c, Len(log')) <=
               events'["generator"] + (IF calls'[c].at = "done" THEN 1 ELSE 0)
  <2>1. CASE c # d
    BY <1>2, <1>3, <2>1, AnswersStay
  <2>2. CASE c = d
    <3>1. Count(log', d, Len(log')) = Count(log, d, Len(log)) + 1
      BY <1>2, <1>3, CountAppend
    <3>2. Count(log, d, Len(log)) <= events["generator"] + 0
      BY <1>2 DEF AnswersInv
    <3>3. events["generator"] \in Nat /\ Count(log, d, Len(log)) \in Nat
      BY CountIsNat DEF QuotasTypes, EventKind
    <3> QED BY <1>2, <1>3, <2>2, <3>1, <3>2, <3>3
  <2> QED BY <2>1, <2>2
<1> QED BY <1>4 DEF AnswersInv

LEMMA GeneratorCrashAnswers ==
  ASSUME QuotasTypes, AnswersInv, GeneratorCrash
  PROVE  AnswersInv'
<1>1. UNCHANGED log /\ events'["generator"] = events["generator"] + 1
  BY EventSteps DEF GeneratorCrash, EventKind
<1> SUFFICES ASSUME NEW c \in Call
             PROVE  Count(log', c, Len(log')) <=
                      events'["generator"] + (IF calls'[c].at = "done" THEN 1 ELSE 0)
  BY DEF AnswersInv
<1>2. Count(log, c, Len(log)) <= events["generator"] + (IF calls[c].at = "done" THEN 1 ELSE 0)
  BY DEF AnswersInv
<1>3. events["generator"] \in Nat /\ Count(log, c, Len(log)) \in Nat
  BY CountIsNat DEF QuotasTypes, EventKind
<1> QED BY <1>1, <1>2, <1>3

LEMMA NextAnswers ==
  QuotasTypes /\ AnswersInv /\ [QuotasNext]_quotaVars => AnswersInv'
<1> SUFFICES ASSUME QuotasTypes, AnswersInv, [QuotasNext]_quotaVars
             PROVE  AnswersInv'
  OBVIOUS
<1>1. calls \in [Call -> CallRecord]
  BY DEF QuotasTypes
<1>2. ASSUME \/ UNCHANGED log
             \/ \E msg \in Message : log' = Append(log, msg) /\ msg.action # "assertions_generated",
             events'["generator"] = events["generator"],
             \A c \in Call : calls[c].at = "done" => calls'[c].at = "done"
      PROVE  AnswersInv'
  <2> SUFFICES ASSUME NEW c \in Call
               PROVE  Count(log', c, Len(log')) <=
                        events'["generator"] + (IF calls'[c].at = "done" THEN 1 ELSE 0)
    BY DEF AnswersInv
  <2> QED BY <1>2, AnswersStay DEF IsAnswer
<1>3. CASE \/ TakeGenerated \/ ChargeGeneration \/ WriteDocument \/ SendUpload \/ TakeRegistered
           \/ TakeValidated \/ ChargeValidation \/ RecordValidation \/ Bill
           \/ CreateClient \/ UpdateClient \/ DeleteClient \/ AdminCrash \/ UNCHANGED quotaVars
  <2>1. UNCHANGED log /\ UNCHANGED calls
    BY <1>3 DEF TakeGenerated, ChargeGeneration, WriteDocument, SendUpload, TakeRegistered,
                TakeValidated, ChargeValidation, RecordValidation, Bill, CreateClient, UpdateClient,
                DeleteClient, AdminCrash, Take, Operate, quotaVars
  <2>2. UNCHANGED events \/ Event("console") \/ Event("admin")
    BY <1>3 DEF TakeGenerated, ChargeGeneration, WriteDocument, SendUpload, TakeRegistered,
                TakeValidated, ChargeValidation, RecordValidation, Bill, CreateClient, UpdateClient,
                DeleteClient, AdminCrash, Take, Operate, quotaVars
  <2>3. events'["generator"] = events["generator"]
    BY <2>2, EventSteps DEF EventKind
  <2> QED BY <1>2, <2>1, <2>3
<1>4. ASSUME NEW c \in Call, Enter(c) \/ ChargeGiven(c) \/ RefundGiven(c) \/ Extract(c)
      PROVE  AnswersInv'
  <2>1. UNCHANGED <<log, events>> /\ calls[c].at # "done"
    BY <1>4 DEF Enter, ChargeGiven, RefundGiven, Extract, histories
  <2>2. \E r : calls' = [calls EXCEPT ![c] = r]
    <3>1. CASE Enter(c)
      BY <3>1 DEF Enter
    <3>2. CASE ~ Enter(c)
      <4>1. \E at : Goto(c, at) \/ End(c, at)
        BY <1>4, <3>2 DEF ChargeGiven, RefundGiven, Extract
      <4>2. PICK at : \/ calls' = [calls EXCEPT ![c].at = at]
                      \/ calls' = [calls EXCEPT ![c].at = at, ![c].seen = 0]
        BY <4>1 DEF Goto, End
      <4>3. \/ calls' = [calls EXCEPT ![c] = [calls[c] EXCEPT !.at = at]]
            \/ calls' = [calls EXCEPT ![c] = [calls[c] EXCEPT !.at = at, !.seen = 0]]
        BY <1>1, <4>2 DEF CallRecord
      <4> QED BY <4>3
    <3> QED BY <3>1, <3>2
  <2>3. \A x \in Call : calls[x].at = "done" => calls'[x].at = "done"
    BY <1>1, <2>1, <2>2
  <2> QED BY <1>2, <2>1, <2>3
<1>5. ASSUME NEW c \in Call, Post(c) \/ Validate(c)
      PROVE  AnswersInv'
  <2>1. UNCHANGED calls /\ (UNCHANGED events \/ Event("repeat"))
    BY <1>5 DEF Post, Validate
  <2>2. events'["generator"] = events["generator"]
    BY <2>1, EventSteps DEF EventKind
  <2>3. \E msg \in Message : log' = Append(log, msg) /\ msg.action # "assertions_generated"
    <3>1. orders[c].posts \in Nat /\ orders[c].posts + 1 \in Nat
      BY DEF QuotasTypes, OrderRecord
    <3>2. \E post \in Nat : \/ log' = Append(log, Registered(c, post))
                            \/ log' = Append(log, Validated(c, post))
      <4>1. CASE Post(c)
        BY <3>1, <4>1 DEF Post
      <4>2. CASE Validate(c)
        <5>1. \A n \in 1 .. orders[c].posts : n \in Nat
          BY <3>1
        <5> QED BY <4>2, <5>1 DEF Validate
      <4> QED BY <1>5, <4>1, <4>2
    <3>3. \A post \in Nat : /\ Registered(c, post) \in Message /\ Validated(c, post) \in Message
                            /\ Registered(c, post).action # "assertions_generated"
                            /\ Validated(c, post).action # "assertions_generated"
      BY DEF Registered, Validated, Message, Actions
    <3> QED BY <3>2, <3>3
  <2> QED BY <1>2, <2>1, <2>2, <2>3
<1>6. CASE HandlerCrash
  <2>1. UNCHANGED log /\ \A c \in Call : calls[c].at = "done" => calls'[c].at = "done"
    BY <1>6 DEF HandlerCrash
  <2>2. events'["generator"] = events["generator"]
    BY <1>6, EventSteps DEF HandlerCrash, EventKind
  <2> QED BY <1>2, <2>1, <2>2
<1> QED BY <1>3, <1>4, <1>5, <1>6, AnswerSteps, GeneratorCrashAnswers DEF QuotasNext

-----------------------------------------------------------------------------
(* What the answers make the consumers do                                  *)

InHand(c) == IF handler.at \in {"charge_news", "document"} /\ handler.call = c THEN 1 ELSE 0

\* What a consumer did for the answers it was handed: documents written, or
\* about to be, and generations billed.
Done(who, c) == IF who = "admin" THEN tally[c].admin ELSE tally[c].documents + InHand(c)

Delivered(who, c) ==
  Done(who, c) <= (1 + events["generator"]) * events[who] + Count(log, c, group[who].position)

DeliveriesInv == \A c \in Call : \A who \in {"handler", "admin"} : Delivered(who, c)

LEMMA Products ==
  ASSUME NEW g \in Nat, NEW e \in Nat
  PROVE  /\ (1 + g) * e \in Nat
         /\ (1 + g) * (e + 1) = (1 + g) * e + (1 + g)
         /\ (1 + (g + 1)) * e = (1 + g) * e + e
OBVIOUS

LEMMA DeliveryNumbers ==
  ASSUME QuotasTypes, NEW c \in Call, NEW who \in {"handler", "admin"}
  PROVE  /\ Len(log) \in Nat /\ group[who].position \in Nat /\ group[who].position <= Len(log)
         /\ events["generator"] \in Nat /\ events[who] \in Nat
         /\ (1 + events["generator"]) * events[who] \in Nat
         /\ Done(who, c) \in Nat
         /\ \A n \in Nat : Count(log, c, n) \in Nat
<1>1. /\ Len(log) \in Nat /\ group[who].position \in Nat /\ group[who].position <= Len(log)
      /\ events["generator"] \in Nat /\ events[who] \in Nat
  BY DEF QuotasTypes, EventKind
<1>2. \A n \in Nat : Count(log, c, n) \in Nat
  BY CountIsNat
<1>3. Done(who, c) \in Nat
  BY ChargesNumbers DEF Done, InHand
<1> QED BY <1>1, <1>2, <1>3, Products

LEMMA InitDeliveries == QuotasInit => DeliveriesInv
<1> SUFFICES ASSUME QuotasInit, NEW c \in Call, NEW who \in {"handler", "admin"}
             PROVE  Delivered(who, c)
  BY DEF DeliveriesInv
<1>1. group[who].position = 0 /\ events[who] = 0 /\ events["generator"] = 0
  BY DEF QuotasInit, EventKind
<1>2. Done(who, c) = 0
  BY DEF QuotasInit, Done, InHand, Idle
<1>3. Answers(log, c, 0) = {}
  BY DEF Answers
<1>4. Count(log, c, 0) = 0
  BY <1>3, FS_EmptySet DEF Count
<1> QED BY <1>1, <1>2, <1>4 DEF Delivered

\* A step in which the consumer is handed nothing and does nothing more.
LEMMA DeliveredStays ==
  ASSUME QuotasTypes, DeliveriesInv, NEW c \in Call, NEW who \in {"handler", "admin"},
         UNCHANGED log \/ \E msg \in Message : log' = Append(log, msg),
         group'[who] = group[who],
         events'["generator"] \in {events["generator"], events["generator"] + 1},
         events'[who] = events[who],
         Done(who, c)' \in Int, Done(who, c)' <= Done(who, c)
  PROVE  Delivered(who, c)'
<1>1. Done(who, c) <= (1 + events["generator"]) * events[who] + Count(log, c, group[who].position)
  BY DEF DeliveriesInv, Delivered
<1>2. Count(log', c, group[who].position) = Count(log, c, group[who].position)
  BY CountAppend, DeliveryNumbers
<1>3. PICK product \in Nat : product = (1 + events["generator"]) * events[who]
  BY DeliveryNumbers
<1>4. PICK more \in Nat : more = (1 + events'["generator"]) * events'[who] /\ product <= more
  <2>1. PICK g \in Nat, e \in Nat : g = events["generator"] /\ e = events[who]
    BY DeliveryNumbers
  <2>2. /\ (1 + g) * e \in Nat /\ (1 + (g + 1)) * e = (1 + g) * e + e
        /\ events'["generator"] \in {g, g + 1} /\ events'[who] = e /\ product = (1 + g) * e
    BY <1>3, <2>1, Products
  <2>3. (1 + events'["generator"]) * events'[who] \in {product, product + e}
    BY <2>2
  <2> QED BY <2>1, <2>3
<1>5. PICK counted \in Nat : counted = Count(log, c, group[who].position)
  BY DeliveryNumbers
<1>6. Done(who, c) \in Nat /\ Done(who, c) <= product + counted
  BY <1>1, <1>3, <1>5, DeliveryNumbers
<1>7. Done(who, c)' <= more + counted
  BY <1>4, <1>6
<1> QED BY <1>2, <1>4, <1>5, <1>7 DEF Delivered

\* The consumer is handed a message, and does more only for an answer.
LEMMA DeliveredHanded ==
  ASSUME QuotasTypes, DeliveriesInv, NEW c \in Call, NEW who \in {"handler", "admin"},
         UNCHANGED <<log, events>>, Advance(who),
         \/ Done(who, c)' \in Int /\ Done(who, c)' <= Done(who, c)
         \/ Done(who, c)' = Done(who, c) + 1 /\ IsAnswer(Next_(who), c)
  PROVE  Delivered(who, c)'
<1>1. PICK n \in Nat : n = group[who].position
  BY DeliveryNumbers
<1>2. group'[who].position = n + 1
  BY <1>1 DEF Advance, QuotasTypes
<1>3. PICK product \in Nat : product = (1 + events["generator"]) * events[who]
  BY DeliveryNumbers
<1>4. PICK counted \in Nat : counted = Count(log, c, n)
  BY <1>1, DeliveryNumbers
<1>5. PICK next \in Nat : next = Count(log, c, n + 1) /\ next >= counted
                          /\ (IsAnswer(Next_(who), c) => next = counted + 1)
  <2>1. Count(log, c, n + 1) = IF IsAnswer(Next_(who), c) THEN counted + 1 ELSE counted
    BY <1>1, <1>4, CountNext DEF Next_
  <2> QED BY <2>1
<1>6. Done(who, c) \in Nat /\ Done(who, c) <= product + counted
  BY <1>1, <1>3, <1>4, DeliveryNumbers DEF DeliveriesInv, Delivered
<1>7. Done(who, c)' <= product + next
  BY <1>5, <1>6
<1> QED BY <1>2, <1>3, <1>5, <1>7 DEF Delivered

\* After a crash the consumer is handed every answer once more at most.
LEMMA DeliveredAgain ==
  ASSUME QuotasTypes, AnswersInv, DeliveriesInv, NEW c \in Call, NEW who \in {"handler", "admin"},
         NEW offset \in group[who].from .. group[who].position,
         group' = [group EXCEPT ![who] = [position |-> offset, from |-> offset]],
         UNCHANGED log, Event(who),
         Done(who, c)' \in Int, Done(who, c)' <= Done(who, c)
  PROVE  Delivered(who, c)'
<1>1. offset \in Nat /\ group'[who].position = offset
  BY DEF QuotasTypes
<1>2. events'[who] = events[who] + 1 /\ events'["generator"] = events["generator"]
  BY EventSteps DEF EventKind
<1>3. PICK product \in Nat : product = (1 + events["generator"]) * events[who]
  BY DeliveryNumbers
<1>4. PICK rounds \in Nat : rounds = 1 + events["generator"]
  <2>1. events["generator"] \in Nat
    BY DeliveryNumbers
  <2> QED BY <2>1
<1>5. (1 + events'["generator"]) * events'[who] = product + rounds
  BY <1>2, <1>3, <1>4, Products, DeliveryNumbers
<1>6. PICK counted \in Nat : counted = Count(log, c, group[who].position)
  BY DeliveryNumbers
<1>7. PICK all \in Nat : all = Count(log, c, Len(log))
  BY DeliveryNumbers
<1>8. PICK again \in Nat : again = Count(log, c, offset)
  BY <1>1, DeliveryNumbers
<1>9. counted <= rounds
  <2>1. counted <= all
    BY <1>6, <1>7, CountGrows, DeliveryNumbers
  <2>2. all <= rounds
    <3>1. all <= events["generator"] + (IF calls[c].at = "done" THEN 1 ELSE 0)
      BY <1>7 DEF AnswersInv
    <3>2. events["generator"] \in Nat
      BY DeliveryNumbers
    <3> QED BY <1>4, <3>1, <3>2
  <2> QED BY <2>1, <2>2
<1>10. Done(who, c) \in Nat /\ Done(who, c) <= product + counted
  BY <1>3, <1>6, DeliveryNumbers DEF DeliveriesInv, Delivered
<1>11. Done(who, c)' <= (product + rounds) + again
  BY <1>9, <1>10
<1> QED BY <1>1, <1>5, <1>8, <1>11 DEF Delivered

\* Only Bill counts a generation billed.
LEMMA BilledStay ==
  ASSUME QuotasTypes, [QuotasNext]_quotaVars, ~ Bill
  PROVE  \A c \in Call : tally'[c].admin = tally[c].admin
<1>1. tally \in [Call -> Tally]
  BY DEF QuotasTypes
<1>2. \/ UNCHANGED tally
      \/ \E d : \/ tally' = [tally EXCEPT ![d].handler = @ + 1]
                \/ tally' = [tally EXCEPT ![d].cut = @ + 1]
                \/ tally' = [tally EXCEPT ![d].documents = @ + 1]
  <2>1. CASE ChargeValidation \/ HandlerCrash \/ WriteDocument
    BY <2>1 DEF ChargeValidation, HandlerCrash, WriteDocument
  <2>2. CASE ~ (ChargeValidation \/ HandlerCrash \/ WriteDocument)
    BY <2>2 DEF QuotasNext, Enter, Generate, ChargeGiven, RefundGiven, SendGiven, Extract, Post,
                Validate, TakeGenerated, ChargeGeneration, SendUpload, TakeRegistered,
                TakeValidated, RecordValidation, GeneratorCrash, AdminCrash, CreateClient,
                UpdateClient, DeleteClient, Take, Operate, histories, quotaVars
  <2> QED BY <2>1, <2>2
<1>3. ASSUME NEW d, \/ tally' = [tally EXCEPT ![d].handler = @ + 1]
                    \/ tally' = [tally EXCEPT ![d].cut = @ + 1]
                    \/ tally' = [tally EXCEPT ![d].documents = @ + 1]
      PROVE  \A c \in Call : tally'[c].admin = tally[c].admin
  BY <1>1, <1>3 DEF Tally
<1> QED BY <1>2, <1>3

\* The log grows by one message at a time.
LEMMA LogGrows ==
  ASSUME QuotasTypes, [QuotasNext]_quotaVars
  PROVE  UNCHANGED log \/ \E msg \in Message : log' = Append(log, msg)
<1>1. ASSUME NEW c \in Call, Generate(c) \/ SendGiven(c) \/ Post(c) \/ Validate(c)
      PROVE  \E msg \in Message : log' = Append(log, msg)
  <2>1. orders[c].posts \in Nat /\ orders[c].posts + 1 \in Nat
    BY DEF QuotasTypes, OrderRecord
  <2>2. \A n \in 1 .. orders[c].posts : n \in Nat
    BY <2>1
  <2>3. \/ log' = Append(log, Generated(c))
        \/ \E post \in Nat : \/ log' = Append(log, Registered(c, post))
                             \/ log' = Append(log, Validated(c, post))
    BY <1>1, <2>1, <2>2 DEF Generate, SendGiven, Post, Validate
  <2>4. /\ Generated(c) \in Message
        /\ \A post \in Nat : Registered(c, post) \in Message /\ Validated(c, post) \in Message
    BY DEF Generated, Registered, Validated, Message, Actions
  <2> QED BY <2>3, <2>4
<1>2. CASE ~ \E c \in Call : Generate(c) \/ SendGiven(c) \/ Post(c) \/ Validate(c)
  BY <1>2 DEF QuotasNext, Enter, ChargeGiven, RefundGiven, Extract, TakeGenerated,
              ChargeGeneration, WriteDocument, SendUpload, TakeRegistered, TakeValidated,
              ChargeValidation, RecordValidation, HandlerCrash, GeneratorCrash, Bill, AdminCrash,
              CreateClient, UpdateClient, DeleteClient, Take, Operate, quotaVars
<1> QED BY <1>1, <1>2

\* A document is written, and a generation billed, for an answer only.
LEMMA HandedDoes ==
  ASSUME QuotasTypes, TakeGenerated \/ TakeRegistered \/ TakeValidated, NEW c \in Call
  PROVE  \/ Done("handler", c)' = Done("handler", c)
         \/ Done("handler", c)' = Done("handler", c) + 1 /\ IsAnswer(Next_("handler"), c)
<1>1. handler = Idle /\ UNCHANGED tally /\ Handed("handler") /\ Advance("handler") /\ UNCHANGED log
  BY DEF TakeGenerated, TakeRegistered, TakeValidated, Take, histories
<1>2. InHand(c) = 0
  BY <1>1 DEF InHand, Idle
<1>3. tally[c].documents \in Nat
  BY ChargesNumbers
<1>4. InHand(c)' = 0 \/ (InHand(c)' = 1 /\ IsAnswer(Next_("handler"), c))
  <2>1. CASE TakeGenerated
    <3>1. PICK msg : msg = Next_("handler")
      OBVIOUS
    <3>2. msg.action = "assertions_generated"
      BY <2>1, <3>1 DEF TakeGenerated, Take
    <3>3. \/ UNCHANGED handler
          \/ handler' = [at |-> "charge_news", call |-> msg.call, seen |-> account.consumed["news"]]
      BY <2>1, <3>1 DEF TakeGenerated
    <3> QED BY <1>2, <3>1, <3>2, <3>3 DEF InHand, IsAnswer
  <2>2. CASE TakeRegistered
    BY <1>2, <2>2 DEF TakeRegistered, InHand
  <2>3. CASE TakeValidated
    BY <2>3 DEF TakeValidated, InHand, Idle
  <2> QED BY <2>1, <2>2, <2>3
<1> QED BY <1>1, <1>2, <1>3, <1>4 DEF Done

LEMMA HandlerDeliveries ==
  ASSUME QuotasTypes, AnswersInv, DeliveriesInv, [QuotasNext]_quotaVars, NEW c \in Call
  PROVE  Delivered("handler", c)'
<1>0. "handler" \in {"handler", "admin"}
  OBVIOUS
<1>1. tally \in [Call -> Tally] /\ tally[c].documents \in Nat
  BY ChargesNumbers DEF QuotasTypes
<1>2. ASSUME group'["handler"] = group["handler"],
             events'["generator"] \in {events["generator"], events["generator"] + 1},
             events'["handler"] = events["handler"],
             Done("handler", c)' \in Int, Done("handler", c)' <= Done("handler", c)
      PROVE  Delivered("handler", c)'
  BY <1>0, <1>2, LogGrows, DeliveredStays
<1>3. CASE \/ \E d \in Call : \/ Enter(d) \/ Generate(d) \/ ChargeGiven(d) \/ RefundGiven(d)
                              \/ SendGiven(d) \/ Extract(d) \/ Post(d) \/ Validate(d)
           \/ GeneratorCrash \/ Bill \/ AdminCrash
           \/ CreateClient \/ UpdateClient \/ DeleteClient \/ UNCHANGED quotaVars
  <2>1. UNCHANGED handler
    BY <1>3 DEF Enter, Generate, ChargeGiven, RefundGiven, SendGiven, Extract, Post, Validate,
                GeneratorCrash, Bill, AdminCrash, CreateClient, UpdateClient, DeleteClient,
                Operate, quotaVars
  <2>2. tally'[c].documents = tally[c].documents
    BY <1>3, DocumentsStay
  <2>3. Done("handler", c)' = Done("handler", c)
    BY <2>1, <2>2 DEF Done, InHand
  <2>4. \/ UNCHANGED events \/ Event("repeat") \/ Event("generator") \/ Event("admin")
        \/ Event("console")
    BY <1>3 DEF Enter, Generate, ChargeGiven, RefundGiven, SendGiven, Extract, Post, Validate,
                GeneratorCrash, Bill, AdminCrash, CreateClient, UpdateClient, DeleteClient,
                Operate, quotaVars
  <2>5. /\ events'["generator"] \in {events["generator"], events["generator"] + 1}
        /\ events'["handler"] = events["handler"]
    BY <2>4, EventSteps DEF EventKind
  <2>6. group'["handler"] = group["handler"]
    <3>1. UNCHANGED group \/ \E position : group' = [group EXCEPT !["admin"] = position]
      <4>1. CASE AdminCrash
        BY <4>1 DEF AdminCrash
      <4>2. CASE Bill
        <5>1. group' = [group EXCEPT !["admin"].position = @ + 1]
          BY <4>2 DEF Bill, Advance
        <5>2. group' = [group EXCEPT !["admin"] = [group["admin"] EXCEPT !.position = @ + 1]]
          BY <5>1 DEF QuotasTypes
        <5> QED BY <5>2
      <4>3. CASE ~ AdminCrash /\ ~ Bill
        BY <1>3, <4>3
           DEF Enter, Generate, ChargeGiven, RefundGiven, SendGiven, Extract, Post, Validate,
               GeneratorCrash, CreateClient, UpdateClient, DeleteClient, Operate, quotaVars
      <4> QED BY <4>1, <4>2, <4>3
    <3> QED BY <3>1 DEF QuotasTypes
  <2>7. Done("handler", c) \in Int
    BY <1>0, DeliveryNumbers
  <2> QED BY <1>2, <2>3, <2>5, <2>6, <2>7
<1>4. CASE TakeGenerated \/ TakeRegistered \/ TakeValidated
  <2>1. UNCHANGED <<log, events>> /\ Advance("handler")
    BY <1>4 DEF TakeGenerated, TakeRegistered, TakeValidated, Take
  <2>2. Done("handler", c) \in Int
    BY <1>0, DeliveryNumbers
  <2>3. \/ Done("handler", c)' \in Int /\ Done("handler", c)' <= Done("handler", c)
        \/ Done("handler", c)' = Done("handler", c) + 1 /\ IsAnswer(Next_("handler"), c)
    BY <1>4, <2>2, HandedDoes
  <2> QED BY <1>0, <2>1, <2>3, DeliveredHanded
<1>5. CASE \/ ChargeGeneration \/ WriteDocument \/ SendUpload \/ ChargeValidation
           \/ RecordValidation
  <2>1. UNCHANGED <<group, events>>
    BY <1>5 DEF ChargeGeneration, WriteDocument, SendUpload, ChargeValidation, RecordValidation
  <2>2. events["generator"] \in {events["generator"], events["generator"] + 1}
    OBVIOUS
  <2>3. Done("handler", c)' \in Int /\ Done("handler", c)' <= Done("handler", c)
    <3>1. CASE WriteDocument
      <4>1. PICK d \in Call : d = handler.call
        BY <3>1, SeenIsInt DEF WriteDocument
      <4>2. /\ handler' = [at |-> "upload", call |-> d] /\ handler.at = "document"
            /\ tally' = [tally EXCEPT ![d].documents = @ + 1]
        BY <3>1, <4>1 DEF WriteDocument
      <4>3. InHand(c)' = 0 /\ InHand(c) = IF c = d THEN 1 ELSE 0
        BY <4>1, <4>2 DEF InHand
      <4>4. tally'[c].documents = IF c = d THEN tally[c].documents + 1 ELSE tally[c].documents
        BY <1>1, <4>2 DEF Tally
      <4> QED BY <1>1, <4>3, <4>4 DEF Done
    <3>2. CASE ChargeGeneration \/ SendUpload \/ ChargeValidation \/ RecordValidation
      <4>1. tally'[c].documents = tally[c].documents
        BY <3>2, DocumentsStay
      <4>2. InHand(c)' \in 0 .. 1 /\ InHand(c)' <= InHand(c) /\ InHand(c) \in 0 .. 1
        <5>1. CASE ChargeGeneration
          BY <5>1 DEF ChargeGeneration, InHand, Idle
        <5>2. CASE ChargeValidation
          BY <5>2 DEF ChargeValidation, InHand
        <5>3. CASE SendUpload \/ RecordValidation
          BY <5>3 DEF SendUpload, RecordValidation, InHand, Idle
        <5> QED BY <3>2, <5>1, <5>2, <5>3
      <4> QED BY <1>1, <4>1, <4>2 DEF Done
    <3> QED BY <1>5, <3>1, <3>2
  <2> QED BY <1>2, <2>1, <2>2, <2>3
<1>6. CASE HandlerCrash
  <2>1. PICK offset \in group["handler"].from .. group["handler"].position :
          group' = [group EXCEPT !["handler"] = [position |-> offset, from |-> offset]]
    BY <1>6 DEF HandlerCrash
  <2>2. UNCHANGED log /\ Event("handler") /\ handler' = Idle
    BY <1>6 DEF HandlerCrash
  <2>3. tally'[c].documents = tally[c].documents
    BY <1>6, DocumentsStay
  <2>4. InHand(c)' = 0 /\ InHand(c) \in 0 .. 1
    BY <2>2 DEF InHand, Idle
  <2>5. Done("handler", c)' \in Int /\ Done("handler", c)' <= Done("handler", c)
    BY <1>1, <2>3, <2>4 DEF Done
  <2> QED BY <1>0, <2>1, <2>2, <2>5, DeliveredAgain
<1> QED BY <1>3, <1>4, <1>5, <1>6 DEF QuotasNext

LEMMA AdminDeliveries ==
  ASSUME QuotasTypes, AnswersInv, DeliveriesInv, [QuotasNext]_quotaVars, NEW c \in Call
  PROVE  Delivered("admin", c)'
<1>0. "admin" \in {"handler", "admin"}
  OBVIOUS
<1>1. Done("admin", c) = tally[c].admin /\ Done("admin", c)' = tally'[c].admin
      /\ tally[c].admin \in Nat
  BY ChargesNumbers DEF Done
<1>2. CASE Bill
  <2>1. UNCHANGED <<log, events>> /\ Handed("admin") /\ Advance("admin")
    BY <1>2 DEF Bill
  <2>2. PICK msg \in Message : msg = Next_("admin")
    BY <1>0, <2>1, AdvanceTypes
  <2>3. \/ UNCHANGED tally
        \/ /\ msg.action = "assertions_generated"
           /\ tally' = [tally EXCEPT ![msg.call].admin = @ + 1]
    BY <1>2, <2>2 DEF Bill, Resolved, histories
  <2>4. \/ tally'[c].admin = tally[c].admin
        \/ tally'[c].admin = tally[c].admin + 1 /\ IsAnswer(msg, c)
    <3>1. CASE UNCHANGED tally
      BY <3>1
    <3>2. CASE /\ msg.action = "assertions_generated"
               /\ tally' = [tally EXCEPT ![msg.call].admin = @ + 1]
      <4>1. PICK d \in Call : d = msg.call
        BY DEF Message
      <4>2. tally' = [tally EXCEPT ![d].admin = @ + 1] /\ tally \in [Call -> Tally]
        BY <3>2, <4>1 DEF QuotasTypes
      <4>3. tally'[c].admin = IF c = d THEN tally[c].admin + 1 ELSE tally[c].admin
        BY <4>2 DEF Tally
      <4> QED BY <3>2, <4>1, <4>3 DEF IsAnswer
    <3> QED BY <2>3, <3>1, <3>2
  <2>5. \/ Done("admin", c)' \in Int /\ Done("admin", c)' <= Done("admin", c)
        \/ Done("admin", c)' = Done("admin", c) + 1 /\ IsAnswer(Next_("admin"), c)
    BY <1>1, <2>2, <2>4
  <2> QED BY <1>0, <2>1, <2>5, DeliveredHanded
<1>3. CASE AdminCrash
  <2>1. PICK offset \in group["admin"].from .. group["admin"].position :
          group' = [group EXCEPT !["admin"] = [position |-> offset, from |-> offset]]
    BY <1>3 DEF AdminCrash
  <2>2. UNCHANGED <<log, tally>> /\ Event("admin")
    BY <1>3 DEF AdminCrash, histories
  <2>3. Done("admin", c)' \in Int /\ Done("admin", c)' <= Done("admin", c)
    BY <1>1, <2>2
  <2> QED BY <1>0, <2>1, <2>2, <2>3, DeliveredAgain
<1>4. CASE ~ Bill /\ ~ AdminCrash
  <2>1. tally'[c].admin = tally[c].admin
    BY <1>4, BilledStay
  <2>2. group'["admin"] = group["admin"]
    <3>1. UNCHANGED group \/ \E position : group' = [group EXCEPT !["handler"] = position]
      <4>1. CASE HandlerCrash
        BY <4>1 DEF HandlerCrash
      <4>2. CASE TakeGenerated \/ TakeRegistered \/ TakeValidated
        <5>1. group' = [group EXCEPT !["handler"].position = @ + 1]
          BY <4>2 DEF TakeGenerated, TakeRegistered, TakeValidated, Take, Advance
        <5>2. group' = [group EXCEPT !["handler"] = [group["handler"] EXCEPT !.position = @ + 1]]
          BY <5>1 DEF QuotasTypes
        <5> QED BY <5>2
      <4>3. CASE ~ (HandlerCrash \/ TakeGenerated \/ TakeRegistered \/ TakeValidated)
        BY <1>4, <4>3
           DEF QuotasNext, Enter, Generate, ChargeGiven, RefundGiven, SendGiven, Extract, Post,
               Validate, ChargeGeneration, WriteDocument, SendUpload, ChargeValidation,
               RecordValidation, GeneratorCrash, CreateClient, UpdateClient, DeleteClient,
               Operate, quotaVars
      <4> QED BY <4>1, <4>2, <4>3
    <3> QED BY <3>1 DEF QuotasTypes
  <2>3. \/ UNCHANGED events \/ Event("repeat") \/ Event("generator") \/ Event("handler")
        \/ Event("console")
    BY <1>4 DEF QuotasNext, Enter, Generate, ChargeGiven, RefundGiven, SendGiven, Extract, Post,
                Validate, TakeGenerated, ChargeGeneration, WriteDocument, SendUpload,
                TakeRegistered, TakeValidated, ChargeValidation, RecordValidation, HandlerCrash,
                GeneratorCrash, CreateClient, UpdateClient, DeleteClient, Take, Operate, quotaVars
  <2>4. /\ events'["generator"] \in {events["generator"], events["generator"] + 1}
        /\ events'["admin"] = events["admin"]
    BY <2>3, EventSteps DEF EventKind
  <2>5. Done("admin", c)' \in Int /\ Done("admin", c)' <= Done("admin", c)
    BY <1>1, <2>1
  <2> QED BY <1>0, <2>2, <2>4, <2>5, LogGrows, DeliveredStays
<1> QED BY <1>2, <1>3, <1>4

LEMMA NextDeliveries ==
  QuotasTypes /\ AnswersInv /\ DeliveriesInv /\ [QuotasNext]_quotaVars => DeliveriesInv'
<1> SUFFICES ASSUME QuotasTypes, AnswersInv, DeliveriesInv, [QuotasNext]_quotaVars,
                    NEW c \in Call, NEW who \in {"handler", "admin"}
             PROVE  Delivered(who, c)'
  BY DEF DeliveriesInv
<1>1. CASE who = "handler"
  BY <1>1, HandlerDeliveries
<1>2. CASE who = "admin"
  BY <1>2, AdminDeliveries
<1> QED BY <1>1, <1>2

-----------------------------------------------------------------------------
QuotasInv ==
  QuotasTypes /\ CountersInv /\ StartedInv /\ ChargesInv /\ AnswersInv /\ DeliveriesInv

LEMMA QuotasInvImplies == QuotasInv => QuotasAreAccounted
<1> SUFFICES ASSUME QuotasInv PROVE QuotasAreAccounted
  OBVIOUS
<1>1. account # NoClient => \A s \in Service :
        /\ s \notin overlapped => account.consumed[s] = ledger[s]
        /\ account.consumed[s] <= gross[s]
  BY DEF QuotasInv, CountersInv
<1>2. ASSUME NEW c \in Call
      PROVE  tally[c].handler <= tally[c].documents + tally[c].cut
  <2>1. QuotasTypes /\ tally[c].handler + Due(c) <= tally[c].documents + tally[c].cut + Unrecorded(c)
    BY DEF QuotasInv, ChargesInv
  <2>2. Due(c) \in 0 .. 1 /\ Unrecorded(c) \in 0 .. 1
    BY DEF Due, Unrecorded
  <2>3. Unrecorded(c) = 1 => Due(c) = 1
    BY DEF QuotasInv, StartedInv, ChargesInv, Due, Unrecorded
  <2> QED BY <2>1, <2>2, <2>3, ChargesNumbers
<1>3. ASSUME NEW c \in Call, NEW who \in {"handler", "admin"}
      PROVE  Done(who, c) <= (1 + events["generator"]) * (1 + events[who])
  <2>1. QuotasTypes
    BY DEF QuotasInv
  <2>2. PICK rounds \in Nat : rounds = 1 + events["generator"]
    <3>1. events["generator"] \in Nat
      BY <2>1, DeliveryNumbers
    <3> QED BY <3>1
  <2>3. PICK product \in Nat : product = (1 + events["generator"]) * events[who]
    BY <2>1, DeliveryNumbers
  <2>4. (1 + events["generator"]) * (1 + events[who]) = product + rounds
    <3>1. PICK e \in Nat : e = events[who]
      BY <2>1, DeliveryNumbers
    <3>2. 1 + e = e + 1
      OBVIOUS
    <3>3. events["generator"] \in Nat
      BY <2>1, DeliveryNumbers
    <3> QED BY <2>2, <2>3, <3>1, <3>2, <3>3, Products
  <2>5. PICK counted \in Nat : counted = Count(log, c, group[who].position)
    BY <2>1, DeliveryNumbers
  <2>6. PICK all \in Nat : all = Count(log, c, Len(log))
    BY <2>1, DeliveryNumbers
  <2>7. counted <= all
    BY <2>1, <2>5, <2>6, CountGrows, DeliveryNumbers
  <2>8. all <= rounds
    <3>1. all <= events["generator"] + (IF calls[c].at = "done" THEN 1 ELSE 0)
      BY <2>6 DEF QuotasInv, AnswersInv
    <3>2. events["generator"] \in Nat
      BY <2>1, DeliveryNumbers
    <3> QED BY <2>2, <3>1, <3>2
  <2>9. Done(who, c) \in Nat /\ Done(who, c) <= product + counted
    BY <2>1, <2>3, <2>5, DeliveryNumbers DEF QuotasInv, DeliveriesInv, Delivered
  <2>10. Done(who, c) <= product + rounds
    BY <2>7, <2>8, <2>9
  <2> QED BY <2>4, <2>10
<1>4. ASSUME NEW c \in Call
      PROVE  /\ tally[c].documents <= (1 + events["generator"]) * (1 + events["handler"])
             /\ tally[c].admin <= (1 + events["generator"]) * (1 + events["admin"])
  <2>1. PICK many \in Int : many = (1 + events["generator"]) * (1 + events["handler"])
    BY DEF QuotasInv, QuotasTypes, EventKind
  <2>2. tally[c].documents + InHand(c) <= many
    BY <1>3, <2>1 DEF Done
  <2>3. tally[c].documents \in Nat /\ InHand(c) \in 0 .. 1
    BY ChargesNumbers DEF QuotasInv, InHand
  <2>4. tally[c].documents <= many
    BY <2>2, <2>3
  <2> QED BY <1>3, <2>1, <2>4 DEF Done
<1> QED BY <1>1, <1>2, <1>4 DEF QuotasAreAccounted

LEMMA InitQuotasInv == QuotasInit => QuotasInv
BY InitQuotasTypes, InitCounters, InitStarted, InitCharges, InitAnswers, InitDeliveries DEF QuotasInv

LEMMA NextQuotasInv == QuotasInv /\ [QuotasNext]_quotaVars => QuotasInv'
BY NextQuotasTypes, NextCounters, NextStarted, NextCharges, NextAnswers, NextDeliveries DEF QuotasInv

(* For any calls, kinds, limits, crashes, repeated messages and operations   *)
(* of the console: a counter is the sum of its charges and refunds unless    *)
(* somebody wrote it while another was about to; a validation is charged at  *)
(* most once per document written and per crash between the charge and the   *)
(* record of it; and documents and billed generations are bounded by the     *)
(* deliveries of the answers of generate-asertions                           *)
(* (update_client_consumed, publish_with_assertions, handle_message).        *)
THEOREM AccountedTheorem == QuotasSpec => []QuotasAreAccounted
<1>1. QuotasSpec => []QuotasInv
  BY InitQuotasInv, NextQuotasInv, PTL DEF QuotasSpec
<1> QED BY <1>1, QuotasInvImplies, PTL

-----------------------------------------------------------------------------
(* What a document and an update are                                       *)

IsDocument(d) ==
  d = [desired |-> d.desired, version |-> d.version, status |-> d.status, actual |-> d.actual]

IsUpdate(x) == x = [at |-> x.at, desired |-> x.desired, reply |-> x.reply]

\* The document was written for the update, and its result was not ...
Carried == {"pending", "announcing", "answered"}

\* ... or admin, which would write it, is gone.
OnItsWay == Carried \cup {"orphaned"}

Under == {"read", "versioned"} \cup OnItsWay

ShapeInv ==
  /\ updates = [u \in Update |-> updates[u]]
  /\ \A u \in Update :
       /\ IsUpdate(updates[u]) /\ updates[u].at \in {"none", "ended"} \cup Under
       /\ updates[u].at \in OnItsWay => IsDocument(document)
  /\ document = None \/ IsDocument(document)

\* Updates that come one after the other.
OneAtATime ==
  \A u, w \in Update : ~ Settled(u) /\ ~ Settled(w) => u = w

\* What admin and the service know of each other while an update is carried out.
CarriedInv ==
  \A u \in Update :
    /\ updates[u].at \in Carried => updates[u].desired = document.desired
    /\ updates[u].at = "answered" /\ updates[u].reply # None => service = updates[u].reply

SyncedInv ==
  synced => /\ service = document.desired
            /\ \A u \in Update : updates[u].at \notin OnItsWay

StatusInv ==
  \/ document = None /\ \A u \in Update : updates[u].at \notin OnItsWay
  \/ /\ document.status = "APPLIED" => document.actual = document.desired
     /\ document.status = "PENDING" => abandoned \/ \E u \in Update : updates[u].at \in Carried

CalmInv == OneAtATime /\ CarriedInv /\ SyncedInv /\ StatusInv

ConfigInv == ShapeInv /\ (~ raced => CalmInv)

LEMMA ConfigInvImplies == ConfigInv => DocumentIsHonest
<1> SUFFICES ASSUME ConfigInv, AtRest, ~ raced, document # None
             PROVE  /\ synced => service = document.desired
                    /\ document.status = "APPLIED" => document.actual = document.desired
                    /\ document.status = "PENDING" => abandoned
  BY DEF DocumentIsHonest
<1>1. CalmInv
  BY DEF ConfigInv
<1>2. \A u \in Update : updates[u].at \notin Carried
  BY DEF AtRest, Settled, Carried
<1> QED BY <1>1, <1>2 DEF CalmInv, SyncedInv, StatusInv

LEMMA InitConfigInv == ConfigInit => ConfigInv
<1> SUFFICES ASSUME ConfigInit PROVE ConfigInv
  OBVIOUS
<1>1. \A u \in Update : updates[u] = [at |-> "none", desired |-> Default, reply |-> None]
  BY DEF ConfigInit
<1>2. ShapeInv
  BY <1>1 DEF ConfigInit, ShapeInv, IsUpdate, OnItsWay, Carried
<1>3. CalmInv
  BY <1>1 DEF ConfigInit, CalmInv, OneAtATime, Settled, CarriedInv, SyncedInv, StatusInv, OnItsWay, Carried
<1> QED BY <1>2, <1>3 DEF ConfigInv

-----------------------------------------------------------------------------
(* The steps                                                               *)

\* An update that moves, and no other.
LEMMA Moves ==
  ASSUME ShapeInv, NEW u \in Update, NEW x, updates' = [updates EXCEPT ![u] = x], IsUpdate(x)
  PROVE  /\ updates'[u] = x
         /\ \A w \in Update \ {u} : updates'[w] = updates[w]
         /\ updates' = [w \in Update |-> updates'[w]]
         /\ \A w \in Update : IsUpdate(updates'[w])
<1>1. updates = [w \in Update |-> updates[w]] /\ \A w \in Update : IsUpdate(updates[w])
  BY DEF ShapeInv
<1>2. updates'[u] = x /\ \A w \in Update \ {u} : updates'[w] = updates[w]
  BY <1>1
<1> QED BY <1>1, <1>2

\* The step of an update that is the only one.
LEMMA OthersAreSettled ==
  ASSUME OneAtATime, NEW u \in Update, ~ Settled(u)
  PROVE  \A w \in Update \ {u} : Settled(w)
BY DEF OneAtATime

LEMMA ReadSteps ==
  ASSUME ConfigInv, NEW u \in Update, ReadCurrent(u) \/ ReadVersion(u)
  PROVE  ConfigInv'
<1>1. PICK x : /\ updates' = [updates EXCEPT ![u] = x]
               /\ IsUpdate(x) /\ x.at \in {"read", "versioned"}
  <2>1. CASE ReadCurrent(u)
    <3>1. PICK payload \in Payload :
            updates' = [updates EXCEPT ![u] =
              [at |-> "read", desired |-> Overlaid(service, payload), reply |-> None]]
      BY <2>1 DEF ReadCurrent
    <3>2. PICK x : x = [at |-> "read", desired |-> Overlaid(service, payload), reply |-> None]
      OBVIOUS
    <3>3. IsUpdate(x) /\ x.at = "read"
      BY <3>2 DEF IsUpdate
    <3>4. updates' = [updates EXCEPT ![u] = x]
      BY <3>1, <3>2
    <3> QED BY <3>3, <3>4
  <2>2. CASE ReadVersion(u)
    <3>1. PICK x : x = [updates[u] EXCEPT !.at = "versioned", !.desired.version = OldVersion + 1]
      OBVIOUS
    <3>2. IsUpdate(updates[u])
      BY DEF ConfigInv, ShapeInv
    <3>3. IsUpdate(x) /\ x.at = "versioned"
      BY <3>1, <3>2 DEF IsUpdate
    <3>4. updates' = [updates EXCEPT ![u] = x]
      BY <2>2, <3>1 DEF ReadVersion
    <3> QED BY <3>3, <3>4
  <2> QED BY <2>1, <2>2
<1>2. UNCHANGED <<document, service, synced, abandoned>>
  BY DEF ReadCurrent, ReadVersion, configHistories
<1>3. /\ updates'[u] = x
      /\ \A w \in Update \ {u} : updates'[w] = updates[w]
      /\ updates' = [w \in Update |-> updates'[w]]
      /\ \A w \in Update : IsUpdate(updates'[w])
  BY <1>1, Moves DEF ConfigInv
<1>4. ShapeInv'
  BY <1>1, <1>2, <1>3 DEF ConfigInv, ShapeInv, IsDocument, IsUpdate, OnItsWay, Carried, Under
<1>5. updates[u].at \notin OnItsWay
  BY DEF ReadCurrent, ReadVersion, OnItsWay, Carried
<1>6. ASSUME ~ raced'
      PROVE  CalmInv'
  <2>1. ~ raced /\ \A w \in Update \ {u} : Settled(w)
    <3>1. CASE ReadCurrent(u)
      BY <1>6, <3>1 DEF ReadCurrent
    <3>2. CASE ReadVersion(u)
      <4>1. ~ raced /\ ~ Settled(u)
        BY <1>6, <3>2 DEF ReadVersion, configHistories, Settled
      <4> QED BY <4>1, OthersAreSettled DEF ConfigInv, CalmInv
    <3> QED BY <3>1, <3>2
  <2>2. CalmInv
    BY <2>1 DEF ConfigInv
  <2>3. \A w \in Update \ {u} : Settled(w)'
    BY <1>3, <2>1 DEF Settled
  <2>4. OneAtATime'
    BY <2>3 DEF OneAtATime
  <2>5. \A w \in Update : updates'[w].at \in OnItsWay <=> updates[w].at \in OnItsWay
    BY <1>1, <1>3, <1>5 DEF OnItsWay, Carried
  <2>6. \A w \in Update : updates'[w].at \notin Carried
    BY <1>1, <1>3, <2>3 DEF Settled, Carried
  <2>7. \A w \in Update : updates[w].at \notin Carried
    BY <1>5, <2>1 DEF Settled, Carried, OnItsWay
  <2>8. CarriedInv'
    BY <2>6 DEF CarriedInv, Carried
  <2>9. SyncedInv'
    BY <1>2, <2>2, <2>5 DEF CalmInv, SyncedInv
  <2>10. StatusInv'
    BY <1>2, <2>2, <2>5, <2>7 DEF CalmInv, StatusInv
  <2> QED BY <2>4, <2>8, <2>9, <2>10 DEF CalmInv
<1> QED BY <1>4, <1>6 DEF ConfigInv

\* A step of an update that is under way, and with it perhaps of the service.
LEMMA CarriesOn ==
  ASSUME ConfigInv, NEW u \in Update, updates[u].at \in Under, NEW x,
         updates' = [updates EXCEPT ![u] = x], IsUpdate(x),
         x.at \in {"ended"} \cup OnItsWay,
         UNCHANGED <<raced, abandoned>>, IsDocument(document'),
         ~ raced =>
           /\ x.at \in Carried => x.desired = document'.desired
           /\ x.at = "answered" /\ x.reply # None => service' = x.reply
           /\ synced' => service' = document'.desired /\ x.at \notin OnItsWay
           /\ document'.status = "APPLIED" => document'.actual = document'.desired
           /\ document'.status = "PENDING" => abandoned \/ x.at \in Carried
  PROVE  ConfigInv'
<1>1. /\ updates'[u] = x
      /\ \A w \in Update \ {u} : updates'[w] = updates[w]
      /\ updates' = [w \in Update |-> updates'[w]]
      /\ \A w \in Update : IsUpdate(updates'[w])
  BY Moves DEF ConfigInv
<1>2. ShapeInv'
  BY <1>1 DEF ConfigInv, ShapeInv, Under, IsDocument, IsUpdate
<1>3. ASSUME ~ raced'
      PROVE  CalmInv'
  <2>1. ~ raced /\ CalmInv
    BY <1>3 DEF ConfigInv
  <2>2. ~ Settled(u)
    BY DEF Settled, Under, OnItsWay, Carried
  <2>3. \A w \in Update \ {u} : Settled(w)'
    BY <1>1, <2>1, <2>2, OthersAreSettled DEF CalmInv, Settled
  <2>4. \A w \in Update \ {u} : updates'[w].at \notin OnItsWay
    BY <2>3 DEF Settled, OnItsWay, Carried
  <2>5. OneAtATime'
    BY <2>3 DEF OneAtATime
  <2>6. CarriedInv'
    BY <1>1, <2>1, <2>4 DEF CarriedInv, OnItsWay, Carried
  <2>7. SyncedInv'
    BY <1>1, <2>1, <2>4 DEF SyncedInv
  <2>8. StatusInv'
    BY <1>1, <2>1 DEF StatusInv
  <2> QED BY <2>5, <2>6, <2>7, <2>8 DEF CalmInv
<1> QED BY <1>2, <1>3 DEF ConfigInv

LEMMA PendingStep ==
  ASSUME ConfigInv, NEW u \in Update, WritePending(u)
  PROVE  ConfigInv'
<1>1. PICK x : x = [updates[u] EXCEPT !.at = "pending"]
  OBVIOUS
<1>2. IsUpdate(updates[u]) /\ updates[u].at = "versioned"
  BY DEF ConfigInv, ShapeInv, WritePending
<1>3. IsUpdate(x) /\ x.at = "pending" /\ x.desired = updates[u].desired
  BY <1>1, <1>2 DEF IsUpdate
<1>4. updates' = [updates EXCEPT ![u] = x]
  BY <1>1 DEF WritePending, StepTo
<1>5. /\ IsDocument(document') /\ document'.status = "PENDING"
      /\ document'.desired = updates[u].desired
      /\ ~ synced' /\ UNCHANGED <<raced, abandoned>>
  BY DEF WritePending, IsDocument
<1> HIDE <1>1
<1>6. updates[u].at \in Under /\ x.at \in Carried
  BY <1>2, <1>3 DEF Under, Carried
<1>7. x.at \in OnItsWay
  BY <1>6 DEF OnItsWay
<1> QED BY <1>3, <1>4, <1>5, <1>6, <1>7, CarriesOn

\* What is known of an update whose document is written, and of all others.
LEMMA WhenOnItsWay ==
  ASSUME ConfigInv, NEW u \in Update, updates[u].at \in OnItsWay
  PROVE  /\ IsDocument(document) /\ IsUpdate(updates[u]) /\ updates[u].at \in Under
         /\ ~ raced =>
              /\ ~ synced
              /\ updates[u].at \in Carried => updates[u].desired = document.desired
              /\ updates[u].at = "answered" /\ updates[u].reply # None =>
                   service = updates[u].reply
              /\ document.status = "APPLIED" => document.actual = document.desired
              /\ document.status = "PENDING" /\ updates[u].at \notin Carried => abandoned
<1>1. IsDocument(document) /\ IsUpdate(updates[u]) /\ updates[u].at \in Under
  BY DEF ConfigInv, ShapeInv, Under
<1>2. ASSUME ~ raced
      PROVE  /\ ~ synced
             /\ updates[u].at \in Carried => updates[u].desired = document.desired
             /\ updates[u].at = "answered" /\ updates[u].reply # None =>
                  service = updates[u].reply
  BY <1>2 DEF ConfigInv, CalmInv, SyncedInv, CarriedInv
<1>3. ASSUME ~ raced
      PROVE  /\ document.status = "APPLIED" => document.actual = document.desired
             /\ document.status = "PENDING" /\ updates[u].at \notin Carried => abandoned
  <2>1. CalmInv
    BY <1>3 DEF ConfigInv
  <2>2. ~ Settled(u)
    BY DEF Settled, OnItsWay, Carried
  <2>3. \A w \in Update \ {u} : updates[w].at \notin Carried
    BY <2>1, <2>2, OthersAreSettled DEF CalmInv, Settled, Carried
  <2> QED BY <2>1, <2>3 DEF CalmInv, StatusInv
<1> QED BY <1>1, <1>2, <1>3

\* The answer of the service, or its failure, to an update that is on its way.
LEMMA PutSteps ==
  ASSUME ConfigInv, NEW u \in Update, Put(u) \/ Announce(u) \/ PutFails(u)
  PROVE  ConfigInv'
<1>1. updates[u].at \in {"pending", "orphaned", "announcing"}
  BY DEF Put, Announce, PutFails
<1>2. updates[u].at \in OnItsWay
  BY <1>1 DEF OnItsWay, Carried
<1>3. PICK before : before = updates[u]
  OBVIOUS
<1>4. PICK x : /\ updates' = [updates EXCEPT ![u] = x] /\ IsUpdate(x)
               /\ x.desired = before.desired
               /\ \/ x.at = "answered" /\ before.at # "orphaned"
                  \/ x.at = "ended" /\ before.at = "orphaned"
                  \/ x.at = "announcing" /\ before.at = "pending"
               /\ x.at = "answered" => x.reply = None \/ x.reply = service'
  <2>1. IsUpdate(before)
    BY <1>3 DEF ConfigInv, ShapeInv
  <2>2. ASSUME NEW reply, Answered(u, reply), reply = None \/ reply = service'
        PROVE  \E x : /\ updates' = [updates EXCEPT ![u] = x] /\ IsUpdate(x)
                      /\ x.desired = before.desired
                      /\ \/ x.at = "answered" /\ before.at # "orphaned"
                         \/ x.at = "ended" /\ before.at = "orphaned"
                      /\ x.at = "answered" => x.reply = None \/ x.reply = service'
    <3>1. PICK x : x = [before EXCEPT !.at = IF @ = "orphaned" THEN "ended" ELSE "answered",
                                      !.reply = reply]
      OBVIOUS
    <3>2. updates' = [updates EXCEPT ![u] = x]
      BY <1>3, <2>2, <3>1 DEF Answered
    <3>3. /\ IsUpdate(x) /\ x.desired = before.desired /\ x.reply = reply
          /\ x.at = IF before.at = "orphaned" THEN "ended" ELSE "answered"
      BY <2>1, <3>1 DEF IsUpdate
    <3> QED BY <2>2, <3>2, <3>3
  <2>3. \/ \E reply : Answered(u, reply) /\ (reply = None \/ reply = service')
        \/ before.at = "pending" /\ StepTo(u, "announcing")
    <3>1. CASE Put(u)
      BY <1>3, <3>1 DEF Put
    <3>2. CASE Announce(u)
      BY <3>2 DEF Announce
    <3>3. CASE PutFails(u)
      BY <3>3 DEF PutFails
    <3> QED BY <3>1, <3>2, <3>3
  <2>4. CASE before.at = "pending" /\ StepTo(u, "announcing")
    <3>1. PICK x : x = [before EXCEPT !.at = "announcing"]
      OBVIOUS
    <3>2. updates' = [updates EXCEPT ![u] = x]
      BY <1>3, <2>4, <3>1 DEF StepTo
    <3>3. IsUpdate(x) /\ x.desired = before.desired /\ x.at = "announcing"
      BY <2>1, <3>1 DEF IsUpdate
    <3> QED BY <2>4, <3>2, <3>3
  <2> QED BY <2>2, <2>3, <2>4
<1>5. UNCHANGED <<document, raced, synced, abandoned>>
  BY DEF Put, Announce, PutFails, configHistories
<1>6. x.at \in {"ended"} \cup OnItsWay /\ (before.at # "orphaned" <=> x.at \in Carried)
  BY <1>4 DEF OnItsWay, Carried
<1>7. before.at \in Carried <=> before.at # "orphaned"
  BY <1>1, <1>3 DEF Carried
<1>8. /\ IsDocument(document) /\ updates[u].at \in Under
      /\ ~ raced =>
           /\ ~ synced
           /\ before.at \in Carried => before.desired = document.desired
           /\ document.status = "APPLIED" => document.actual = document.desired
           /\ document.status = "PENDING" /\ before.at \notin Carried => abandoned
  BY <1>2, <1>3, WhenOnItsWay
<1> QED BY <1>4, <1>5, <1>6, <1>7, <1>8, CarriesOn

LEMMA ResultStep ==
  ASSUME ConfigInv, NEW u \in Update, WriteResult(u)
  PROVE  ConfigInv'
<1>1. PICK x : x = [updates[u] EXCEPT !.at = "ended"]
  OBVIOUS
<1>2. updates[u].at = "answered" /\ updates[u].at \in OnItsWay /\ updates[u].at \in Carried
  BY DEF WriteResult, OnItsWay, Carried
<1>3. /\ IsDocument(document) /\ IsUpdate(updates[u]) /\ updates[u].at \in Under
      /\ ~ raced =>
           /\ ~ synced
           /\ updates[u].desired = document.desired
           /\ updates[u].reply # None => service = updates[u].reply
  BY <1>2, WhenOnItsWay
<1>4. IsUpdate(x) /\ x.at = "ended"
  BY <1>1, <1>3 DEF IsUpdate
<1>5. updates' = [updates EXCEPT ![u] = x]
  BY <1>1 DEF WriteResult, StepTo
<1>6. UNCHANGED <<service, raced, abandoned>>
  BY DEF WriteResult
<1>7. /\ IsDocument(document') /\ document'.status \in {"APPLIED", "ERROR"}
      /\ document'.desired = document.desired
      /\ ~ raced => /\ synced' => service = document.desired
                    /\ document'.status = "APPLIED" => document'.actual = document.desired
  <2>1. CASE Matches(updates[u].desired, updates[u].reply)
    <3>1. /\ document' = [document EXCEPT !.actual = updates[u].reply, !.status = "APPLIED"]
          /\ updates[u].reply = updates[u].desired /\ updates[u].reply # None
      BY <2>1 DEF WriteResult, Matches
    <3> QED BY <1>3, <3>1 DEF IsDocument
  <2>2. CASE ~ Matches(updates[u].desired, updates[u].reply)
    <3>1. document' = [document EXCEPT !.status = "ERROR"] /\ synced' = synced
      BY <2>2 DEF WriteResult
    <3> QED BY <1>3, <3>1 DEF IsDocument
  <2> QED BY <2>1, <2>2
<1>8. x.at \in {"ended"} \cup OnItsWay /\ x.at \notin OnItsWay
  BY <1>4 DEF OnItsWay, Carried
<1>9. x.at \notin Carried
  BY <1>8 DEF OnItsWay
<1> HIDE <1>1
<1> QED BY <1>3, <1>4, <1>5, <1>6, <1>7, <1>8, <1>9, CarriesOn

\* The service stops or starts.
LEMMA ServiceSteps ==
  ASSUME ConfigInv, Stop \/ Boot
  PROVE  ConfigInv'
<1>1. UNCHANGED <<document, updates, abandoned>>
  BY DEF Stop, Boot
<1>2. ShapeInv'
  BY <1>1 DEF ConfigInv, ShapeInv
<1>3. raced' = (raced \/ \E u \in Update : ~ Settled(u))
  BY DEF Stop, Boot
<1>4. ASSUME ~ raced'
      PROVE  CalmInv'
  <2>1. CalmInv /\ \A u \in Update : Settled(u)
    BY <1>3, <1>4 DEF ConfigInv
  <2>2. \A u \in Update : updates[u].at \notin OnItsWay /\ updates[u].at \notin Carried
    BY <2>1 DEF Settled, OnItsWay, Carried
  <2>3. OneAtATime'
    BY <1>1, <2>1 DEF OneAtATime, Settled
  <2>4. CarriedInv'
    BY <1>1, <2>2 DEF CarriedInv, Carried
  <2>5. synced' => service' = document.desired
    BY DEF Stop, Boot, Override
  <2>6. SyncedInv'
    BY <1>1, <2>2, <2>5 DEF SyncedInv
  <2>7. StatusInv'
    BY <1>1, <2>1 DEF CalmInv, StatusInv
  <2> QED BY <2>3, <2>4, <2>6, <2>7 DEF CalmInv
<1> QED BY <1>2, <1>4 DEF ConfigInv

LEMMA AdminStep ==
  ASSUME ConfigInv, AdminRestarts
  PROVE  ConfigInv'
<1>1. UNCHANGED <<document, service, raced, synced>>
  BY DEF AdminRestarts
<1>2. \A u \in Update :
        /\ IsUpdate(updates'[u])
        /\ Settled(u) => updates'[u] = updates[u]
        /\ ~ Settled(u) => /\ updates'[u].at \in {"orphaned", "ended"} /\ abandoned'
                           /\ updates'[u].at = "orphaned" => updates[u].at \in OnItsWay
  <2> SUFFICES ASSUME NEW u \in Update
               PROVE  /\ IsUpdate(updates'[u])
                      /\ Settled(u) => updates'[u] = updates[u]
                      /\ ~ Settled(u) =>
                           /\ updates'[u].at \in {"orphaned", "ended"} /\ abandoned'
                           /\ updates'[u].at = "orphaned" => updates[u].at \in OnItsWay
    OBVIOUS
  <2>1. IsUpdate(updates[u])
    BY DEF ConfigInv, ShapeInv
  <2>2. CASE Settled(u)
    BY <2>1, <2>2 DEF AdminRestarts
  <2>3. CASE ~ Settled(u)
    <3>1. /\ abandoned'
          /\ updates'[u] = [updates[u] EXCEPT
               !.at = IF @ \in {"pending", "orphaned"} THEN "orphaned" ELSE "ended"]
      BY <2>3 DEF AdminRestarts
    <3>2. IsUpdate(updates'[u]) /\ updates'[u].at =
            IF updates[u].at \in {"pending", "orphaned"} THEN "orphaned" ELSE "ended"
      BY <2>1, <3>1 DEF IsUpdate
    <3> QED BY <2>3, <3>1, <3>2 DEF OnItsWay, Carried
  <2> QED BY <2>2, <2>3
<1>3. updates' = [u \in Update |-> updates'[u]]
  BY DEF AdminRestarts
<1>4. \A u \in Update : /\ updates'[u].at \notin Carried
                        /\ updates'[u].at \in OnItsWay => updates[u].at \in OnItsWay
  BY <1>2 DEF Settled, OnItsWay, Carried
<1>5. ShapeInv'
  <2>1. \A u \in Update : updates'[u].at \in {"none", "ended"} \cup Under
    BY <1>2 DEF ConfigInv, ShapeInv, Under, OnItsWay
  <2> QED BY <1>1, <1>2, <1>3, <1>4, <2>1 DEF ConfigInv, ShapeInv, IsDocument
<1>6. ASSUME ~ raced'
      PROVE  CalmInv'
  <2>1. CalmInv
    BY <1>1, <1>6 DEF ConfigInv
  <2>2. OneAtATime'
    <3>1. \A u \in Update : Settled(u) => Settled(u)'
      BY <1>2 DEF Settled
    <3> QED BY <2>1, <3>1 DEF CalmInv, OneAtATime
  <2>3. CarriedInv'
    BY <1>4 DEF CarriedInv, Carried
  <2>4. SyncedInv'
    BY <1>1, <1>4, <2>1 DEF CalmInv, SyncedInv
  <2>5. abandoned => abandoned'
    BY DEF AdminRestarts
  <2>6. (\E u \in Update : updates[u].at \in Carried) => abandoned'
    BY <1>2 DEF Settled, Carried
  <2>7. StatusInv'
    BY <1>1, <1>4, <2>1, <2>5, <2>6 DEF CalmInv, StatusInv
  <2> QED BY <2>2, <2>3, <2>4, <2>7 DEF CalmInv
<1> QED BY <1>5, <1>6 DEF ConfigInv

LEMMA NextConfigInv == ConfigInv /\ [ConfigNext]_configVars => ConfigInv'
<1> SUFFICES ASSUME ConfigInv, [ConfigNext]_configVars
             PROVE  ConfigInv'
  OBVIOUS
<1>1. ASSUME NEW u \in Update, ReadCurrent(u) \/ ReadVersion(u)
      PROVE  ConfigInv'
  BY <1>1, ReadSteps
<1>2. ASSUME NEW u \in Update, WritePending(u)
      PROVE  ConfigInv'
  BY <1>2, PendingStep
<1>3. ASSUME NEW u \in Update, Put(u) \/ Announce(u) \/ PutFails(u)
      PROVE  ConfigInv'
  BY <1>3, PutSteps
<1>4. ASSUME NEW u \in Update, WriteResult(u)
      PROVE  ConfigInv'
  BY <1>4, ResultStep
<1>5. CASE Stop \/ Boot
  BY <1>5, ServiceSteps
<1>6. CASE AdminRestarts
  BY <1>6, AdminStep
<1>7. CASE UNCHANGED configVars
  BY <1>7 DEF configVars, configHistories, ConfigInv, ShapeInv, CalmInv, OneAtATime, Settled,
              CarriedInv, SyncedInv, StatusInv, IsDocument, IsUpdate
<1> QED BY <1>1, <1>2, <1>3, <1>4, <1>5, <1>6, <1>7 DEF ConfigNext

(* At rest, and as long as updates came one after the other, the document of *)
(* a service says of it what is true (persist_and_apply_llm_config), for any *)
(* number of updates, models and restarts.                                   *)
THEOREM ConfigTheorem == ConfigSpec => []DocumentIsHonest
<1>1. ConfigSpec => []ConfigInv
  BY InitConfigInv, NextConfigInv, PTL DEF ConfigSpec
<1> QED BY <1>1, ConfigInvImplies, PTL

-----------------------------------------------------------------------------
(* The verdict on an assertion.                                            *)

CachedProfile == [kind : Kind, reputation : Nat] \cup {NoProfile}

VoteRecord ==
  {NoVote, Error} \cup {Vote(a, w) : a \in Approval, w \in Nat}
                  \cup {OldVote(a, p) : a \in Approval, p \in Profiles \cup {NoProfile}}

VerdictsTypes ==
  /\ weights \in Policies /\ loaded \in Policies
  /\ profile \in [Voter -> CachedProfile]
  /\ votes \in [Voter -> VoteRecord]

\* Validators that answered so.
Supporters(approval) == {v \in Completed : votes[v].approval = approval}

\* What each of them weighs.
Details(approval) == [v \in Supporters(approval) |-> Detail(v, weights)]

\* What the cache keeps of a validator is a profile.
LEMMA CachedIsAProfile ==
  ASSUME NEW p \in Profiles \cup {NoProfile}
  PROVE  Cached(p) \in CachedProfile
BY VerdictsAssumption DEF Cached, CachedProfile

\* A weight is a natural number.
LEMMA WeightIsNatural ==
  ASSUME NEW p \in CachedProfile, NEW policy \in Policies
  PROVE  WeightOf(p, policy) \in Nat
<1> DEFINE q == IF p = NoProfile THEN LeastKind ELSE p
<1>1. q.kind \in Kind /\ q.reputation \in Nat
  BY VerdictsAssumption DEF CachedProfile, LeastKind
<1>2. policy \in [Kind -> Nat]
  BY VerdictsAssumption
<1>3. policy[q.kind] \in Nat
  BY <1>1, <1>2
<1>4. \A a, b \in Nat : a * b \in Nat
  OBVIOUS
<1>5. WeightOf(p, policy) = policy[q.kind] * q.reputation
  BY DEF WeightOf
<1> HIDE DEF q
<1> QED BY <1>1, <1>3, <1>4, <1>5

\* Types hold at first and are kept.
LEMMA InitVerdictsTypes == VerdictsInit => VerdictsTypes
<1> SUFFICES ASSUME VerdictsInit PROVE VerdictsTypes
  OBVIOUS
<1>1. weights \in Policies /\ loaded \in Policies
  BY VerdictsAssumption DEF VerdictsInit
<1>2. profile \in [Voter -> CachedProfile]
  <2>1. PICK p \in [Voter -> Profiles \cup {NoProfile}] : profile = [v \in Voter |-> Cached(p[v])]
    BY DEF VerdictsInit
  <2>2. \A v \in Voter : Cached(p[v]) \in CachedProfile
    BY CachedIsAProfile
  <2> QED BY <2>1, <2>2
<1>3. votes \in [Voter -> VoteRecord]
  <2>1. votes \in [Voter -> {NoVote} \cup {OldVote(a, p) : a \in Approval, p \in {NoProfile} \cup Profiles}]
    BY DEF VerdictsInit
  <2>2. {NoVote} \cup {OldVote(a, p) : a \in Approval, p \in {NoProfile} \cup Profiles} \subseteq VoteRecord
    BY DEF VoteRecord
  <2> QED BY <2>1, <2>2
<1> QED BY <1>1, <1>2, <1>3 DEF VerdictsTypes

LEMMA NextVerdictsTypes == VerdictsTypes /\ [VerdictsNext]_verdictVars => VerdictsTypes'
<1> SUFFICES ASSUME VerdictsTypes, [VerdictsNext]_verdictVars PROVE VerdictsTypes'
  OBVIOUS
<1>1. CASE SetWeights
  BY <1>1 DEF SetWeights, VerdictsTypes
<1>2. CASE LoadWeights
  BY <1>2, VerdictsAssumption DEF LoadWeights, VerdictsTypes
<1>3. ASSUME NEW v \in Voter, UpdateProfile(v) PROVE VerdictsTypes'
  <2>1. PICK p \in Profiles \cup {NoProfile} : profile' = [profile EXCEPT ![v] = Cached(p)]
    BY <1>3 DEF UpdateProfile
  <2>2. Cached(p) \in CachedProfile
    BY CachedIsAProfile
  <2> QED BY <1>3, <2>1, <2>2 DEF UpdateProfile, VerdictsTypes
<1>4. ASSUME NEW v \in Voter, Record(v) PROVE VerdictsTypes'
  <2>1. WeightOf(profile[v], loaded) \in Nat
    BY WeightIsNatural DEF VerdictsTypes
  <2>2. \A a \in Approval : Vote(a, WeightOf(profile[v], loaded)) \in VoteRecord
    BY <2>1 DEF VoteRecord
  <2>3. Error \in VoteRecord
    BY DEF VoteRecord
  <2>4. votes' \in [Voter -> VoteRecord]
    BY <1>4, <2>2, <2>3 DEF Record, VerdictsTypes
  <2> QED BY <1>4, <2>4 DEF Record, VerdictsTypes
<1>5. CASE UNCHANGED verdictVars
  BY <1>5 DEF VerdictsTypes, verdictVars
<1> QED BY <1>1, <1>2, <1>3, <1>4, <1>5 DEF VerdictsNext

\* What a validation weighs in the verdict is a natural number.
LEMMA DetailIsNatural ==
  ASSUME VerdictsTypes, NEW v \in Completed
  PROVE  Detail(v, weights) \in Nat
<1>1. v \in Voter /\ votes[v].status = "COMPLETED" /\ votes[v] \in VoteRecord
  BY DEF Completed, VerdictsTypes
<1>2. votes[v] # NoVote /\ votes[v] # Error
  BY <1>1 DEF NoVote, Error
<1>3. CASE \E a \in Approval, w \in Nat : votes[v] = Vote(a, w)
  <2>1. PICK a \in Approval, w \in Nat : votes[v] = Vote(a, w)
    BY <1>3
  <2>2. ~ IsOld(votes[v]) /\ votes[v].frozen = w
    BY <2>1 DEF IsOld, Vote
  <2> QED BY <2>2 DEF Detail
<1>4. CASE \E a \in Approval, p \in Profiles \cup {NoProfile} : votes[v] = OldVote(a, p)
  <2>1. PICK a \in Approval, p \in Profiles \cup {NoProfile} : votes[v] = OldVote(a, p)
    BY <1>4
  <2>2. IsOld(votes[v]) /\ votes[v].known = p
    BY <2>1 DEF IsOld, OldVote
  <2> DEFINE known == IF p # NoProfile THEN p ELSE profile[v]
  <2>3. known \in CachedProfile
    BY <1>1, VerdictsAssumption DEF VerdictsTypes, CachedProfile
  <2>4. Detail(v, weights) = WeightOf(known, weights)
    BY <2>2 DEF Detail
  <2>5. weights \in Policies
    BY DEF VerdictsTypes
  <2> HIDE DEF known
  <2> QED BY <2>3, <2>4, <2>5, WeightIsNatural
<1> QED BY <1>1, <1>2, <1>3, <1>4 DEF VoteRecord

\* The weight behind an approval is the sum over its supporters.
LEMMA RawWeightIsASum ==
  ASSUME VerdictsTypes, NEW a
  PROVE  /\ RawWeight(a, weights) = SumFunctionOnSet(Details(a), Supporters(a))
         /\ RawWeight(a, weights) \in Int
         /\ IsFiniteSet(Supporters(a)) /\ \A v \in Supporters(a) : Details(a)[v] \in Nat
<1>1. RawWeight(a, weights) = SumFunctionOnSet(Details(a), Supporters(a))
  BY DEF RawWeight, SumFunction, Details, Supporters
<1>2. IsFiniteSet(Supporters(a))
  <2>1. Supporters(a) \subseteq Voter
    BY DEF Supporters, Completed
  <2> QED BY <2>1, VerdictsAssumption, FS_Subset
<1>3. \A v \in Supporters(a) : Details(a)[v] \in Nat
  BY DetailIsNatural DEF Supporters, Details
<1> QED BY <1>1, <1>2, <1>3, SumIsInt

\* It changes only with a supporter or with what one weighs.
LEMMA RawWeightStandsStill ==
  ASSUME NEW a, Supporters(a)' = Supporters(a),
         \A v \in Supporters(a) : Detail(v, weights)' = Detail(v, weights)
  PROVE  RawWeight(a, weights)' = RawWeight(a, weights)
<1>1. Details(a)' = Details(a)
  BY DEF Details
<1>2. RawWeight(a, weights) = SumFunctionOnSet(Details(a), Supporters(a))
  BY DEF RawWeight, SumFunction, Details, Supporters
<1>3. RawWeight(a, weights)' = SumFunctionOnSet(Details(a)', Supporters(a)')
  BY DEF RawWeight, SumFunction, Details, Supporters
<1> QED BY <1>1, <1>2, <1>3

\* A new supporter adds its own weight.
LEMMA VoteAddsItsWeight ==
  ASSUME VerdictsTypes, VerdictsTypes', NEW a, NEW v \in Voter, NEW w \in Nat, v \notin Supporters(a),
         Supporters(a)' = Supporters(a) \cup {v}, Detail(v, weights)' = w,
         \A u \in Supporters(a) : Detail(u, weights)' = Detail(u, weights)
  PROVE  RawWeight(a, weights)' = w + RawWeight(a, weights)
<1> DEFINE S == Supporters(a)
           T == Supporters(a)'
           f == Details(a)
           g == Details(a)'
<1>1. /\ RawWeight(a, weights) = SumFunctionOnSet(f, S)
      /\ IsFiniteSet(S) /\ \A u \in S : f[u] \in Int
  BY RawWeightIsASum
<1>2. RawWeight(a, weights)' = SumFunctionOnSet(g, T)
  BY DEF RawWeight, SumFunction, Details, Supporters
<1>3. T \ {v} = S /\ v \in T
  OBVIOUS
<1>4. g[v] = w /\ \A u \in S : g[u] = f[u]
  BY DEF Details
<1>5. IsFiniteSet(T)
  BY <1>1, FS_AddElement
<1>6. \A u \in T : g[u] \in Int
  BY <1>1, <1>4
<1> HIDE DEF S, T, f, g
<1>7. SumFunctionOnSet(g, T) = g[v] + SumFunctionOnSet(g, T \ {v})
  BY <1>3, <1>5, <1>6, SumTakesAway
<1>8. SumFunctionOnSet(g, S) = SumFunctionOnSet(f, S)
  BY <1>1, <1>4, SumOfSame
<1> QED BY <1>1, <1>2, <1>3, <1>4, <1>7, <1>8

\* A verdict depends on the three weights only.
LEMMA OutcomeOfWeights ==
  ASSUME \A a \in Approval : RawWeight(a, weights)' = RawWeight(a, weights)
  PROVE  Verdict' = Verdict
<1>1. /\ RawWeight("TRUE", weights)' = RawWeight("TRUE", weights)
      /\ RawWeight("FALSE", weights)' = RawWeight("FALSE", weights)
      /\ RawWeight("UNKNOWN", weights)' = RawWeight("UNKNOWN", weights)
  BY DEF Approval
<1> QED BY <1>1 DEF Verdict, Outcome

\* Frozen weights make a verdict that stands while nothing is recorded.
LEMMA FrozenVerdictStands ==
  ASSUME votes' = votes, \A v \in Completed : ~ IsOld(votes[v])
  PROVE  Verdict' = Verdict
<1> SUFFICES ASSUME NEW a \in Approval PROVE RawWeight(a, weights)' = RawWeight(a, weights)
  BY OutcomeOfWeights
<1>1. Supporters(a)' = Supporters(a)
  BY DEF Supporters, Completed
<1>2. ASSUME NEW v \in Supporters(a) PROVE Detail(v, weights)' = Detail(v, weights)
  <2>1. ~ IsOld(votes[v]) /\ ~ IsOld(votes[v])'
    BY DEF Supporters
  <2> QED BY <2>1 DEF Detail
<1> QED BY <1>1, <1>2, RawWeightStandsStill

\* What a recorded validation changes.
LEMMA RecordedVote ==
  ASSUME VerdictsTypes, VerdictsTypes', NEW v \in Voter, Record(v), votes' # votes
  PROVE  /\ votes'[v] = Error => Verdict' = Verdict
         /\ votes'[v] # Error =>
              \E b \in Approval, w \in Nat :
                /\ votes'[v] = Vote(b, w)
                /\ RawWeight(b, weights)' = w + RawWeight(b, weights)
                /\ \A a \in Approval : a # b => RawWeight(a, weights)' = RawWeight(a, weights)
<1>0. votes[v] = NoVote /\ v \notin Completed /\ UNCHANGED <<weights, loaded, profile>>
  BY DEF Record, Completed, NoVote
<1>1. \A u \in Voter : u # v => votes'[u] = votes[u] /\ Detail(u, weights)' = Detail(u, weights)
  <2>1. \A u \in Voter : u # v => votes'[u] = votes[u]
    BY DEF Record, VerdictsTypes
  <2> QED BY <1>0, <2>1 DEF Detail
<1>2. CASE votes'[v] = Error
  <2>1. \A a \in Approval : Supporters(a)' = Supporters(a)
    <3> SUFFICES ASSUME NEW a \in Approval PROVE Supporters(a)' = Supporters(a)
      OBVIOUS
    <3>1. Completed' = Completed
      BY <1>0, <1>1, <1>2 DEF Completed, Error
    <3> QED BY <1>0, <1>1, <3>1 DEF Supporters, Completed
  <2>2. \A a \in Approval : \A u \in Supporters(a) : Detail(u, weights)' = Detail(u, weights)
    BY <1>0, <1>1 DEF Supporters, Completed
  <2>3. \A a \in Approval : RawWeight(a, weights)' = RawWeight(a, weights)
    BY <2>1, <2>2, RawWeightStandsStill
  <2> QED BY <1>2, <2>3, OutcomeOfWeights
<1>3. CASE votes'[v] # Error
  <2>1. PICK b \in Approval : votes' = [votes EXCEPT ![v] = Vote(b, WeightOf(profile[v], loaded))]
    BY <1>3 DEF Record, VerdictsTypes
  <2>2. PICK w \in Nat : w = WeightOf(profile[v], loaded)
    BY WeightIsNatural DEF VerdictsTypes
  <2>3. votes'[v] = Vote(b, w)
    BY <2>1, <2>2 DEF VerdictsTypes
  <2>4. Completed' = Completed \cup {v} /\ votes'[v].approval = b
    BY <1>0, <1>1, <2>3 DEF Completed, Vote
  <2>5. Detail(v, weights)' = w
    <3>1. ~ IsOld(votes'[v]) /\ votes'[v].frozen = w
      BY <2>3 DEF IsOld, Vote
    <3> QED BY <3>1 DEF Detail, IsOld
  <2>6. RawWeight(b, weights)' = w + RawWeight(b, weights)
    <3>1. Supporters(b)' = Supporters(b) \cup {v} /\ v \notin Supporters(b)
      BY <1>0, <1>1, <2>4 DEF Supporters, Completed
    <3>2. \A u \in Supporters(b) : Detail(u, weights)' = Detail(u, weights)
      BY <1>0, <1>1 DEF Supporters, Completed
    <3> QED BY <2>5, <3>1, <3>2, VoteAddsItsWeight
  <2>7. ASSUME NEW a \in Approval, a # b PROVE RawWeight(a, weights)' = RawWeight(a, weights)
    <3>1. Supporters(a)' = Supporters(a)
      BY <1>0, <1>1, <2>4, <2>7 DEF Supporters, Completed
    <3>2. \A u \in Supporters(a) : Detail(u, weights)' = Detail(u, weights)
      BY <1>0, <1>1 DEF Supporters, Completed
    <3> QED BY <3>1, <3>2, RawWeightStandsStill
  <2> QED BY <1>3, <2>3, <2>6, <2>7
<1> QED BY <1>2, <1>3

\* What one more vote can do to the verdict.
LEMMA VoteMovesTheVerdict ==
  ASSUME VerdictsTypes, VerdictsTypes', NEW b \in Approval, NEW w \in Nat,
         RawWeight(b, weights)' = w + RawWeight(b, weights),
         \A a \in Approval : a # b => RawWeight(a, weights)' = RawWeight(a, weights)
  PROVE  /\ w = 0 => Verdict' = Verdict
         /\ b = "UNKNOWN" => Verdict' \in {Verdict, "UNKNOWN"}
         /\ b # "UNKNOWN" /\ Verdict = b => Verdict' = Verdict
<1> DEFINE W(a) == RawWeight(a, weights)
<1>1. W("TRUE") \in Int /\ W("FALSE") \in Int /\ W("UNKNOWN") \in Int
  BY RawWeightIsASum
<1>2. Verdict = CASE W("TRUE") + W("FALSE") <= W("UNKNOWN") -> "UNKNOWN"
                  [] W("TRUE") = W("FALSE") -> "UNKNOWN"
                  [] W("TRUE") > W("FALSE") -> "TRUE"
                  [] OTHER -> "FALSE"
  BY DEF Verdict, Outcome
<1>3. Verdict' = CASE W("TRUE")' + W("FALSE")' <= W("UNKNOWN")' -> "UNKNOWN"
                   [] W("TRUE")' = W("FALSE")' -> "UNKNOWN"
                   [] W("TRUE")' > W("FALSE")' -> "TRUE"
                   [] OTHER -> "FALSE"
  BY DEF Verdict, Outcome
<1>4. Approval = {"TRUE", "FALSE", "UNKNOWN"} /\ W(b)' = w + W(b) /\ \A a \in Approval : a # b => W(a)' = W(a)
  BY DEF Approval
<1> HIDE DEF W
<1>5. CASE b = "TRUE"
  <2>1. W("TRUE")' = w + W("TRUE") /\ W("FALSE")' = W("FALSE") /\ W("UNKNOWN")' = W("UNKNOWN")
    BY <1>4, <1>5
  <2> QED BY <1>1, <1>2, <1>3, <1>5, <2>1
<1>6. CASE b = "FALSE"
  <2>1. W("TRUE")' = W("TRUE") /\ W("FALSE")' = w + W("FALSE") /\ W("UNKNOWN")' = W("UNKNOWN")
    BY <1>4, <1>6
  <2> QED BY <1>1, <1>2, <1>3, <1>6, <2>1
<1>7. CASE b = "UNKNOWN"
  <2>1. W("TRUE")' = W("TRUE") /\ W("FALSE")' = W("FALSE") /\ W("UNKNOWN")' = w + W("UNKNOWN")
    BY <1>4, <1>7
  <2> QED BY <1>1, <1>2, <1>3, <1>7, <2>1
<1> QED BY <1>4, <1>5, <1>6, <1>7

\* Only the recording of a validation touches the validations.
LEMMA OnlyRecordVotes ==
  ASSUME [VerdictsNext]_verdictVars, votes' # votes
  PROVE  \E v \in Voter : Record(v)
BY DEF VerdictsNext, SetWeights, LoadWeights, UpdateProfile, verdictVars

\* The verdict on the assertion follows its votes and nothing else, for any
\* validators, types, weights and reputations.
THEOREM VerdictTheorem == VerdictsSpec => VerdictFollowsVotes
<1> DEFINE Follows == IF votes' = votes
       THEN (\A v \in Completed : ~ IsOld(votes[v])) => Verdict' = Verdict
       ELSE \A v \in Voter : votes'[v] # votes[v] =>
              CASE votes'[v] = Error \/ votes'[v].frozen = 0 -> Verdict' = Verdict
                [] votes'[v].approval = "UNKNOWN" -> Verdict' \in {Verdict, "UNKNOWN"}
                [] OTHER -> Verdict = votes'[v].approval => Verdict' = Verdict
<1>1. VerdictsTypes /\ VerdictsTypes' /\ [VerdictsNext]_verdictVars => [Follows]_verdictVars
  <2> SUFFICES ASSUME VerdictsTypes, VerdictsTypes', [VerdictsNext]_verdictVars PROVE Follows
    OBVIOUS
  <2>1. CASE votes' = votes
    BY <2>1, FrozenVerdictStands
  <2>2. CASE votes' # votes
    <3> SUFFICES ASSUME NEW v \in Voter, votes'[v] # votes[v]
                 PROVE  CASE votes'[v] = Error \/ votes'[v].frozen = 0 -> Verdict' = Verdict
                          [] votes'[v].approval = "UNKNOWN" -> Verdict' \in {Verdict, "UNKNOWN"}
                          [] OTHER -> Verdict = votes'[v].approval => Verdict' = Verdict
      BY <2>2
    <3>1. Record(v)
      <4>1. PICK u \in Voter : Record(u)
        BY <2>2, OnlyRecordVotes
      <4>2. u = v
        BY <4>1 DEF Record, VerdictsTypes
      <4> QED BY <4>1, <4>2
    <3>2. CASE votes'[v] = Error
      <4>1. Verdict' = Verdict
        BY <2>2, <3>1, <3>2, RecordedVote
      <4> QED BY <3>2, <4>1
    <3>3. CASE votes'[v] # Error
      <4>1. PICK b \in Approval, w \in Nat :
                /\ votes'[v] = Vote(b, w)
                /\ RawWeight(b, weights)' = w + RawWeight(b, weights)
                /\ \A a \in Approval : a # b => RawWeight(a, weights)' = RawWeight(a, weights)
        BY <2>2, <3>1, <3>3, RecordedVote
      <4>2. /\ w = 0 => Verdict' = Verdict
            /\ b = "UNKNOWN" => Verdict' \in {Verdict, "UNKNOWN"}
            /\ b # "UNKNOWN" /\ Verdict = b => Verdict' = Verdict
        BY <4>1, VoteMovesTheVerdict
      <4>3. votes'[v].approval = b /\ votes'[v].frozen = w
        BY <4>1 DEF Vote
      <4> HIDE DEF Verdict
      <4> QED BY <3>3, <4>2, <4>3
    <3> QED BY <3>2, <3>3
  <2> QED BY <2>1, <2>2
<1> QED BY <1>1, InitVerdictsTypes, NextVerdictsTypes, PTL DEF VerdictsSpec, VerdictFollowsVotes

-----------------------------------------------------------------------------
(* The models recommended.                                                 *)

AdviceTypes ==
  /\ prices \in [LanguageModel -> Nat \cup {Unknown}]
  /\ running \in [Target -> LanguageModel]
  /\ cap \in Nat \cup {Unknown}
  /\ listed \subseteq Target
  /\ options \in [Target -> [Tier -> LanguageModel \cup {Unknown}]]
  /\ totals \in [Tier \cup {"current"} -> Int \cup {Unknown}]
  /\ turn \in 0..4

\* An option is a model the catalog has a price for.
OptionsArePriced ==
  \A t \in Target : \A tier \in Tier : options[t][tier] # Unknown => prices[options[t][tier]] \in Nat

\* A tier that is done.
Capped(tier) ==
  cap # Unknown =>
    IF totals[tier] = Unknown
      THEN /\ \A t \in listed : options[t][tier] = Unknown
           /\ totals["current"] = Unknown \/ totals["current"] > cap
      ELSE totals[tier] = NewsCost(tier) /\ totals[tier] <= cap

\* The tiers before the one under way are done, and the total of what is
\* deployed is what it costs.
AdviceInv ==
  /\ AdviceTypes
  /\ OptionsArePriced
  /\ turn >= 2 => totals["current"] = NewsCost("current")
  /\ \A i \in 1..3 : i < turn => Capped(Tiers[i])

-----------------------------------------------------------------------------
\* The tiers are three different ones.
LEMMA TiersAreThree ==
  /\ Tier = {"premium", "similar", "budget"}
  /\ \A i \in 1..3 : Tiers[i] \in Tier /\ Tiers[i] # "current"
  /\ \A i, j \in 1..3 : Tiers[i] = Tiers[j] => i = j
<1>1. Tiers[1] = "premium" /\ Tiers[2] = "similar" /\ Tiers[3] = "budget"
  BY DEF Tiers
<1>2. \A i \in 1..3 : i = 1 \/ i = 2 \/ i = 3
  OBVIOUS
<1> QED BY <1>1, <1>2 DEF Tier

\* How often a target runs for one news item is a natural number.
LEMMA ExecutionsAreCounted ==
  ASSUME AdviceTypes, NEW t \in Target
  PROVE  Executions(t) \in Nat
<1>1. Assertions \in Nat /\ IsFiniteSet(Target)
  BY RecommendationsAssumption
<1>2. Cardinality({u \in listed : Work[u] = "local"}) \in Nat
  <2>1. {u \in listed : Work[u] = "local"} \subseteq Target
    BY DEF AdviceTypes
  <2> QED BY <1>1, <2>1, FS_Subset, FS_CardinalityType
<1>3. \A a, b \in Nat : a * b \in Nat
  OBVIOUS
<1> QED BY <1>1, <1>2, <1>3 DEF Executions

\* What counts for a target: its option's price, or what is deployed.
LEMMA PriceOrUnknown ==
  ASSUME AdviceTypes, OptionsArePriced, NEW t \in Target, NEW tier \in Tier \cup {"current"}
  PROVE  /\ CurrentCost(t) \in Nat \cup {Unknown}
         /\ Chosen(t, tier) \in Nat \cup {Unknown}
         /\ tier = "current" => Chosen(t, tier) = CurrentCost(t)
         /\ tier # "current" /\ options[t][tier] = Unknown => Chosen(t, tier) = CurrentCost(t)
         /\ tier # "current" /\ options[t][tier] # Unknown =>
              Chosen(t, tier) = prices[options[t][tier]] /\ Chosen(t, tier) \in Nat
<1>1. CurrentCost(t) \in Nat \cup {Unknown}
  BY DEF AdviceTypes, CurrentCost
<1> QED BY <1>1 DEF OptionsArePriced, Chosen

\* Targets that run, and what each contributes to the cost.
Counted == {t \in listed : Executions(t) > 0}

Terms(tier) == [t \in Counted |-> Chosen(t, tier) * Executions(t)]

\* The cost of a news item is unknown, or the sum over the targets that run.
LEMMA NewsCostIsASum ==
  ASSUME AdviceTypes, OptionsArePriced, NEW tier \in Tier \cup {"current"}
  PROVE  IF \E t \in Counted : Chosen(t, tier) = Unknown THEN NewsCost(tier) = Unknown
         ELSE /\ NewsCost(tier) = SumFunctionOnSet(Terms(tier), Counted)
              /\ NewsCost(tier) \in Int /\ NewsCost(tier) # Unknown
              /\ IsFiniteSet(Counted) /\ \A t \in Counted : Terms(tier)[t] \in Int
<1>1. CASE \E t \in Counted : Chosen(t, tier) = Unknown
  BY <1>1 DEF NewsCost, Counted
<1>2. CASE ~ \E t \in Counted : Chosen(t, tier) = Unknown
  <2>1. NewsCost(tier) = SumFunctionOnSet(Terms(tier), Counted)
    BY <1>2 DEF NewsCost, Counted, Terms
  <2>2. Counted \subseteq Target
    BY DEF Counted, AdviceTypes
  <2>3. IsFiniteSet(Counted)
    BY <2>2, RecommendationsAssumption, FS_Subset
  <2>4. \A t \in Counted : Terms(tier)[t] \in Int
    <3> SUFFICES ASSUME NEW t \in Counted PROVE Terms(tier)[t] \in Int
      OBVIOUS
    <3>1. Chosen(t, tier) \in Nat
      BY <1>2, <2>2, PriceOrUnknown
    <3>2. Executions(t) \in Nat
      BY <2>2, ExecutionsAreCounted
    <3> QED BY <3>1, <3>2 DEF Terms
  <2>5. NewsCost(tier) \in Int
    BY <2>1, <2>3, <2>4, SumIsInt
  <2>6. NewsCost(tier) # Unknown
    BY <2>5, RecommendationsAssumption
  <2> QED BY <1>2, <2>1, <2>3, <2>4, <2>5, <2>6
<1> QED BY <1>1, <1>2

\* It depends on nothing but the prices, the targets and the options of the tier.
LEMMA CostStandsStill ==
  ASSUME NEW tier, UNCHANGED <<prices, running, listed>>,
         tier = "current" \/ \A t \in listed : options'[t][tier] = options[t][tier]
  PROVE  NewsCost(tier)' = NewsCost(tier)
<1>1. \A t \in listed : Executions(t)' = Executions(t) /\ Chosen(t, tier)' = Chosen(t, tier)
  BY DEF Executions, Chosen, CurrentCost
<1>2. Counted' = Counted
  BY <1>1 DEF Counted
<1>3. \A t \in Counted : Chosen(t, tier)' = Chosen(t, tier)
                         /\ Chosen(t, tier)' * Executions(t)' = Chosen(t, tier) * Executions(t)
  BY <1>1 DEF Counted
<1>4. Terms(tier)' = Terms(tier)
  BY <1>2, <1>3 DEF Terms
<1>5. NewsCost(tier) = IF \E t \in Counted : Chosen(t, tier) = Unknown THEN Unknown
                       ELSE SumFunctionOnSet(Terms(tier), Counted)
  BY DEF NewsCost, Counted, Terms
<1>6. NewsCost(tier)' = IF \E t \in Counted' : Chosen(t, tier)' = Unknown THEN Unknown
                        ELSE SumFunctionOnSet(Terms(tier)', Counted')
  BY DEF NewsCost, Counted, Terms
<1> QED BY <1>2, <1>3, <1>4, <1>5, <1>6

-----------------------------------------------------------------------------
(* Every option has a price.                                                 *)

\* A curated candidate was taken for its price.
LEMMA CandidateIsPriced ==
  ASSUME AdviceTypes, NEW t \in Target, NEW tier \in Tier, Candidate(t, tier) # Unknown
  PROVE  Candidate(t, tier) \in LanguageModel /\ prices[Candidate(t, tier)] \in Nat
<1> DEFINE list == Curated[t][tier]
           suited == {i \in DOMAIN list : Suits(t, tier, list[i])}
<1>1. list \in Seq(LanguageModel)
  BY RecommendationsAssumption
<1>2. suited # {} /\ Candidate(t, tier) = list[Min(suited)]
  BY DEF Candidate
<1>3. suited \subseteq Nat
  BY <1>1
<1>4. \E i \in suited : \A j \in suited : i <= j
  <2> HIDE DEF suited
  <2> QED BY <1>2, <1>3, LeastNatural
<1>5. Min(suited) \in suited
  <2> HIDE DEF suited
  <2> QED BY <1>4 DEF Min
<1>6. PICK i : i = Min(suited) /\ i \in DOMAIN list /\ Suits(t, tier, list[i])
  <2> HIDE DEF list
  <2> QED BY <1>5, Zenon
<1>7. list[i] \in LanguageModel
  <2> HIDE DEF list
  <2> QED BY <1>1, <1>6
<1>8. prices[list[i]] # Unknown
  BY <1>6 DEF Suits, Eligible
<1> QED BY <1>2, <1>6, <1>7, <1>8 DEF AdviceTypes

\* The closest of some priced models is one of them.
LEMMA ClosestIsOneOfThem ==
  ASSUME AdviceTypes, NEW t \in Target, NEW S \in SUBSET LanguageModel, S # {},
         \A m \in S : prices[m] \in Nat
  PROVE  Closest(t, S) \in S
<1> DEFINE below == {m \in S : prices[m] <= CurrentCost(t)}
<1>1. CASE CurrentCost(t) = Unknown \/ CurrentCost(t) = 0 \/ below = {}
  <2> DEFINE costs == {prices[m] : m \in S}
  <2>1. costs \subseteq Nat /\ costs # {}
    OBVIOUS
  <2>2. \E c \in costs : \A d \in costs : c <= d
    <3> HIDE DEF costs
    <3> QED BY <2>1, LeastNatural
  <2>3. \E m \in S : \A n \in S : prices[m] <= prices[n]
    BY <2>2
  <2>4. (CHOOSE m \in S : \A n \in S : prices[m] <= prices[n]) \in S
    BY <2>3
  <2> QED BY <1>1, <2>4 DEF Closest
<1>2. CASE ~ (CurrentCost(t) = Unknown \/ CurrentCost(t) = 0 \/ below = {})
  <2> DEFINE gaps == {CurrentCost(t) - prices[m] : m \in below}
  <2>1. CurrentCost(t) \in Nat
    BY <1>2 DEF AdviceTypes, CurrentCost
  <2>2. gaps \subseteq Nat /\ gaps # {}
    BY <1>2, <2>1
  <2>3. \E c \in gaps : \A d \in gaps : c <= d
    <3> HIDE DEF gaps
    <3> QED BY <2>2, LeastNatural
  <2>4. PICK m \in below : \A n \in below : CurrentCost(t) - prices[m] <= CurrentCost(t) - prices[n]
    BY <2>3
  <2>5. \A n \in below : prices[m] >= prices[n]
    <3> SUFFICES ASSUME NEW n \in below PROVE prices[m] >= prices[n]
      OBVIOUS
    <3>1. prices[m] \in Nat /\ prices[n] \in Nat
      OBVIOUS
    <3>2. CurrentCost(t) - prices[m] <= CurrentCost(t) - prices[n]
      BY <2>4
    <3> QED BY <2>1, <3>1, <3>2
  <2>6. (CHOOSE k \in below : \A n \in below : prices[k] >= prices[n]) \in below
    BY <2>5
  <2> QED BY <1>2, <2>6 DEF Closest
<1> QED BY <1>1, <1>2

\* So the fallback has a price.
LEMMA FallbackIsPriced ==
  ASSUME AdviceTypes, NEW t \in Target, Fallback(t) # Unknown
  PROVE  Fallback(t) \in LanguageModel /\ prices[Fallback(t)] \in Nat
<1> DEFINE named == UNION {ToSet(Curated[t][tier]) : tier \in Tier}
           curated == {m \in named : Eligible(t, m)}
           pool == IF curated # {} THEN curated ELSE {m \in LanguageModel : Eligible(t, m)}
<1>1. named \subseteq LanguageModel
  <2>1. \A tier \in Tier : Curated[t][tier] \in Seq(LanguageModel)
    BY RecommendationsAssumption
  <2>2. \A tier \in Tier : ToSet(Curated[t][tier]) \subseteq LanguageModel
    BY <2>1 DEF ToSet
  <2> QED BY <2>2
<1>2. pool \in SUBSET LanguageModel /\ \A m \in pool : prices[m] \in Nat
  BY <1>1 DEF Eligible, AdviceTypes
<1>3. Fallback(t) = IF pool = {} THEN Unknown ELSE Closest(t, pool)
  BY DEF Fallback
<1>4. pool # {} /\ Fallback(t) = Closest(t, pool)
  <2> HIDE DEF pool
  <2> QED BY <1>3
<1>5. Fallback(t) \in pool
  <2> HIDE DEF pool
  <2> QED BY <1>2, <1>4, ClosestIsOneOfThem
<1> QED BY <1>2, <1>5

\* And every option recommended has one.
LEMMA RecommendedArePriced ==
  ASSUME AdviceTypes, NEW t \in Target
  PROVE  /\ Recommended(t) \in [Tier -> LanguageModel \cup {Unknown}]
         /\ \A tier \in Tier : Recommended(t)[tier] # Unknown =>
              prices[Recommended(t)[tier]] \in Nat
<1>1. \A tier \in Tier : Candidate(t, tier) # Unknown =>
        Candidate(t, tier) \in LanguageModel /\ prices[Candidate(t, tier)] \in Nat
  BY CandidateIsPriced
<1>2. Fallback(t) # Unknown => Fallback(t) \in LanguageModel /\ prices[Fallback(t)] \in Nat
  BY FallbackIsPriced
<1> QED BY <1>1, <1>2, TiersAreThree DEF Recommended

\* What replaces an option is another option.
LEMMA ReplacementIsPriced ==
  ASSUME AdviceTypes, OptionsArePriced, NEW t \in Target, turn \in 1..3,
         Replacement(t, AtTier) # Unknown
  PROVE  /\ Replacement(t, AtTier) \in LanguageModel
         /\ prices[Replacement(t, AtTier)] \in Nat
<1> DEFINE dearer == options[t][AtTier]
           below == {i \in turn + 1..3 : /\ options[t][Tiers[i]] \notin {Unknown, dearer}
                                         /\ prices[options[t][Tiers[i]]] < prices[dearer]}
<1>1. Replacement(t, AtTier) = IF below = {} THEN Unknown ELSE options[t][Tiers[Min(below)]]
  BY DEF Replacement
<1>2. below # {} /\ Replacement(t, AtTier) = options[t][Tiers[Min(below)]]
  <2> HIDE DEF below
  <2> QED BY <1>1
<1>3. below \subseteq Nat
  OBVIOUS
<1>4. PICK i : i = Min(below) /\ i \in below
  <2> HIDE DEF below
  <2>1. Min(below) \in below
    BY <1>2, <1>3, LeastNatural DEF Min
  <2> QED BY <2>1
<1>5. i \in 1..3 /\ options[t][Tiers[i]] # Unknown
  <2>1. i \in turn + 1..3 /\ options[t][Tiers[i]] \notin {Unknown, dearer}
    <3> HIDE DEF dearer
    <3> QED BY <1>4, Zenon
  <2>2. i \in 1..3
    BY <2>1
  <2> QED BY <2>1, <2>2
<1>6. Tiers[i] \in Tier
  BY <1>5, TiersAreThree
<1>7. Replacement(t, AtTier) = options[t][Tiers[i]]
  BY <1>2, <1>4
<1> QED BY <1>5, <1>6, <1>7 DEF AdviceTypes, OptionsArePriced

-----------------------------------------------------------------------------
(* The steps.                                                                *)

\* The invariant holds at first.
LEMMA InitAdviceInv == AdviceInit => AdviceInv
<1> SUFFICES ASSUME AdviceInit PROVE AdviceInv
  OBVIOUS
<1>1. AdviceTypes
  BY RecommendationsAssumption DEF AdviceInit, AdviceTypes
<1>2. OptionsArePriced
  BY DEF AdviceInit, OptionsArePriced
<1>3. turn = 0
  BY DEF AdviceInit
<1> QED BY <1>1, <1>2, <1>3 DEF AdviceInv

\* A tier that is done stays so while another one is worked on.
LEMMA CappedStandsStill ==
  ASSUME AdviceTypes, NEW k \in Tier, k # "current", UNCHANGED <<prices, running, listed, cap>>,
         \A t \in listed : options'[t][k] = options[t][k],
         totals'[k] = totals[k], totals'["current"] = totals["current"], Capped(k)
  PROVE  Capped(k)'
<1>1. NewsCost(k)' = NewsCost(k)
  BY CostStandsStill
<1> QED BY <1>1 DEF Capped

\* Each step keeps the invariant.
LEMMA InspectKeepsAdvice ==
  ASSUME AdviceInv, Inspect
  PROVE  AdviceInv'
<1> USE DEF AdviceInv
<1>1. \A t \in Target : /\ options'[t] = Recommended(t)
                        /\ Recommended(t) \in [Tier -> LanguageModel \cup {Unknown}]
                        /\ \A tier \in Tier : Recommended(t)[tier] # Unknown =>
                             prices[Recommended(t)[tier]] \in Nat
  BY RecommendedArePriced DEF Inspect
<1>2. AdviceTypes'
  BY <1>1 DEF Inspect, AdviceTypes
<1>3. OptionsArePriced'
  BY <1>1 DEF Inspect, OptionsArePriced
<1>4. turn' = 1
  BY DEF Inspect
<1> QED BY <1>2, <1>3, <1>4

LEMMA CheapenKeepsAdvice ==
  ASSUME AdviceInv, Cheapen
  PROVE  AdviceInv'
<1>0. AdviceTypes /\ OptionsArePriced /\ turn \in 1..3
  BY DEF AdviceInv, Cheapen
<1>1. PICK t \in Removable(AtTier) :
        options' = [options EXCEPT ![t][AtTier] = Replacement(t, AtTier)]
  BY DEF Cheapen
<1>2. t \in Target /\ AtTier \in Tier /\ AtTier # "current"
  BY <1>0, TiersAreThree DEF Removable, AdviceTypes, AtTier
<1>3. Replacement(t, AtTier) # Unknown =>
        Replacement(t, AtTier) \in LanguageModel /\ prices[Replacement(t, AtTier)] \in Nat
  BY <1>0, <1>2, ReplacementIsPriced
<1>4. \A u \in Target : \A k \in Tier :
        options'[u][k] = IF u = t /\ k = AtTier THEN Replacement(t, AtTier) ELSE options[u][k]
  BY <1>0, <1>1, <1>2 DEF AdviceTypes
<1>5. UNCHANGED <<prices, running, cap, listed, totals, turn>>
  BY DEF Cheapen
<1>6. AdviceTypes'
  <2>1. options' \in [Target -> [Tier -> LanguageModel \cup {Unknown}]]
    BY <1>0, <1>1, <1>2, <1>3 DEF AdviceTypes
  <2> QED BY <1>0, <1>5, <2>1 DEF AdviceTypes
<1>7. OptionsArePriced'
  BY <1>0, <1>2, <1>3, <1>4, <1>5 DEF OptionsArePriced
<1>8. turn' >= 2 => totals'["current"] = NewsCost("current")'
  <2>1. NewsCost("current")' = NewsCost("current")
    BY <1>5, CostStandsStill
  <2> QED BY <1>5, <2>1 DEF AdviceInv
<1>9. ASSUME NEW i \in 1..3, i < turn' PROVE Capped(Tiers[i])'
  <2>1. i < turn /\ Capped(Tiers[i])
    BY <1>5, <1>9 DEF AdviceInv
  <2>2. Tiers[i] \in Tier /\ Tiers[i] # "current" /\ Tiers[i] # AtTier
    BY <1>0, <2>1, TiersAreThree DEF AtTier
  <2>3. \A u \in listed : options'[u][Tiers[i]] = options[u][Tiers[i]]
    BY <1>0, <1>4, <2>2 DEF AdviceTypes
  <2> QED BY <1>0, <1>5, <2>1, <2>2, <2>3, CappedStandsStill
<1> QED BY <1>6, <1>7, <1>8, <1>9 DEF AdviceInv

\* A tier that is over the limit, and where no option costs more than what is
\* deployed, costs no more than that.
LEMMA NothingToGiveWay ==
  ASSUME AdviceTypes, OptionsArePriced, NEW tier \in Tier, tier # "current",
         Removable(tier) = {}, NewsCost(tier) # Unknown, NewsCost("current") # Unknown
  PROVE  NewsCost(tier) <= NewsCost("current")
<1> DEFINE f == Terms(tier)
           g == Terms("current")
<1>1. /\ NewsCost(tier) = SumFunctionOnSet(f, Counted)
      /\ IsFiniteSet(Counted) /\ \A t \in Counted : f[t] \in Int /\ Chosen(t, tier) # Unknown
  BY NewsCostIsASum
<1>2. /\ NewsCost("current") = SumFunctionOnSet(g, Counted)
      /\ \A t \in Counted : g[t] \in Int /\ Chosen(t, "current") # Unknown
  BY NewsCostIsASum
<1>3. \A t \in Counted : f[t] <= g[t]
  <2> SUFFICES ASSUME NEW t \in Counted PROVE f[t] <= g[t]
    OBVIOUS
  <2>1. t \in Target /\ t \in listed
    BY DEF Counted, AdviceTypes
  <2>2. Executions(t) \in Nat
    BY <2>1, ExecutionsAreCounted
  <2>3. f[t] = Chosen(t, tier) * Executions(t) /\ g[t] = Chosen(t, "current") * Executions(t)
    BY DEF Terms
  <2>4. Chosen(t, "current") = CurrentCost(t) /\ CurrentCost(t) \in Nat
    BY <1>2, <2>1, PriceOrUnknown
  <2>5. CASE options[t][tier] = Unknown
    <3>1. Chosen(t, tier) = CurrentCost(t)
      BY <2>1, <2>5, PriceOrUnknown
    <3> QED BY <1>1, <1>2, <2>3, <2>4, <3>1
  <2>6. CASE options[t][tier] # Unknown
    <3>1. Chosen(t, tier) = prices[options[t][tier]] /\ Chosen(t, tier) \in Nat
      BY <2>1, <2>6, PriceOrUnknown
    <3>2. Saving(t, tier) = (Chosen(t, tier) - CurrentCost(t)) * Executions(t)
      BY <2>4, <2>6, <3>1, RecommendationsAssumption DEF Saving
    <3>3. ~ (Saving(t, tier) > 0)
      BY <2>1 DEF Removable
    <3>4. \A a, b, n \in Nat : ~ ((a - b) * n > 0) => a * n <= b * n
      OBVIOUS
    <3> QED BY <2>2, <2>3, <2>4, <3>1, <3>2, <3>3, <3>4
  <2> QED BY <2>5, <2>6
<1> HIDE DEF f, g
<1> QED BY <1>1, <1>2, <1>3, SumIsMonotone

LEMMA CloseTierKeepsAdvice ==
  ASSUME AdviceInv, CloseTier
  PROVE  AdviceInv'
<1>0. AdviceTypes /\ OptionsArePriced /\ turn \in 1..3
  BY DEF AdviceInv, CloseTier
<1>1. PICK k \in Tier : k = AtTier /\ k # "current" /\ k = Tiers[turn]
  BY <1>0, TiersAreThree DEF AtTier
<1>2. PICK total : total = NewsCost(k)
  OBVIOUS
<1> DEFINE dropped == cap # Unknown /\ (total = Unknown \/ total > cap)
<1>3. /\ totals' = [totals EXCEPT ![k] = IF dropped THEN Unknown ELSE total,
                                  !["current"] = NewsCost("current")]
      /\ options' = IF dropped THEN [t \in Target |-> [options[t] EXCEPT ![k] = Unknown]]
                    ELSE options
      /\ turn' = turn + 1
      /\ UNCHANGED <<prices, running, cap, listed>>
      /\ ~ (Excess(total) /\ Removable(k) # {})
  BY <1>1, <1>2 DEF CloseTier, TierOptions
<1>4. total \in Int \cup {Unknown} /\ NewsCost("current") \in Int \cup {Unknown}
  BY <1>0, <1>2, NewsCostIsASum
<1> HIDE DEF dropped
<1>5. \A t \in Target : \A j \in Tier :
        options'[t][j] = IF dropped /\ j = k THEN Unknown ELSE options[t][j]
  BY <1>0, <1>3 DEF AdviceTypes
<1>6. AdviceTypes'
  <2>1. options' \in [Target -> [Tier -> LanguageModel \cup {Unknown}]]
    BY <1>0, <1>3 DEF AdviceTypes
  <2>2. totals' \in [Tier \cup {"current"} -> Int \cup {Unknown}]
    BY <1>0, <1>3, <1>4 DEF AdviceTypes
  <2> QED BY <1>0, <1>3, <2>1, <2>2 DEF AdviceTypes
<1>7. OptionsArePriced'
  BY <1>0, <1>3, <1>5 DEF OptionsArePriced
<1>8. NewsCost("current")' = NewsCost("current")
  BY <1>3, CostStandsStill
<1>9. /\ totals'["current"] = NewsCost("current")
      /\ totals'[k] = IF dropped THEN Unknown ELSE total
      /\ \A j \in Tier : j # k => totals'[j] = totals[j]
  BY <1>0, <1>1, <1>3, TiersAreThree DEF AdviceTypes
<1>10. Capped(k)'
  <2> SUFFICES ASSUME cap # Unknown
               PROVE  IF totals'[k] = Unknown
                        THEN /\ \A t \in listed : options'[t][k] = Unknown
                             /\ totals'["current"] = Unknown \/ totals'["current"] > cap
                        ELSE totals'[k] = NewsCost(k)' /\ totals'[k] <= cap
    BY <1>3 DEF Capped
  <2>0. cap \in Nat
    BY <1>0 DEF AdviceTypes
  <2>1. CASE dropped
    <3>1. \A t \in listed : options'[t][k] = Unknown
      BY <1>0, <1>5, <2>1 DEF AdviceTypes
    <3>2. totals'["current"] = Unknown \/ totals'["current"] > cap
      <4>1. CASE total = Unknown
        <5>1. PICK t \in Counted : Chosen(t, k) = Unknown
          BY <1>0, <1>2, <4>1, NewsCostIsASum
        <5>2. t \in Target
          BY <1>0 DEF Counted, AdviceTypes
        <5>3. Chosen(t, "current") = Unknown
          <6>1. Unknown \notin Nat
            BY RecommendationsAssumption
          <6>2. options[t][k] = Unknown
            BY <1>0, <1>1, <5>1, <5>2, <6>1, PriceOrUnknown
          <6>3. Chosen(t, k) = CurrentCost(t)
            BY <1>0, <1>1, <5>2, <6>2, PriceOrUnknown
          <6>4. Chosen(t, "current") = CurrentCost(t)
            BY <1>0, <5>2, PriceOrUnknown
          <6> QED BY <5>1, <6>3, <6>4
        <5>4. NewsCost("current") = Unknown
          BY <1>0, <5>1, <5>3, NewsCostIsASum
        <5> QED BY <1>9, <5>4
      <4>2. CASE total # Unknown /\ NewsCost("current") # Unknown
        <5>1. total > cap
          BY <2>1, <4>2 DEF dropped
        <5>2. Removable(k) = {}
          BY <1>3, <4>2, <5>1 DEF Excess
        <5>3. total <= NewsCost("current")
          BY <1>0, <1>1, <1>2, <4>2, <5>2, NothingToGiveWay
        <5> QED BY <1>4, <1>9, <2>0, <4>2, <5>1, <5>3
      <4>3. CASE NewsCost("current") = Unknown
        BY <1>9, <4>3
      <4> QED BY <4>1, <4>2, <4>3
    <3>3. totals'[k] = Unknown
      BY <1>9, <2>1
    <3> QED BY <3>1, <3>2, <3>3
  <2>2. CASE ~ dropped
    <3>1. total # Unknown /\ ~ (total > cap)
      BY <2>2 DEF dropped
    <3>2. NewsCost(k)' = total
      <4>1. \A t \in listed : options'[t][k] = options[t][k]
        BY <1>0, <1>5, <2>2 DEF AdviceTypes
      <4> QED BY <1>2, <1>3, <4>1, CostStandsStill
    <3>3. totals'[k] = total
      BY <1>9, <2>2
    <3> QED BY <1>4, <2>0, <3>1, <3>2, <3>3
  <2> QED BY <2>1, <2>2
<1>11. ASSUME NEW i \in 1..3, i < turn' PROVE Capped(Tiers[i])'
  <2>1. CASE i = turn
    BY <1>1, <1>10, <2>1
  <2>2. CASE i # turn
    <3>1. i < turn /\ Capped(Tiers[i]) /\ totals["current"] = NewsCost("current")
      BY <1>0, <1>3, <1>11, <2>2 DEF AdviceInv
    <3>2. Tiers[i] \in Tier /\ Tiers[i] # "current" /\ Tiers[i] # k
      BY <1>0, <1>1, <2>2, TiersAreThree
    <3>3. \A t \in listed : options'[t][Tiers[i]] = options[t][Tiers[i]]
      BY <1>0, <1>5, <3>2 DEF AdviceTypes
    <3>4. totals'[Tiers[i]] = totals[Tiers[i]] /\ totals'["current"] = totals["current"]
      BY <1>9, <3>1, <3>2
    <3> QED BY <1>0, <1>3, <3>1, <3>2, <3>3, <3>4, CappedStandsStill
  <2> QED BY <2>1, <2>2
<1> QED BY <1>6, <1>7, <1>8, <1>9, <1>11 DEF AdviceInv

LEMMA NextAdviceInv == AdviceInv /\ [AdviceNext]_adviceVars => AdviceInv'
<1> SUFFICES ASSUME AdviceInv, [AdviceNext]_adviceVars PROVE AdviceInv'
  OBVIOUS
<1>1. CASE Inspect
  BY <1>1, InspectKeepsAdvice
<1>2. CASE Cheapen
  BY <1>2, CheapenKeepsAdvice
<1>3. CASE CloseTier
  BY <1>3, CloseTierKeepsAdvice
<1>4. CASE UNCHANGED adviceVars
  <2>1. AdviceTypes' /\ OptionsArePriced'
    BY <1>4 DEF AdviceInv, AdviceTypes, OptionsArePriced, adviceVars
  <2>2. NewsCost("current")' = NewsCost("current")
    BY <1>4, CostStandsStill DEF adviceVars
  <2>3. ASSUME NEW i \in 1..3, i < turn' PROVE Capped(Tiers[i])'
    <3>1. Capped(Tiers[i]) /\ Tiers[i] \in Tier /\ Tiers[i] # "current"
      BY <1>4, <2>3, TiersAreThree DEF AdviceInv, adviceVars
    <3> QED BY <1>4, <3>1, CappedStandsStill DEF AdviceInv, adviceVars
  <2> QED BY <1>4, <2>1, <2>2, <2>3 DEF AdviceInv, adviceVars
<1> QED BY <1>1, <1>2, <1>3, <1>4 DEF AdviceNext

\* What the console shows under a limit fits it and adds up, for any targets,
\* catalog, limit and work.
THEOREM AdviceTheorem == AdviceSpec => []NewsCostIsCapped
<1>1. AdviceInv => NewsCostIsCapped
  <2> SUFFICES ASSUME AdviceInv, turn = 4, cap # Unknown, NEW tier \in Tier
               PROVE  IF totals[tier] = Unknown
                        THEN /\ \A t \in listed : options[t][tier] = Unknown
                             /\ totals["current"] = Unknown \/ totals["current"] > cap
                        ELSE totals[tier] = NewsCost(tier) /\ totals[tier] <= cap
    BY DEF NewsCostIsCapped
  <2>1. PICK i \in 1..3 : tier = Tiers[i]
    BY DEF Tier
  <2>2. Capped(tier)
    BY <2>1 DEF AdviceInv
  <2> QED BY <2>2 DEF Capped
<1> QED BY <1>1, InitAdviceInv, NextAdviceInv, PTL DEF AdviceSpec
=============================================================================
