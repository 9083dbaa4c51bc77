-------------------------------- MODULE Quotas --------------------------------
(***************************************************************************)
(* The account of one client and everybody who writes it.  The HTTP        *)
(* endpoints of news-handler and generate-asertions, and the consumer of   *)
(* news-handler, read the counters over HTTP and write back an absolute    *)
(* value; the consumer of admin increments them in MongoDB for the same    *)
(* messages of the responses topic; the console creates, changes and       *)
(* deletes the account.                                                    *)
(*                                                                         *)
(* An order has one assertion and one validator.  Of its document only     *)
(* what billing looks at is kept: its post and whether a validation is     *)
(* recorded.  What else happens to it is the subject of LightFlow and      *)
(* ChainFlow.                                                              *)
(***************************************************************************)
EXTENDS Integers, Sequences

CONSTANTS
  Call,         \* calls of the three endpoints that look at the account
  KindsOf,      \* what each may ask: <<endpoint, validation mode>>
  Limits,       \* limits the console may give
  NoClient,     \* there is no account
  MaxEvents     \* bound: crashes, repeated messages and operations of the console

Service == {"news", "val"}

\* A document of clients_quotas: limits and consumed per service.
ClientQuota == [limits : [Service -> Int], consumed : [Service -> Int]]

ASSUME QuotasAssumption ==
  /\ Call \cap {"handler", "admin", "console"} = {}
  /\ NoClient \notin ClientQuota
  /\ KindsOf \in [Call -> SUBSET ({"text", "assertions", "extract"} \X {"LIGHT", "BLOCKCHAIN"})]
  /\ Limits \subseteq [Service -> Nat]
  /\ MaxEvents \in Nat

VARIABLES
  account,      \* the document of clients_quotas, or NoClient
  calls,        \* per call: its kind, where its coroutine stands, what it read
  orders,       \* per call: its order, and what the chain services did for it
  log,          \* the responses topic
  group,        \* per consumer: its position and the offset it started from
  handler,      \* the handler of news-handler in execution
  tally,        \* per call: how often it was charged, and why
  ledger,       \* what the writes meant to add up to
  gross,        \* the charges alone
  overlapped,   \* services written while another was between read and write
  events        \* how many happened of each kind

histories == <<tally, ledger, gross, overlapped>>
quotaVars == <<account, calls, orders, log, group, handler, histories, events>>

Zero == [s \in Service |-> 0]

Generated(c) == [action |-> "assertions_generated", call |-> c, post |-> 0]
Registered(c, post) == [action |-> "blockchain_registered", call |-> c, post |-> post]
Validated(c, post) == [action |-> "validation_completed", call |-> c, post |-> post]

Billable == {"assertions_generated", "validation_completed"}

BilledService(action) == IF action = "assertions_generated" THEN "news" ELSE "val"

Idle == [at |-> "idle"]

EventKind == {"console", "handler", "admin", "generator", "repeat"}

Event(kind) ==
  /\ events["console"] + events["handler"] + events["admin"] + events["generator"]
       + events["repeat"] < MaxEvents
  /\ events' = [events EXCEPT ![kind] = @ + 1]

-----------------------------------------------------------------------------
(* The writes of the account.                                                *)

\* Who is between its read of s and its write of s, apart from who.
Holders(s, who) ==
  {c \in Call \ {who} : s = "news" /\ calls[c].at \in {"read", "charged", "generating"}}
    \cup {h \in {"handler"} \ {who} :
            \/ s = "news" /\ handler.at = "charge_news"
            \/ s = "val" /\ handler.at = "charge_val"}

\* PATCH /clients sets the fields it is given, each by its dotted path.
Patched(s, value) == [account EXCEPT !.consumed[s] = value]

Account(who, s, written, delta) ==
  /\ account' = written
  /\ ledger' = [ledger EXCEPT ![s] = @ + delta]
  /\ gross' = [gross EXCEPT ![s] = @ + (IF delta > 0 THEN delta ELSE 0)]
  /\ overlapped' = IF Holders(s, who) = {} THEN overlapped ELSE overlapped \cup {s}

Unaccounted == UNCHANGED <<account, ledger, gross, overlapped>>

\* update_client_consumed fails with 404 when the account is gone.
Charge(who, s, seen, delta) ==
  account # NoClient /\ Account(who, s, Patched(s, seen), delta)

ChargeFails == account = NoClient /\ Unaccounted

-----------------------------------------------------------------------------
(* The endpoints.                                                            *)

Goto(c, at) == calls' = [calls EXCEPT ![c].at = at]

\* The coroutine is over, and what it read is gone.
End(c, at) == calls' = [calls EXCEPT ![c].at = at, ![c].seen = 0]

Over(kind) ==
  CASE kind = <<"assertions", "BLOCKCHAIN">> -> account.consumed["val"] + 1 >= account.limits["val"]
    [] kind = <<"assertions", "LIGHT">> -> FALSE
    [] OTHER -> account.consumed["news"] >= account.limits["news"]

ReadThen(endpoint) ==
  CASE endpoint = "text" -> "admitted"
    [] endpoint = "assertions" -> "read"
    [] endpoint = "extract" -> "generating"

(* Every endpoint starts by reading the account: 403 without one, 429 over   *)
(* the limit.  publish_new then saves the order and sends the request.       *)
Enter(c) ==
  /\ calls[c].at = "none"
  /\ \E kind \in KindsOf[c] :
       LET admitted == account # NoClient /\ ~ Over(kind)
       IN  /\ calls' = [calls EXCEPT ![c] =
                 [kind |-> kind,
                  at |-> IF admitted THEN ReadThen(kind[1]) ELSE "refused",
                  seen |-> IF admitted /\ kind[1] # "text"
                             THEN account.consumed["news"] ELSE 0]]
           /\ orders' = IF admitted /\ kind[1] = "text"
                          THEN [orders EXCEPT ![c].saved = TRUE] ELSE orders
  /\ UNCHANGED <<account, log, group, handler, histories, events>>

\* generate-asertions answers the request of publish_new.  (An answer that it
\* failed is charged to nobody, and left out.)
Generate(c) ==
  /\ calls[c].at = "admitted"
  /\ End(c, "done")
  /\ log' = Append(log, Generated(c))
  /\ UNCHANGED <<account, orders, group, handler, histories, events>>

\* generate-asertions restarts at the offset its timer had committed: requests
\* it has answered are answered again, and its extractions are gone.
GeneratorCrash ==
  /\ Event("generator")
  /\ \E again \in SUBSET {c \in Call : calls[c].kind[1] = "text" /\ calls[c].at = "done"} :
       calls' = [c \in Call |->
         IF c \in again THEN [calls[c] EXCEPT !.at = "admitted"]
         ELSE IF calls[c].at = "generating" THEN [calls[c] EXCEPT !.at = "failed", !.seen = 0]
         ELSE calls[c]]
  /\ UNCHANGED <<account, orders, log, group, handler, histories>>

\* publish_with_assertions charges a generation and saves the order ...
ChargeGiven(c) ==
  /\ calls[c].at = "read"
  /\ \/ /\ Charge(c, "news", calls[c].seen + 1, 1)
        /\ Goto(c, "charged")
        /\ orders' = [orders EXCEPT ![c].saved = TRUE]
     \/ ChargeFails /\ End(c, "failed") /\ UNCHANGED orders
  /\ UNCHANGED <<log, group, handler, tally, events>>

\* ... then gives two back, as its assertions came with it, and sends them.
RefundGiven(c) ==
  /\ calls[c].at = "charged"
  /\ \/ /\ Charge(c, "news", calls[c].seen - 1, -2)
        /\ Goto(c, "given")
     \/ ChargeFails /\ End(c, "failed")
  /\ UNCHANGED <<orders, log, group, handler, tally, events>>

SendGiven(c) ==
  /\ calls[c].at = "given"
  /\ End(c, "done")
  /\ log' = Append(log, Generated(c))
  /\ UNCHANGED <<account, orders, group, handler, histories, events>>

\* /extraer charges what it read before the language model answered, errors
\* swallowed; without an answer it charges nothing.
Extract(c) ==
  /\ calls[c].at = "generating"
  /\ End(c, "done")
  /\ \/ Charge(c, "news", calls[c].seen + 1, 1)
     \/ ChargeFails
     \/ Unaccounted
  /\ UNCHANGED <<orders, log, group, handler, tally, events>>

-----------------------------------------------------------------------------
(* The consumer of news-handler.                                             *)

Next_(who) == log[group[who].position + 1]
Handed(who) == group[who].position < Len(log)
Advance(who) == group' = [group EXCEPT ![who].position = @ + 1]

Take(action) ==
  /\ handler = Idle /\ Handed("handler") /\ Next_("handler").action = action
  /\ Advance("handler")
  /\ UNCHANGED <<account, calls, log, histories, events>>

Mode(c) == calls[c].kind[2]

(* A LIGHT document charges nothing here.  A chain order reads the account   *)
(* once more: without it the handler dies of the exception, over one of the  *)
(* limits the order stops.                                                   *)
TakeGenerated ==
  /\ Take("assertions_generated")
  /\ LET c == Next_("handler").call
         exceeded == \/ account.consumed["news"] > account.limits["news"]
                     \/ account.consumed["val"] + 1 > account.limits["val"]
     IN  IF orders[c].saved /\ Mode(c) = "BLOCKCHAIN" /\ account # NoClient /\ ~ exceeded
           THEN handler' = [at |-> "charge_news", call |-> c, seen |-> account.consumed["news"]]
           ELSE UNCHANGED handler
  /\ UNCHANGED orders

\* The PATCH; when it fails the handler returns.
ChargeGeneration ==
  /\ handler.at = "charge_news"
  /\ \/ /\ Charge("handler", "news", handler.seen + 1, 1)
        /\ handler' = [at |-> "document", call |-> handler.call]
     \/ ChargeFails /\ handler' = Idle
  /\ UNCHANGED <<calls, orders, log, group, tally, events>>

\* The document that starts the chain flow.  The same write empties the
\* validations, so that those of an earlier document are forgotten.
WriteDocument ==
  /\ handler.at = "document"
  /\ handler' = [at |-> "upload", call |-> handler.call]
  /\ orders' = [orders EXCEPT ![handler.call].recorded = FALSE]
  /\ tally' = [tally EXCEPT ![handler.call].documents = @ + 1]
  /\ UNCHANGED <<account, calls, log, group, ledger, gross, overlapped, events>>

SendUpload ==
  /\ handler.at = "upload"
  /\ handler' = Idle
  /\ orders' = [orders EXCEPT ![handler.call].uploads = @ + 1]
  /\ UNCHANGED <<account, calls, log, group, histories, events>>

\* The post of a later registration replaces the one before.
TakeRegistered ==
  /\ Take("blockchain_registered")
  /\ orders' = [orders EXCEPT ![Next_("handler").call].post = Next_("handler").post]
  /\ UNCHANGED handler

\* Mutant: a validation that was recorded is not recognised.
NeverDone(c) == FALSE

AlreadyDone(c) == orders[c].recorded

\* Only the post of a known order is looked at, and a validation once; without
\* an account it is recorded all the same.
TakeValidated ==
  /\ Take("validation_completed")
  /\ LET c == Next_("handler").call
     IN  handler' = IF orders[c].post # Next_("handler").post \/ AlreadyDone(c)
                      THEN Idle
                      ELSE IF account = NoClient
                        THEN [at |-> "record_free", call |-> c]
                        ELSE [at |-> "charge_val", call |-> c, seen |-> account.consumed["val"]]
  /\ UNCHANGED orders

ChargeValidation ==
  /\ handler.at = "charge_val"
  /\ \/ /\ Charge("handler", "val", handler.seen + 1, 1)
        /\ handler' = [at |-> "record", call |-> handler.call]
        /\ tally' = [tally EXCEPT ![handler.call].handler = @ + 1]
     \/ /\ ChargeFails
        /\ handler' = [at |-> "record_free", call |-> handler.call]
        /\ UNCHANGED tally
  /\ UNCHANGED <<calls, orders, log, group, events>>

RecordValidation ==
  /\ handler.at \in {"record", "record_free"}
  /\ handler' = Idle
  /\ orders' = [orders EXCEPT ![handler.call].recorded = TRUE]
  /\ UNCHANGED <<account, calls, log, group, histories, events>>

\* The process dies: its endpoints with it, its consumer resumes at an offset
\* the timer had committed.  A charge may be left without its record.
HandlerCrash ==
  /\ Event("handler")
  /\ handler' = Idle
  /\ tally' = IF handler.at = "record" THEN [tally EXCEPT ![handler.call].cut = @ + 1] ELSE tally
  /\ calls' = [c \in Call |->
       IF calls[c].at \in {"read", "charged", "given"} THEN [calls[c] EXCEPT !.at = "failed", !.seen = 0]
         ELSE calls[c]]
  /\ \E offset \in group["handler"].from .. group["handler"].position :
       group' = [group EXCEPT !["handler"] = [position |-> offset, from |-> offset]]
  /\ UNCHANGED <<account, orders, log, ledger, gross, overlapped>>

-----------------------------------------------------------------------------
(* The services behind a chain order, reduced to what reaches the log.       *)

InLog(msg) == \E i \in DOMAIN log : log[i] = msg

\* A redelivered upload or registration makes another post.
Post(c) ==
  /\ IF orders[c].posts < orders[c].uploads
       THEN UNCHANGED events
       ELSE orders[c].posts > 0 /\ Event("repeat")
  /\ orders' = [orders EXCEPT ![c].posts = @ + 1]
  /\ log' = Append(log, Registered(c, orders[c].posts + 1))
  /\ UNCHANGED <<account, calls, group, handler, histories>>

\* The validator answers each post, and may send an answer again.
Validate(c) ==
  /\ \E post \in 1 .. orders[c].posts :
       /\ IF InLog(Validated(c, post)) THEN Event("repeat") ELSE UNCHANGED events
       /\ log' = Append(log, Validated(c, post))
  /\ UNCHANGED <<account, calls, orders, group, handler, histories>>

-----------------------------------------------------------------------------
(* admin: its consumer and its console.                                      *)

\* $inc with upsert: the counters of an account that is gone start over, and an
\* account without limits is read back with limits of 0.
Incremented(s) ==
  IF account = NoClient
    THEN [limits |-> Zero, consumed |-> [Zero EXCEPT ![s] = 1]]
    ELSE Patched(s, account.consumed[s] + 1)

\* The client is looked up by the order id.  A validation comes without one,
\* and of the post admin asks for postId where news-handler stored post_id: it
\* finds no client and is discarded.
Resolved(msg) == msg.action = "assertions_generated" /\ orders[msg.call].saved

Bill ==
  /\ Handed("admin") /\ Advance("admin")
  /\ LET msg == Next_("admin")
         service == BilledService(msg.action)
     IN  IF msg.action \in Billable /\ Resolved(msg)
           THEN /\ Account("admin", service, Incremented(service), 1)
                /\ tally' = [tally EXCEPT ![msg.call].admin = @ + 1]
           ELSE UNCHANGED <<account, histories>>
  /\ UNCHANGED <<calls, orders, log, handler, events>>

AdminCrash ==
  /\ Event("admin")
  /\ \E offset \in group["admin"].from .. group["admin"].position :
       group' = [group EXCEPT !["admin"] = [position |-> offset, from |-> offset]]
  /\ UNCHANGED <<account, calls, orders, log, handler, histories>>

Operate ==
  /\ Event("console")
  /\ UNCHANGED <<calls, orders, log, group, handler, tally, gross>>

CreateClient ==
  /\ Operate /\ account = NoClient
  /\ \E limits \in Limits : account' = [limits |-> limits, consumed |-> Zero]
  /\ UNCHANGED <<ledger, overlapped>>

UpdateClient ==
  /\ Operate /\ account # NoClient
  /\ \E limits \in Limits \ {account.limits} : account' = [account EXCEPT !.limits = limits]
  /\ UNCHANGED <<ledger, overlapped>>

DeleteClient ==
  /\ Operate /\ account # NoClient
  /\ account' = NoClient
  /\ ledger' = Zero
  /\ overlapped' = overlapped \cup {s \in Service : Holders(s, "console") # {}}

-----------------------------------------------------------------------------
QuotasInit ==
  /\ \E limits \in Limits : account = [limits |-> limits, consumed |-> Zero]
  /\ calls = [c \in Call |-> [kind |-> <<"text", "LIGHT">>, at |-> "none", seen |-> 0]]
  /\ orders = [c \in Call |-> [saved |-> FALSE, recorded |-> FALSE,
                               uploads |-> 0, posts |-> 0, post |-> 0]]
  /\ log = << >>
  /\ group = [who \in {"handler", "admin"} |-> [position |-> 0, from |-> 0]]
  /\ handler = Idle
  /\ tally = [c \in Call |-> [handler |-> 0, documents |-> 0, cut |-> 0, admin |-> 0]]
  /\ ledger = Zero
  /\ gross = Zero
  /\ overlapped = {}
  /\ events = [kind \in EventKind |-> 0]

QuotasNext ==
  \/ \E c \in Call : \/ Enter(c) \/ Generate(c) \/ ChargeGiven(c) \/ RefundGiven(c)
                     \/ SendGiven(c) \/ Extract(c) \/ Post(c) \/ Validate(c)
  \/ TakeGenerated \/ ChargeGeneration \/ WriteDocument \/ SendUpload \/ TakeRegistered
  \/ TakeValidated \/ ChargeValidation \/ RecordValidation
  \/ HandlerCrash \/ GeneratorCrash \/ Bill \/ AdminCrash
  \/ CreateClient \/ UpdateClient \/ DeleteClient

QuotasSpec == QuotasInit /\ [][QuotasNext]_quotaVars

-----------------------------------------------------------------------------
(* A counter is the sum of its charges and refunds unless somebody wrote it  *)
(* while another was between its read and its PATCH, and even then it never  *)
(* exceeds the charges made.  However messages are sent and delivered again, *)
(* news-handler charges a validation no more than once per document it wrote *)
(* (writing one forgets the record of the validation) and once per crash     *)
(* between the charge and its record; it writes a document, and admin bills  *)
(* the generation, no more than once per delivery of an answer of            *)
(* generate-asertions: the answers are one and one per restart of it, and    *)
(* each restart of the consumer delivers them once more at most.             *)
QuotasAreAccounted ==
  /\ account # NoClient => \A s \in Service :
       /\ s \notin overlapped => account.consumed[s] = ledger[s]
       /\ account.consumed[s] <= gross[s]
  /\ \A c \in Call :
       /\ tally[c].handler <= tally[c].documents + tally[c].cut
       /\ tally[c].documents <= (1 + events["generator"]) * (1 + events["handler"])
       /\ tally[c].admin <= (1 + events["generator"]) * (1 + events["admin"])
=============================================================================
