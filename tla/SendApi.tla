------------------------------ MODULE SendApi ------------------------------
(***************************************************************************)
(* The intake of backend/internal/api/handlers/message_handler.go: Send    *)
(* and MemberSend (one message, with an idempotency key) and BulkSend      *)
(* (several messages, without), on one account.  Handlers run              *)
(* concurrently; each step below is one call to Redis or PostgreSQL.       *)
(*                                                                         *)
(* Request validation, encryption and the message itself are left out.  A  *)
(* write whose reply is lost may have been executed; the Redis client      *)
(* repeats such a command, the PostgreSQL driver does not.                 *)
(* Values: the idempotency entry always holds the empty string (Send       *)
(* passes "" for the message id), so only its presence is modelled.        *)
(***************************************************************************)
EXTENDS Integers, FiniteSets

CONSTANTS
    Requests,   \* HTTP requests
    Keys,       \* idempotency keys clients use
    None,
    BulkSize,   \* recipients of a bulk request
    Subscribed, \* the account has a row in subscriptions
    Limit,      \* int64(QuotaDaily * (1 + OverageBufferPct/100)) of that row
    Attempts,   \* times the Redis client sends a command: MaxRetries + 1
    MaxOpen,    \* bound: requests in progress at once
    MaxErrors,  \* bound: calls to Redis or PostgreSQL that fail
    MaxCrashes, \* bound: restarts of the server
    MaxDays     \* bound: midnights that pass

ASSUME SendApiAssumption ==
    /\ None \notin Keys
    /\ IsFiniteSet(Requests)
    /\ Subscribed \in BOOLEAN /\ Attempts \in Nat \ {0}
    /\ BulkSize \in Nat \ {0} /\ Limit \in Nat \ {0} /\ MaxOpen \in Nat \ {0}
    /\ MaxErrors \in Nat /\ MaxCrashes \in Nat /\ MaxDays \in Nat

VARIABLES
    at,         \* where each handler is
    key,        \* its idempotency key; None for a bulk request
    item,       \* the message of the request it is working on
    answer,     \* what the client was told
    keys,       \* the idempotency:* entries in Redis
    usage,      \* usage_counters.count of today; 0 also stands for no row
    rows,       \* the messages table
    queued,     \* the messages that entered the queue
    sends,      \* how many times a worker has sent and counted one of them
    stored,     \* bulk items answered "queued", "stored for retry"
    failed,     \* bulk items answered "failed"
    made,       \* history: messages made for a key in its window
    today,      \* history: messages made today
    uncounted,  \* history: of these, how many IncrementUsage did not count
    waived,     \* history: quota checks of today passed for want of a subscription
    errors, crashes, days

handlers == <<at, key, item, answer>>
database == <<usage, rows>>
queue == <<queued, sends>>
results == <<stored, failed>>
history == <<made, today, uncounted, waived>>
bounds == <<errors, crashes, days>>
vars == <<handlers, keys, database, queue, results, history, bounds>>

Places == {"new", "gate", "check", "set", "quota", "create", "count", "enqueue", "closed"}
Answers == {"none", "accepted", "duplicate", "429", "500"}
Messages == Requests \X (1..BulkSize)

Init ==
    /\ at = [r \in Requests |-> "new"]
    /\ key = [r \in Requests |-> None]
    /\ item = [r \in Requests |-> 1]
    /\ answer = [r \in Requests |-> "none"]
    /\ keys = {}
    /\ usage = 0
    /\ rows = {} /\ queued = {} /\ sends = 0
    /\ stored = {} /\ failed = {}
    /\ made = [k \in Keys |-> {}]
    /\ today = 0 /\ uncounted = 0 /\ waived = 0
    /\ errors = 0 /\ crashes = 0 /\ days = 0

-----------------------------------------------------------------------------

Open == {r \in Requests : at[r] \notin {"new", "closed"}}

Items(r) == IF key[r] = None THEN BulkSize ELSE 1
Message(r) == <<r, item[r]>>

Go(r, place) == at' = [at EXCEPT ![r] = place] /\ UNCHANGED <<key, item, answer>>

Respond(r, a) ==
    /\ at' = [at EXCEPT ![r] = "closed"]
    /\ answer' = [answer EXCEPT ![r] = a]
    /\ UNCHANGED <<key, item>>

\* the loop of BulkSend goes on to the next recipient, or answers
NextItem(r) ==
    \/ /\ item[r] < Items(r)
       /\ item' = [item EXCEPT ![r] = @ + 1]
       /\ at' = [at EXCEPT ![r] = "create"]
       /\ UNCHANGED <<key, answer>>
    \/ /\ item[r] = Items(r)
       /\ Respond(r, "accepted")

\* a failed call ends Send with a 500; BulkSend notes it and goes on
Failed(r) == IF key[r] = None THEN NextItem(r) ELSE Respond(r, "500")

CallFails ==
    /\ errors < MaxErrors
    /\ errors' = errors + 1
    /\ UNCHANGED <<crashes, days>>

\* Mistake: an off-by-one in CheckQuotaWithSub.
UnderQuotaOrEqual == ~Subscribed \/ usage = 0 \/ usage <= Limit

\* an account without a subscription, or without a row for today, may send
UnderQuota == ~Subscribed \/ usage = 0 \/ usage < Limit

\* the route of MemberSend has no EnforceQuota
Arrive(r, k) ==
    /\ at[r] = "new"
    /\ Cardinality(Open) < MaxOpen
    /\ \/ at' = [at EXCEPT ![r] = "gate"]
       \/ k # None /\ at' = [at EXCEPT ![r] = "check"]
    /\ key' = [key EXCEPT ![r] = k]
    /\ UNCHANGED <<item, answer, keys, database, queue, results, history, bounds>>

\* the EnforceQuota middleware, which lets the request pass when it cannot ask
EnforceQuota(r) ==
    /\ at[r] = "gate"
    /\ \/ /\ ~UnderQuota
          /\ Respond(r, "429")
          /\ UNCHANGED bounds
       \/ /\ \/ UnderQuota /\ UNCHANGED bounds
             \/ CallFails
          /\ Go(r, IF key[r] = None THEN "quota" ELSE "check")
    /\ UNCHANGED <<keys, database, queue, results, history>>

\* CheckAndSet, first half: GET
CheckKey(r) ==
    /\ at[r] = "check"
    /\ \/ key[r] \in keys /\ Respond(r, "duplicate") /\ UNCHANGED bounds
       \/ key[r] \notin keys /\ Go(r, "set") /\ UNCHANGED bounds
       \/ CallFails /\ Respond(r, "500")
    /\ UNCHANGED <<keys, database, queue, results, history>>

\* Mistake: the entry is written only by a later step.
SetKeyForgets(r) ==
    /\ at[r] = "set"
    /\ Go(r, "quota")
    /\ UNCHANGED <<keys, database, queue, results, history, bounds>>

\* CheckAndSet, second half: SET, whatever the entry holds by now
SetKey(r) ==
    /\ at[r] = "set"
    /\ \/ keys' = keys \cup {key[r]} /\ Go(r, "quota") /\ UNCHANGED bounds
       \/ keys' \in {keys, keys \cup {key[r]}} /\ CallFails /\ Respond(r, "500")
    /\ UNCHANGED <<database, queue, results, history>>

\* The counter is read, then the subscription.  A failure of the first ends the
\* request, one of the second lets it pass.
CheckQuota(r) ==
    /\ at[r] = "quota"
    /\ \/ UnderQuota /\ Go(r, "create") /\ UNCHANGED <<waived, bounds>>
       \/ ~UnderQuota /\ Respond(r, "429") /\ UNCHANGED <<waived, bounds>>
       \/ CallFails /\ Respond(r, "500") /\ UNCHANGED waived
       \/ ~UnderQuota /\ CallFails /\ Go(r, "create") /\ waived' = waived + 1
    /\ UNCHANGED <<keys, database, queue, results, made, today, uncounted>>

Made(r) ==
    /\ today' = today + 1
    /\ made' = IF key[r] = None THEN made ELSE [made EXCEPT ![key[r]] = @ \cup {Message(r)}]

\* an INSERT whose reply is lost leaves a row that nobody counts or queues
Create(r) ==
    /\ at[r] = "create"
    /\ \/ /\ rows' = rows \cup {Message(r)} /\ Made(r)
          /\ Go(r, "count")
          /\ UNCHANGED <<uncounted, failed, bounds>>
       \/ /\ CallFails
          /\ \/ UNCHANGED <<rows, made, today, uncounted>>
             \/ rows' = rows \cup {Message(r)} /\ Made(r) /\ uncounted' = uncounted + 1
          /\ Failed(r)
          /\ failed' = IF key[r] = None THEN failed \cup {Message(r)} ELSE failed
    /\ UNCHANGED <<keys, usage, queue, stored, waived>>

\* IncrementUsage, its error ignored
Count(r) ==
    /\ at[r] = "count"
    /\ \/ usage' = usage + 1 /\ UNCHANGED <<uncounted, bounds>>
       \/ CallFails /\ uncounted' = uncounted + 1 /\ UNCHANGED usage
    /\ Go(r, "enqueue")
    /\ UNCHANGED <<keys, rows, queue, results, made, today, waived>>

\* Mistake: Send answers like BulkSend when the queue refuses the message.
EnqueueAlwaysAnswers(r) ==
    /\ at[r] = "enqueue"
    /\ \/ queued' = queued \cup {Message(r)} /\ UNCHANGED <<stored, bounds>>
       \/ CallFails /\ UNCHANGED queued /\ stored' = stored \cup {Message(r)}
    /\ NextItem(r)
    /\ UNCHANGED <<keys, database, sends, failed, history>>

\* XADD, whose attempts may be served although none is answered
Enqueue(r) ==
    /\ at[r] = "enqueue"
    /\ \/ queued' = queued \cup {Message(r)} /\ NextItem(r) /\ UNCHANGED <<stored, bounds>>
       \/ /\ CallFails
          /\ queued' \in {queued, queued \cup {Message(r)}}
          /\ Failed(r)
          /\ stored' = IF key[r] = None THEN stored \cup {Message(r)} ELSE stored
    /\ UNCHANGED <<keys, database, sends, failed, history>>

-----------------------------------------------------------------------------
(* Environment *)

\* processMessage of a worker (see Dispatch) counts a message again for each of
\* the entries its XADD has made
WorkerSends ==
    /\ sends < Attempts * Cardinality(queued)
    /\ sends' = sends + 1
    /\ usage' = usage + 1
    /\ UNCHANGED <<handlers, keys, rows, queued, results, history, bounds>>

\* The window of a key ends.  It is five minutes long, a handler has seconds.
Expire(k) ==
    /\ k \in keys
    /\ \A r \in Open : key[r] # k
    /\ keys' = keys \ {k}
    /\ made' = [made EXCEPT ![k] = {}]
    /\ UNCHANGED <<handlers, database, queue, results, today, uncounted, waived, bounds>>

\* midnight: the counter's row is a new one
NextDay ==
    /\ days < MaxDays
    /\ days' = days + 1
    /\ usage' = 0 /\ today' = 0 /\ uncounted' = 0 /\ waived' = 0
    /\ UNCHANGED <<handlers, keys, rows, queue, results, made, errors, crashes>>

\* the process dies; messages already made may stay uncounted
Crash ==
    /\ crashes < MaxCrashes
    /\ crashes' = crashes + 1
    /\ at' = [r \in Requests |-> IF r \in Open THEN "closed" ELSE at[r]]
    /\ uncounted' = uncounted + Cardinality({r \in Requests : at[r] = "count"})
    /\ UNCHANGED <<key, item, answer, keys, database, queue, results, made, today, waived, errors, days>>

Handle(r) ==
    \/ EnforceQuota(r)
    \/ CheckKey(r)
    \/ SetKey(r)
    \/ CheckQuota(r)
    \/ Create(r)
    \/ Count(r)
    \/ Enqueue(r)

Next ==
    \/ \E r \in Requests : Handle(r) \/ \E k \in Keys \cup {None} : Arrive(r, k)
    \/ WorkerSends
    \/ \E k \in Keys : Expire(k)
    \/ NextDay
    \/ Crash

Spec == Init /\ [][Next]_vars

(* Handlers run to their end, and workers drain the queue. *)
FairSpec ==
    /\ Spec
    /\ \A r \in Requests : WF_vars(Handle(r))
    /\ WF_vars(WorkerSends)

-----------------------------------------------------------------------------
(* Properties *)

\* Shapes; a handler never works past the items of its request.
TypeOK ==
    /\ at \in [Requests -> Places]
    /\ key \in [Requests -> Keys \cup {None}]
    /\ item \in [Requests -> 1..BulkSize]
    /\ \A r \in Requests : at[r] # "new" => item[r] <= Items(r)
    /\ answer \in [Requests -> Answers]
    /\ keys \subseteq Keys
    /\ rows \subseteq Messages /\ queued \subseteq Messages
    /\ sends \in Nat
    /\ stored \subseteq Messages /\ failed \subseteq Messages
    /\ made \in [Keys -> SUBSET Messages]
    /\ usage \in Nat /\ today \in Nat /\ uncounted \in Nat /\ waived \in Nat
    /\ errors \in 0..MaxErrors /\ crashes \in 0..MaxCrashes /\ days \in 0..MaxDays

\* The quota is read before, and counted after, a message is made, and read
\* once for all messages of a bulk request.  However the handlers interleave,
\* a day's messages pass the limit of a subscription only by what they hold,
\* what a failed IncrementUsage or a lost reply left uncounted, and what was let
\* through because the subscription could not be read.
QuotaOvershootBounded ==
    Subscribed => today < Limit + uncounted + (MaxOpen + waived) * BulkSize

\* the messages whose fate the answer to a request tells
Settled(r) == queued \cup IF key[r] = None THEN stored \cup failed ELSE {}

\* What the client is told accounts for what was done.  The message of an
\* accepted request is in the queue; so is every item of an accepted bulk
\* request that its results do not list as "stored for retry" or "failed".
\* What they list as failed is not in the queue and what they list as stored has
\* a row.  A refused or duplicate request left nothing behind, and a row exists
\* before its message is queued.  A 500 says nothing: the message may have a row
\* and may be queued.
AnswersAccounted ==
    /\ \A r \in Requests :
         /\ answer[r] = "accepted" => \A i \in 1..Items(r) : <<r, i>> \in Settled(r)
         /\ answer[r] \in {"429", "duplicate"} => \A i \in 1..BulkSize : <<r, i>> \notin rows
    /\ failed \cap queued = {}
    /\ stored \cup queued \subseteq rows

\* Within the window of a key at most one message is made for it.  Holds when
\* a client repeats a request only after the first one has ended.
OneMessagePerKey ==
    \A k \in Keys : \A m, n \in made[k] : m = n

\* However requests with one key interleave, fail and are repeated, within its
\* window at most as many messages are made for it as requests may be open at
\* once: those that found no entry were open together.
MessagesPerKeyBounded ==
    \A k \in Keys : Cardinality(made[k]) <= MaxOpen

\* Documentation (docs/requirement.md:304): a repeated request returns the
\* original result, so there is one.
DuplicateHasOriginal ==
    \A r \in Requests : at[r] = "closed" /\ answer[r] = "duplicate" /\ key[r] \in keys =>
        made[key[r]] # {}

\* Documentation (docs/requirement.md:77): above the grace buffer sending is
\* blocked until the next cycle.
BlockedAboveGrace == Subscribed => today <= Limit + uncounted

\* models.go:401: the counter tracks daily usage, one per message.
UsageCountsMessages == usage <= today

\* message_handler.go:528: an item whose Enqueue failed is stored for retry.
StoredIsRetried == \A m \in Messages : m \in stored ~> m \in queued
=============================================================================
