------------------------------ MODULE Dispatch ------------------------------
(***************************************************************************)
(* processMessage of backend/cmd/server/main.go: what a worker does with a *)
(* message the queue hands it.  It picks up to three candidate phones and  *)
(* tries them in order until the MQTT broker confirms the command.         *)
(*                                                                         *)
(* The queue is seen through AtMostOnce: a message is queued, then running *)
(* on one worker, then done (acknowledged) or stranded (the handler failed *)
(* or the process died; LaneQueue shows nothing reads it again).           *)
(*                                                                         *)
(* Msgs are queue entries.  A scheduler race or a repeated XADD may leave   *)
(* several entries of one message; they are handled independently, and     *)
(* that they share a row is left out.                                      *)
(*                                                                         *)
(* Fraud analysis, database errors and routing scores are nondeterministic *)
(* choices.  So are the carrier throttle and the SIM health verdict, which *)
(* share the rate check's only effect, the next candidate.  The account    *)
(* breaker is left out: nothing ever records an account failure, so it     *)
(* stays closed.                                                           *)
(***************************************************************************)
EXTENDS Integers, Sequences, FiniteSets

CONSTANTS
    Msgs,
    Devices,
    Workers,
    None,
    MaxResults,         \* candidates FilterAndScore keeps, 3 in the code
    DeviceLimit,        \* commands per device and minute (devicePerMin)
    Attempts,           \* times the Redis client sends one command, 1 + MaxRetries
    ThresholdNum,       \* the device breaker, see CircuitBreaker
    ThresholdDen,
    HalfOpenSuccesses,
    MaxCrashes,         \* bound: server restarts explored
    MaxWindows          \* bound: minutes that begin while messages are handled

ASSUME DispatchAssumption ==
    /\ None \notin Msgs /\ None \notin Devices
    /\ IsFiniteSet(Workers) /\ Workers # {}
    /\ MaxResults \in Nat \ {0}
    /\ DeviceLimit \in Nat
    /\ Attempts \in Nat \ {0}
    /\ MaxCrashes \in Nat /\ MaxWindows \in Nat

VARIABLES
    job,        \* Msgs -> status
    at,         \* where each worker is in processMessage
    msg,        \* the message it handles
    todo,       \* its remaining candidates; the first is the one being tried
    err,        \* lastErr # nil
    breaker,    \* cbManager's device breakers
    rate,       \* the rate:device:min counter of the current minute
    served,     \* how often Redis served the increment a worker is sending
    confirmed,  \* history: devices whose broker confirmed the command
    uncertain,  \* history: devices whose publish failed or timed out
    inbox,      \* commands that reached the broker, for the phones to execute
    row,        \* the message's row: status and device_id
    crashes, windows

memory == <<at, msg, todo, err, served, breaker>>
redis == <<job, rate>>
outside == <<confirmed, uncertain, inbox>>
bounds == <<crashes, windows>>
vars == <<memory, redis, outside, row, bounds>>

\* the operations on a circuitState; its history variable is not needed here
B == INSTANCE CircuitBreaker
        WITH Keys <- Devices, streak <- [d \in Devices |-> 0],
             MaxFailures <- 0, MaxSuccesses <- 0

Statuses == {"queued", "running", "done", "stranded"}
Places == {"idle", "route", "gate", "limit", "publish", "record", "count"}

\* up to MaxResults distinct devices, best score first
Candidates ==
    UNION {{s \in [1..n -> Devices] : \A i, j \in 1..n : s[i] = s[j] => i = j} :
             n \in 1..MaxResults}

Init ==
    /\ job = [m \in Msgs |-> "queued"]
    /\ at = [w \in Workers |-> "idle"]
    /\ msg = [w \in Workers |-> None]
    /\ todo = [w \in Workers |-> <<>>]
    /\ err = [w \in Workers |-> FALSE]
    /\ breaker = [d \in Devices |-> B!Fresh]
    /\ rate = [d \in Devices |-> 0]
    /\ served = [w \in Workers |-> 0]
    /\ confirmed = [m \in Msgs |-> {}]
    /\ uncertain = [m \in Msgs |-> {}]
    /\ inbox = [m \in Msgs |-> {}]
    /\ row = [m \in Msgs |-> [status |-> "pending", device |-> None]]
    /\ crashes = 0 /\ windows = 0

-----------------------------------------------------------------------------

Current(w) == Head(todo[w])

\* `continue`: on to the next candidate
NextDevice(w) ==
    /\ todo' = [todo EXCEPT ![w] = Tail(@)]
    /\ at' = [at EXCEPT ![w] = "gate"]
    /\ UNCHANGED msg

\* processMessage returns; the consumer acknowledges, or leaves the message
Return(w, status) ==
    /\ job' = [job EXCEPT ![msg[w]] = status]
    /\ at' = [at EXCEPT ![w] = "idle"]
    /\ msg' = [msg EXCEPT ![w] = None]
    /\ todo' = [todo EXCEPT ![w] = <<>>]
    /\ err' = [err EXCEPT ![w] = FALSE]

Take(w, m) ==
    /\ at[w] = "idle"
    /\ job[m] = "queued"
    /\ job' = [job EXCEPT ![m] = "running"]
    /\ at' = [at EXCEPT ![w] = "route"]
    /\ msg' = [msg EXCEPT ![w] = m]
    /\ UNCHANGED <<served, todo, err, breaker, rate, outside, row, bounds>>

\* flagged as fraud, no eligible device, none past the routing gates, or an
\* error on the way: an error is returned before any device is tried
Refuse(w) ==
    /\ at[w] = "route"
    /\ Return(w, "stranded")
    /\ UNCHANGED <<served, breaker, rate, outside, row, bounds>>

Route(w) ==
    /\ at[w] = "route"
    /\ \E s \in Candidates : todo' = [todo EXCEPT ![w] = s]
    /\ at' = [at EXCEPT ![w] = "gate"]
    /\ UNCHANGED <<served, msg, err, breaker, redis, outside, row, bounds>>

\* Mistake: a candidate with an open breaker is waited for.
GateWaits(w) ==
    /\ at[w] = "gate"
    /\ todo[w] # <<>>
    /\ breaker' = [breaker EXCEPT ![Current(w)] = B!AfterGetState(@)]
    /\ breaker'[Current(w)].state # "OPEN"
    /\ at' = [at EXCEPT ![w] = "limit"]
    /\ UNCHANGED <<served, msg, todo, err, redis, outside, row, bounds>>

\* An open breaker skips the candidate without setting lastErr.
Gate(w) ==
    /\ at[w] = "gate"
    /\ todo[w] # <<>>
    /\ breaker' = [breaker EXCEPT ![Current(w)] = B!AfterGetState(@)]
    /\ \/ /\ breaker'[Current(w)].state = "OPEN"
          /\ NextDevice(w)
       \/ /\ breaker'[Current(w)].state # "OPEN"
          /\ at' = [at EXCEPT ![w] = "limit"]
          /\ UNCHANGED <<msg, todo>>
    /\ UNCHANGED <<served, err, redis, outside, row, bounds>>

WithinLimit(d) == rate[d] < DeviceLimit

\* carrier throttle, device rate and SIM health: any of them, or an error in
\* asking, sets lastErr and moves on
Admit(w) ==
    /\ at[w] = "limit"
    /\ WithinLimit(Current(w))
    /\ at' = [at EXCEPT ![w] = "publish"]
    /\ UNCHANGED <<served, msg, todo, err, breaker, redis, outside, row, bounds>>

Decline(w) ==
    /\ at[w] = "limit"
    /\ err' = [err EXCEPT ![w] = TRUE]
    /\ NextDevice(w)
    /\ UNCHANGED <<served, breaker, redis, outside, row, bounds>>

Confirm(w) ==
    /\ at[w] = "publish"
    /\ confirmed' = [confirmed EXCEPT ![msg[w]] = @ \cup {Current(w)}]
    /\ inbox' = [inbox EXCEPT ![msg[w]] = @ \cup {Current(w)}]
    /\ at' = [at EXCEPT ![w] = "record"]
    /\ UNCHANGED <<served, msg, todo, err, breaker, redis, uncertain, row, bounds>>

\* Mistakes: the error is not kept; the loop falls through to the bookkeeping.
PublishFailsQuietly(w) ==
    /\ at[w] = "publish"
    /\ breaker' = [breaker EXCEPT ![Current(w)] = B!AfterFailure(@)]
    /\ uncertain' = [uncertain EXCEPT ![msg[w]] = @ \cup {Current(w)}]
    /\ NextDevice(w)
    /\ UNCHANGED <<served, err, redis, confirmed, inbox, row, bounds>>

PublishFailsAndRecords(w) ==
    /\ at[w] = "publish"
    /\ breaker' = [breaker EXCEPT ![Current(w)] = B!AfterFailure(@)]
    /\ uncertain' = [uncertain EXCEPT ![msg[w]] = @ \cup {Current(w)}]
    /\ err' = [err EXCEPT ![w] = TRUE]
    /\ at' = [at EXCEPT ![w] = "record"]
    /\ UNCHANGED <<served, msg, todo, redis, confirmed, inbox, row, bounds>>

\* The client is disconnected, the broker refuses, or the five seconds pass
\* without an acknowledgement; in the last case the command may still arrive.
PublishFails(w) ==
    /\ at[w] = "publish"
    /\ breaker' = [breaker EXCEPT ![Current(w)] = B!AfterFailure(@)]
    /\ uncertain' = [uncertain EXCEPT ![msg[w]] = @ \cup {Current(w)}]
    /\ \/ UNCHANGED inbox
       \/ inbox' = [inbox EXCEPT ![msg[w]] = @ \cup {Current(w)}]
    /\ err' = [err EXCEPT ![w] = TRUE]
    /\ NextDevice(w)
    /\ UNCHANGED <<served, redis, confirmed, row, bounds>>

\* Two updates of the row, each of which may fail with only a log line
Record(w) ==
    /\ at[w] = "record"
    /\ \E s \in {row[msg[w]].status, "delivered"}, d \in {row[msg[w]].device, Current(w)} :
         row' = [row EXCEPT ![msg[w]] = [status |-> s, device |-> d]]
    /\ at' = [at EXCEPT ![w] = "count"]
    /\ UNCHANGED <<served, msg, todo, err, breaker, redis, outside, bounds>>

\* Mistake: the counters are incremented in two places.
IncrementTwice(w) ==
    /\ at[w] = "count"
    /\ served[w] < Attempts
    /\ served' = [served EXCEPT ![w] = @ + 1]
    /\ rate' = [rate EXCEPT ![Current(w)] = @ + 2]
    /\ UNCHANGED <<at, msg, todo, err, breaker, job, outside, row, bounds>>

\* Redis serves the pipeline of increments.  The client sends it again when the
\* reply is lost, so the send may count more than once.
Increment(w) ==
    /\ at[w] = "count"
    /\ served[w] < Attempts
    /\ served' = [served EXCEPT ![w] = @ + 1]
    /\ rate' = [rate EXCEPT ![Current(w)] = @ + 1]
    /\ UNCHANGED <<at, msg, todo, err, breaker, job, outside, row, bounds>>

\* Mistake: no return after the successful send.
CountContinues(w) ==
    /\ at[w] = "count"
    /\ served' = [served EXCEPT ![w] = 0]
    /\ breaker' = [breaker EXCEPT ![Current(w)] = B!AfterSuccess(@)]
    /\ NextDevice(w)
    /\ UNCHANGED <<err, redis, outside, row, bounds>>

\* the increments, served or not, are over; the breaker, and return nil
Count(w) ==
    /\ at[w] = "count"
    /\ served' = [served EXCEPT ![w] = 0]
    /\ breaker' = [breaker EXCEPT ![Current(w)] = B!AfterSuccess(@)]
    /\ Return(w, "done")
    /\ UNCHANGED <<rate, outside, row, bounds>>

\* no candidate left: return lastErr, which is nil if nothing has set it
Exhaust(w) ==
    /\ at[w] = "gate"
    /\ todo[w] = <<>>
    /\ Return(w, IF err[w] THEN "stranded" ELSE "done")
    /\ UNCHANGED <<served, breaker, rate, outside, row, bounds>>

-----------------------------------------------------------------------------
(* Environment *)

CooldownElapses(d) ==
    /\ breaker[d].cooling
    /\ breaker' = [breaker EXCEPT ![d].cooling = FALSE]
    /\ UNCHANGED <<served, at, msg, todo, err, redis, outside, row, bounds>>

\* A new minute begins: the counter's key changes.  A call that is under way
\* goes on with the key it has built.
NextWindow ==
    /\ windows < MaxWindows
    /\ windows' = windows + 1
    /\ rate' = [d \in Devices |-> 0]
    /\ served' = [w \in Workers |-> IF served[w] > 0 THEN Attempts ELSE 0]
    /\ UNCHANGED <<at, msg, todo, err, breaker, job, outside, row, crashes>>

\* the process restarts: breakers and workers start afresh
Crash ==
    /\ crashes < MaxCrashes
    /\ crashes' = crashes + 1
    /\ job' = [m \in Msgs |-> IF job[m] = "running" THEN "stranded" ELSE job[m]]
    /\ at' = [w \in Workers |-> "idle"]
    /\ msg' = [w \in Workers |-> None]
    /\ todo' = [w \in Workers |-> <<>>]
    /\ err' = [w \in Workers |-> FALSE]
    /\ served' = [w \in Workers |-> 0]
    /\ breaker' = [d \in Devices |-> B!Fresh]
    /\ UNCHANGED <<rate, outside, row, windows>>

Handle(w) ==
    \/ Refuse(w)
    \/ Route(w)
    \/ Gate(w)
    \/ Admit(w)
    \/ Decline(w)
    \/ Confirm(w)
    \/ PublishFails(w)
    \/ Record(w)
    \/ Increment(w)
    \/ Count(w)
    \/ Exhaust(w)

Next ==
    \/ \E w \in Workers : Handle(w) \/ \E m \in Msgs : Take(w, m)
    \/ \E d \in Devices : CooldownElapses(d)
    \/ NextWindow
    \/ Crash

Spec == Init /\ [][Next]_vars

(* Every step of processMessage ends: the publish waits five seconds, and    *)
(* the database and Redis calls carry the handler's 30 s context.            *)
FairSpec == Spec /\ \A w \in Workers : WF_vars(Handle(w))

-----------------------------------------------------------------------------
(* Properties *)

\* Shapes; a worker holds a message exactly while it is not idle.
TypeOK ==
    /\ job \in [Msgs -> Statuses]
    /\ at \in [Workers -> Places]
    /\ msg \in [Workers -> Msgs \cup {None}]
    /\ \A w \in Workers : msg[w] = None <=> at[w] = "idle"
    /\ todo \in [Workers -> Seq(Devices)]
    /\ \A w \in Workers : at[w] \in {"limit", "publish", "record", "count"} => todo[w] # <<>>
    /\ err \in [Workers -> BOOLEAN]
    /\ breaker \in [Devices -> B!Breaker]
    /\ rate \in [Devices -> Nat]
    /\ served \in [Workers -> 0..Attempts]
    /\ confirmed \in [Msgs -> SUBSET Devices]
    /\ uncertain \in [Msgs -> SUBSET Devices]
    /\ inbox \in [Msgs -> SUBSET Devices]
    /\ row \in [Msgs -> [status : {"pending", "delivered"}, device : Devices \cup {None}]]
    /\ crashes \in 0..MaxCrashes /\ windows \in 0..MaxWindows

Trying(w) == at[w] \in {"route", "gate", "limit", "publish"}

\* The candidates are alternatives: at most one device is confirmed for a
\* message, and no worker goes on trying devices for a confirmed message.
OneConfirmedSend ==
    \A m \in Msgs :
        /\ \A d, e \in confirmed[m] : d = e
        /\ \A w \in Workers : msg[w] = m /\ Trying(w) => confirmed[m] = {}

\* What the queue is told agrees with what was sent: a message returned with
\* an error (and not cut short by a crash) has no confirmed send, and a
\* message acknowledged without a confirmed send was offered to no device.
OutcomeMatchesSends ==
    \A m \in Msgs :
        /\ job[m] = "done" /\ confirmed[m] = {} => uncertain[m] = {}
        /\ job[m] = "stranded" /\ confirmed[m] # {} => crashes > 0

\* Workers check the rate before the publish and count after it, each send as
\* often as its increment is repeated.  However they interleave, a device's
\* counter passes its limit by less than Attempts for every worker.
RateOvershootBounded ==
    \A d \in Devices : rate[d] < DeviceLimit + Attempts * Cardinality(Workers)

\* A row says delivered, or names a device, only for a confirmed send.
RowNamesSender ==
    \A m \in Msgs :
        /\ row[m].status = "delivered" => confirmed[m] # {}
        /\ row[m].device # None => row[m].device \in confirmed[m]

\* Whatever times out, crashes or arrives late, at most MaxResults phones ever
\* get the command of a message: it is routed once, and each candidate is
\* tried once.
CopiesBounded ==
    \A m \in Msgs : Cardinality(inbox[m]) <= MaxResults

\* A message a worker took is given an outcome, whatever the devices do.
TakenIsSettled == \A m \in Msgs : job[m] = "running" ~> job[m] # "running"

\* Documentation (docs/requirement.md:627): without an eligible device the job
\* waits and dead-letters with a reason; it is not acknowledged as sent.
AcknowledgedWasSent ==
    \A m \in Msgs : job[m] = "done" => confirmed[m] # {}

\* Documentation (docs/requirement.md:697): the duplicate-send rate is 0%.
SentOnce ==
    \A m \in Msgs : \A d, e \in inbox[m] : d = e
=============================================================================
