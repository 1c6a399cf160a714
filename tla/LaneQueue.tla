------------------------------ MODULE LaneQueue ------------------------------
(***************************************************************************)
(* The three priority lanes of backend/internal/worker/queue.go: Redis     *)
(* streams read by one consumer group, and the consumer loops that drain   *)
(* them.  The handler (processMessage in cmd/server/main.go) is abstracted *)
(* to its result; Dispatch models what it does.                            *)
(*                                                                         *)
(* A stream is represented by its undelivered suffix: XREADGROUP with ">"  *)
(* hands out each entry once, and nothing reads the pending entries list   *)
(* (ClaimStale has no caller).  Payloads are always written by Enqueue, so *)
(* the branch that acknowledges an unreadable payload is left out.         *)
(*                                                                         *)
(* Msgs are stream entries.  The Redis client repeats an XADD whose reply  *)
(* was lost (MaxRetries is left at its default of 3), and each repetition  *)
(* that Redis serves adds an entry of its own: two members of Msgs.        *)
(***************************************************************************)
EXTENDS Integers, Sequences

CONSTANTS
    Msgs,                 \* entries that XADD may add
    LaneOf,               \* the lane each is enqueued on
    Consumers,            \* worker goroutines, all sharing one Queue
    None,                 \* no message
    AntiStarvationRatio,  \* cfg.AntiStarvationRatio, 10 by default
    MaxAttempts,          \* cfg.MaxDeliveryAttempts, 3 by default
    MaxQueueDepth,        \* cfg.MaxQueueDepth, the MAXLEN of XADD
    MaxSkips,             \* bound: larger values of the counter act alike
    MaxCrashes            \* bound: server restarts explored

Lanes == {"otp", "transactional", "marketing"}

ASSUME QueueAssumption ==
    /\ LaneOf \in [Msgs -> Lanes]
    /\ None \notin Msgs
    /\ AntiStarvationRatio \in Nat
    /\ MaxAttempts \in Nat \ {0}
    /\ MaxQueueDepth \in Nat \ {0}
    /\ MaxSkips \in Nat /\ MaxSkips >= AntiStarvationRatio
    /\ MaxCrashes \in Nat

VARIABLES
    backlog,    \* lane -> undelivered entries, oldest first
    pel,        \* messages delivered to the group and not acknowledged
    acked,      \* acknowledged messages
    dead,       \* messages on the dead-letter stream
    failed,     \* history: messages whose handler returned an error
    dropped,    \* undelivered messages trimmed by XADD MAXLEN
    enqueued,   \* messages Enqueue has accepted
    at,         \* where each consumer is in its loop
    held,       \* the message a consumer is handling
    skips,      \* Queue.AntiStarvationCnt
    loaded,     \* the value a consumer loaded for AntiStarvationCnt++
    raised,     \* history: consumers since whose own reset another one stored
    crashes

queueVars == <<backlog, pel, acked, dead, failed, dropped, enqueued>>
consumerVars == <<at, held, skips, loaded, raised>>
vars == <<queueVars, consumerVars, crashes>>

\* A consumer blocks in XREADGROUP on one of the lanes, is about to reset the
\* counter before the transactional lane or, admitted, before the marketing
\* lane, is at the guard of the marketing lane, about to load the counter or to
\* store it incremented, or handles a message.
Places == Lanes \cup {"reset", "gate", "load", "store", "admitted", "handling"}

Entries(s) == {s[i] : i \in 1..Len(s)}
Waiting == UNION {Entries(backlog[l]) : l \in Lanes}

\* Mistake: one entry too many is trimmed.
NewestShort(s, n) == SubSeq(s, Len(s) - n + 2, Len(s))
Newest(s, n) == SubSeq(s, Len(s) - n + 1, Len(s))
AllButNewest(s, n) == SubSeq(s, 1, Len(s) - n)

Init ==
    /\ backlog = [l \in Lanes |-> <<>>]
    /\ pel = {} /\ acked = {} /\ dead = {} /\ failed = {} /\ dropped = {} /\ enqueued = {}
    /\ at = [c \in Consumers |-> "otp"]
    /\ held = [c \in Consumers |-> None]
    /\ skips = 0
    /\ loaded = [c \in Consumers |-> 0]
    /\ raised = {}
    /\ crashes = 0

-----------------------------------------------------------------------------
(* Producer *)

\* XADD with an approximate MAXLEN: Redis may keep more than MaxQueueDepth
\* entries, and what it removes are the oldest, delivered or not.
Enqueue(m) ==
    /\ m \notin enqueued
    /\ LET lane  == LaneOf[m]
           added == Append(backlog[lane], m)
       IN  \E n \in 1..Len(added) :
             /\ n >= MaxQueueDepth \/ n = Len(added)
             /\ backlog' = [backlog EXCEPT ![lane] = Newest(added, n)]
             /\ dropped' = dropped \cup Entries(AllButNewest(added, n))
    /\ enqueued' = enqueued \cup {m}
    /\ UNCHANGED <<pel, acked, dead, failed, consumerVars, crashes>>

-----------------------------------------------------------------------------
(* Consumer: Dequeue *)

\* Mistake: the entry stays in the stream, as with a plain XREAD.
TakenKept(lane) == backlog

\* Redis moves the oldest undelivered entry of the lane to the PEL
Taken(lane) == [backlog EXCEPT ![lane] = Tail(@)]

Read(c) ==
    /\ at[c] \in Lanes
    /\ backlog[at[c]] # <<>>
    /\ backlog' = Taken(at[c])
    /\ pel' = pel \cup {Head(backlog[at[c]])}
    /\ held' = [held EXCEPT ![c] = Head(backlog[at[c]])]
    /\ at' = [at EXCEPT ![c] = "handling"]
    /\ UNCHANGED <<acked, dead, failed, dropped, enqueued, skips, loaded, raised, crashes>>

\* The connection fails.  If Redis had already served the read, its entry is
\* pending and unknown to the consumer.  The client sends the command again,
\* or gives up: Dequeue returns an error and the loop starts over.
ReadFails(c) ==
    /\ at[c] \in Lanes
    /\ at' \in {at, [at EXCEPT ![c] = "otp"]}
    /\ \/ UNCHANGED <<backlog, pel>>
       \/ /\ backlog[at[c]] # <<>>
          /\ backlog' = Taken(at[c])
          /\ pel' = pel \cup {Head(backlog[at[c]])}
    /\ UNCHANGED <<acked, dead, failed, dropped, enqueued, held, skips, loaded, raised, crashes>>

\* What follows an empty lane in Dequeue's loop; Consumer.Start begins again.
\* Mistake: the reset is left out below the OTP lane.
AfterLaneKeeping ==
    [otp |-> "transactional", transactional |-> "gate", marketing |-> "otp"]
AfterLane == [otp |-> "reset", transactional |-> "gate", marketing |-> "otp"]

\* Mistake: Block = 0 below the OTP lane, where the read waits for ever.
ReadTimesOutNever(c) ==
    /\ at[c] = "otp"
    /\ backlog[at[c]] = <<>>
    /\ at' = [at EXCEPT ![c] = AfterLane[@]]
    /\ UNCHANGED <<queueVars, held, skips, loaded, raised, crashes>>

\* Block expires on an empty lane.
ReadTimesOut(c) ==
    /\ at[c] \in Lanes
    /\ backlog[at[c]] = <<>>
    /\ at' = [at EXCEPT ![c] = AfterLane[@]]
    /\ UNCHANGED <<queueVars, held, skips, loaded, raised, crashes>>

(* The counter is a field of the Queue all workers share, without a lock: the *)
(* guard, the load and the store of AntiStarvationCnt++ and the resets are    *)
(* accesses of their own, between which other workers run.                    *)

\* The reset on the way to the transactional or the marketing lane
ResetSkips(c) ==
    /\ skips' = 0
    /\ \/ /\ at[c] = "reset"
          /\ at' = [at EXCEPT ![c] = "transactional"]
          /\ raised' = raised \ {c}
       \/ /\ at[c] = "admitted"
          /\ at' = [at EXCEPT ![c] = "marketing"]
          /\ UNCHANGED raised
    /\ UNCHANGED <<queueVars, held, loaded, crashes>>

\* The guard: below the ratio the marketing lane is skipped
GateMarketing(c) ==
    /\ at[c] = "gate"
    /\ at' = [at EXCEPT ![c] = IF skips < AntiStarvationRatio THEN "load" ELSE "admitted"]
    /\ UNCHANGED <<queueVars, held, skips, loaded, raised, crashes>>

LoadSkips(c) ==
    /\ at[c] = "load"
    /\ loaded' = [loaded EXCEPT ![c] = skips]
    /\ at' = [at EXCEPT ![c] = "store"]
    /\ UNCHANGED <<queueVars, held, skips, raised, crashes>>

\* The counter is compared with the ratio only, so it may stop at MaxSkips.
StoreSkips(c) ==
    /\ at[c] = "store"
    /\ skips' = IF loaded[c] < MaxSkips THEN loaded[c] + 1 ELSE MaxSkips
    /\ loaded' = [loaded EXCEPT ![c] = 0]
    /\ raised' = raised \cup (Consumers \ {c})
    /\ at' = [at EXCEPT ![c] = "otp"]
    /\ UNCHANGED <<queueVars, held, crashes>>

-----------------------------------------------------------------------------
(* Consumer: the handler has returned *)

Release(c) ==
    /\ held' = [held EXCEPT ![c] = None]
    /\ at' = [at EXCEPT ![c] = "otp"]

\* nil: acknowledge; the XACK may fail, which is only logged
HandlerSucceeds(c) ==
    /\ at[c] = "handling"
    /\ Release(c)
    /\ \/ /\ pel' = pel \ {held[c]}
          /\ acked' = acked \cup {held[c]}
       \/ UNCHANGED <<pel, acked>>
    /\ UNCHANGED <<backlog, dead, failed, dropped, enqueued, skips, loaded, raised, crashes>>

\* The payload always carries Attempts = 0, and nothing writes the increment
\* back, so the handler's failure is always attempt number one.
Exhausted == 0 + 1 >= MaxAttempts

\* Mistake: the failed entry goes back to its lane.
HandlerFailsRequeues(c) ==
    /\ at[c] = "handling"
    /\ Release(c)
    /\ failed' = failed \cup {held[c]}
    /\ pel' = pel \ {held[c]}
    /\ backlog' = [backlog EXCEPT ![LaneOf[held[c]]] = Append(@, held[c])]
    /\ UNCHANGED <<acked, dead, dropped, enqueued, skips, loaded, raised, crashes>>

\* an error: dead-letter once attempts are exhausted (the XADD may fail, in
\* particular after the 30 s context expired); never acknowledge or requeue
HandlerFails(c) ==
    /\ at[c] = "handling"
    /\ Release(c)
    /\ failed' = failed \cup {held[c]}
    /\ \/ Exhausted /\ dead' = dead \cup {held[c]}
       \/ UNCHANGED dead
    /\ UNCHANGED <<backlog, pel, acked, dropped, enqueued, skips, loaded, raised, crashes>>

\* The process dies and starts again: consumers forget what they held, Redis
\* keeps it in the PEL.
Crash ==
    /\ crashes < MaxCrashes
    /\ crashes' = crashes + 1
    /\ at' = [c \in Consumers |-> "otp"]
    /\ held' = [c \in Consumers |-> None]
    /\ skips' = 0
    /\ loaded' = [c \in Consumers |-> 0]
    /\ raised' = {}
    /\ UNCHANGED queueVars

Loop(c) ==
    \/ ReadTimesOut(c)
    \/ ResetSkips(c)
    \/ GateMarketing(c)
    \/ LoadSkips(c)
    \/ StoreSkips(c)
    \/ HandlerSucceeds(c)
    \/ HandlerFails(c)

Next ==
    \/ \E m \in Msgs : Enqueue(m)
    \/ \E c \in Consumers : Read(c) \/ ReadFails(c) \/ Loop(c)
    \/ Crash

Spec == Init /\ [][Next]_vars

(* A goroutine is scheduled, a blocking read times out and a handler ends   *)
(* with its 30 s context: weak fairness of each loop.  A read that keeps    *)
(* being possible is not defeated by connection errors forever: strong      *)
(* fairness.  Producers and crashes are not assumed to happen.              *)
FairSpec ==
    /\ Spec
    /\ \A c \in Consumers : WF_vars(Loop(c)) /\ SF_vars(Read(c))

-----------------------------------------------------------------------------
(* Properties *)

\* Shapes of streams, sets and consumers.
TypeOK ==
    /\ backlog \in [Lanes -> Seq(Msgs)]
    /\ pel \subseteq Msgs /\ acked \subseteq Msgs /\ dead \subseteq failed
    /\ failed \subseteq Msgs /\ dropped \subseteq Msgs /\ enqueued \subseteq Msgs
    /\ at \in [Consumers -> Places]
    /\ held \in [Consumers -> Msgs \cup {None}]
    /\ skips \in 0..MaxSkips
    /\ loaded \in [Consumers -> 0..MaxSkips]
    /\ raised \subseteq Consumers
    /\ crashes \in 0..MaxCrashes

\* Every accepted entry is in exactly one place, whatever was trimmed,
\* failed or crashed: no read, reply loss or restart duplicates or forgets it.
\* A message whose handler failed stays pending for ever.
Accounted ==
    /\ enqueued = Waiting \cup pel \cup acked \cup dropped
    /\ Waiting \cap (pel \cup acked \cup dropped) = {}
    /\ pel \cap (acked \cup dropped) = {}
    /\ acked \cap dropped = {}
    /\ failed \subseteq pel

\* No entry is handled by two consumers, and what is handled is pending.
OneHandler ==
    \A c, d \in Consumers : held[c] # None =>
        /\ held[c] \in pel
        /\ c # d => held[c] # held[d]

\* However the workers' unlocked accesses to the counter interleave, one that
\* gets past the guard of the marketing lane owes it to another: since its own
\* last reset some other worker has stored the counter.  No number of its own
\* passes over empty lanes is enough.
OwnSkipsNeverAdmit ==
    AntiStarvationRatio > 0 =>
        \A c \in Consumers : at[c] \in {"admitted", "marketing"} => c \in raised

\* The life of an entry as the abstract specification sees it.
StatusOf(m) ==
    IF m \notin enqueued THEN "absent"
    ELSE IF m \in Waiting THEN "queued"
    ELSE IF m \in dropped THEN "dropped"
    ELSE IF m \in acked THEN "done"
    ELSE IF \E c \in Consumers : held[c] = m THEN "running"
    ELSE "stranded"

Abstract == INSTANCE AtMostOnce WITH status <- [m \in Msgs |-> StatusOf(m)]

\* Every step of the queue is a legal move of AtMostOnce: an entry is handed
\* out at most once and never returns to the queue.
HandedOutAtMostOnce == Abstract!Spec

\* An OTP or transactional message leaves the backlog eventually, even with
\* consumers crashing and reads failing.  Msgs is finite, so the OTP traffic
\* that precedes a transactional message ends; priority is strict, and an
\* endless stream of OTPs would starve the other lanes by design.
UrgentLanesDrain ==
    \A m \in Msgs : LaneOf[m] # "marketing" =>
        (m \in Waiting ~> m \notin Waiting)

\* Documentation (docs/requirement.md 10.2): lower lanes get an allowance of
\* one job per ten, so a waiting marketing message is read eventually.
MarketingDrains ==
    \A m \in Msgs : LaneOf[m] = "marketing" =>
        (m \in Waiting ~> m \notin Waiting)

\* Documentation (docs/requirement.md 27): a message whose publish failed is
\* requeued, and dead-lettered after its last attempt; so a failed message is
\* eventually waiting again or dead.
FailedIsRequeuedOrDead ==
    \A m \in Msgs : m \in failed ~> m \in dead \cup Waiting

\* Documentation (docs/requirement.md 27, "Account exceeds max queue depth"):
\* existing queued jobs continue; the depth limit never removes one.
QueuedJobsContinue == dropped = {}

\* With a single worker the counter is reset on the way to every gate, so the
\* marketing lane is never read, whatever the (positive) ratio.
SingleWorkerStarvesMarketing ==
    \A m \in pel \cup acked : LaneOf[m] # "marketing"
=============================================================================
