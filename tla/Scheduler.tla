----------------------------- MODULE Scheduler -----------------------------
(***************************************************************************)
(* backend/internal/scheduler/scheduler.go: every server process polls the *)
(* messages table for scheduled messages that are due and puts them on the *)
(* queue.  Each step is one call to PostgreSQL or Redis; the Redis client  *)
(* repeats a command whose reply is lost, so that one Enqueue may add      *)
(* several entries.                                                        *)
(*                                                                         *)
(* A message is named by its scheduled_at: the clock and the messages are  *)
(* numbers.  Bodies in Unreadable do not decrypt.                          *)
(***************************************************************************)
EXTENDS Integers, FiniteSets

CONSTANTS
    Msgs,
    Unreadable,
    Replicas,   \* server processes
    BatchSize,  \* 50 in the code
    Attempts,   \* times the Redis client sends a command: MaxRetries + 1
    MaxErrors,  \* bound: calls that fail
    MaxCrashes  \* bound: restarts

ASSUME SchedulerAssumption ==
    /\ IsFiniteSet(Msgs) /\ Msgs \subseteq Nat \ {0}
    /\ Unreadable \subseteq Msgs
    /\ BatchSize \in Nat \ {0}
    /\ Attempts \in Nat \ {0}
    /\ MaxErrors \in Nat /\ MaxCrashes \in Nat

VARIABLES
    now,        \* the clock
    row,        \* status of each message's row; "absent" before it is made
    at,         \* where each replica is in processDue
    batch,      \* the messages of its poll it has not finished
    enqueued,   \* how many times each message entered the queue
    reverted,   \* messages whose Enqueue failed and whose revert succeeded
    lost,       \* history: messages a failed call or a crash took out of the loop
    errors, crashes

replicas == <<at, batch>>
bounds == <<errors, crashes>>
vars == <<now, row, replicas, enqueued, reverted, lost, bounds>>

Init ==
    /\ now = 0
    /\ row = [m \in Msgs |-> "absent"]
    /\ at = [r \in Replicas |-> "idle"]
    /\ batch = [r \in Replicas |-> {}]
    /\ enqueued = [m \in Msgs |-> 0]
    /\ reverted = {} /\ lost = {}
    /\ errors = 0 /\ crashes = 0

-----------------------------------------------------------------------------

\* GetScheduledMessages: the BatchSize earliest due messages
Due == {m \in Msgs : row[m] = "scheduled" /\ m <= now}

\* Mistake: an off-by-one in the limit.
BatchShort == {m \in Due : Cardinality({n \in Due : n < m}) < BatchSize - 1}
Batch == {m \in Due : Cardinality({n \in Due : n < m}) < BatchSize}

\* the loop takes them in the order of scheduled_at
Current(r) == CHOOSE m \in batch[r] : \A n \in batch[r] : m <= n

Continue(r) ==
    LET rest == batch[r] \ {Current(r)}
    IN  /\ batch' = [batch EXCEPT ![r] = rest]
        /\ at' = [at EXCEPT ![r] = IF rest = {} THEN "idle" ELSE "loop"]

\* ReleaseScheduled: UPDATE ... SET status = 'pending' WHERE status = 'scheduled'
Released(m) == [row EXCEPT ![m] = IF @ = "scheduled" THEN "pending" ELSE @]

CallFails ==
    /\ errors < MaxErrors
    /\ errors' = errors + 1
    /\ UNCHANGED crashes

\* the handler ScheduleSend accepts times in the future only
ScheduleSend(m) ==
    /\ row[m] = "absent"
    /\ m > now
    /\ row' = [row EXCEPT ![m] = "scheduled"]
    /\ UNCHANGED <<now, replicas, enqueued, reverted, lost, bounds>>

Tick ==
    /\ \E m \in Msgs : now < m
    /\ now' = now + 1
    /\ UNCHANGED <<row, replicas, enqueued, reverted, lost, bounds>>

Poll(r) ==
    /\ at[r] = "idle"
    /\ Batch # {}
    /\ batch' = [batch EXCEPT ![r] = Batch]
    /\ at' = [at EXCEPT ![r] = "loop"]
    /\ UNCHANGED <<now, row, enqueued, reverted, lost, bounds>>

\* a body that does not decrypt is skipped; its row stays scheduled
SkipUnreadable(r) ==
    /\ at[r] = "loop"
    /\ Current(r) \in Unreadable
    /\ Continue(r)
    /\ UNCHANGED <<now, row, enqueued, reverted, lost, bounds>>

\* the update succeeds even when no row matched; when it fails the message is
\* skipped, although the database may have executed it
Release(r) ==
    /\ at[r] = "loop"
    /\ Current(r) \notin Unreadable
    /\ \/ /\ row' = Released(Current(r))
          /\ at' = [at EXCEPT ![r] = "enqueue"]
          /\ UNCHANGED <<batch, lost, bounds>>
       \/ /\ CallFails
          /\ \/ UNCHANGED <<row, lost>>
             \/ row' = Released(Current(r)) /\ lost' = lost \cup {Current(r)}
          /\ Continue(r)
    /\ UNCHANGED <<now, enqueued, reverted>>

\* k attempts of one XADD are served
AddEntries(r, k) == enqueued' = [enqueued EXCEPT ![Current(r)] = @ + k]

\* the last attempt is served and answered
Enqueue(r) ==
    /\ at[r] = "enqueue"
    /\ \E k \in 1..Attempts : AddEntries(r, k)
    /\ Continue(r)
    /\ UNCHANGED <<now, row, reverted, lost, bounds>>

\* Mistakes: the failure is not noticed; the revert puts the row back although
\* only the reply of the Enqueue was lost.
EnqueueFailsUnnoticed(r) ==
    /\ at[r] = "enqueue"
    /\ CallFails
    /\ Continue(r)
    /\ UNCHANGED <<now, row, enqueued, reverted, lost>>

EnqueueFailsAndReverts(r) ==
    /\ at[r] = "enqueue"
    /\ CallFails
    /\ \E k \in 0..Attempts : AddEntries(r, k)
    /\ row' = [row EXCEPT ![Current(r)] = "scheduled"]
    /\ reverted' = reverted \cup {Current(r)}
    /\ lost' = lost \cup {Current(r)}
    /\ Continue(r)
    /\ UNCHANGED now

\* No attempt of the XADD is answered: each may have been served or not.  The
\* revert calls ReleaseScheduled again, which finds no scheduled row, and may
\* itself fail.
EnqueueFails(r) ==
    /\ at[r] = "enqueue"
    /\ CallFails
    /\ \E k \in 0..Attempts : AddEntries(r, k)
    /\ \/ row' = Released(Current(r)) /\ reverted' = reverted \cup {Current(r)}
       \/ UNCHANGED <<row, reverted>>
    /\ lost' = lost \cup {Current(r)}
    /\ Continue(r)
    /\ UNCHANGED now

\* a process dies in the middle of its batch and starts again
Crash(r) ==
    /\ crashes < MaxCrashes
    /\ crashes' = crashes + 1
    /\ lost' = IF at[r] = "enqueue" THEN lost \cup {Current(r)} ELSE lost
    /\ at' = [at EXCEPT ![r] = "idle"]
    /\ batch' = [batch EXCEPT ![r] = {}]
    /\ UNCHANGED <<now, row, enqueued, reverted, errors>>

ProcessDue(r) ==
    \/ Poll(r)
    \/ SkipUnreadable(r)
    \/ Release(r)
    \/ Enqueue(r)
    \/ EnqueueFails(r)

Next ==
    \/ \E m \in Msgs : ScheduleSend(m)
    \/ Tick
    \/ \E r \in Replicas : ProcessDue(r) \/ Crash(r)

Spec == Init /\ [][Next]_vars

(* The ticker fires every five seconds and the loop ends; time passes. *)
FairSpec == Spec /\ WF_vars(Tick) /\ \A r \in Replicas : WF_vars(ProcessDue(r))

-----------------------------------------------------------------------------
(* Properties *)

\* Shapes; a process is idle exactly when it has no batch to go through.
TypeOK ==
    /\ now \in Nat
    /\ row \in [Msgs -> {"absent", "scheduled", "pending"}]
    /\ at \in [Replicas -> {"idle", "loop", "enqueue"}]
    /\ batch \in [Replicas -> SUBSET Msgs]
    /\ \A r \in Replicas : at[r] = "idle" <=> batch[r] = {}
    /\ enqueued \in [Msgs -> Nat]
    /\ reverted \subseteq Msgs /\ lost \subseteq Msgs
    /\ errors \in 0..MaxErrors /\ crashes \in 0..MaxCrashes

\* Every row that left "scheduled" is on the queue, in the hands of a replica,
\* or was taken by a failure: no path through the loop drops a message
\* quietly.
PendingIsAccounted ==
    \A m \in Msgs : row[m] = "pending" =>
        \/ enqueued[m] > 0
        \/ m \in lost
        \/ \E r \in Replicas : at[r] = "enqueue" /\ Current(r) = m

\* With any number of processes, each of them calls Enqueue for a message at
\* most once, so that a message has at most Attempts entries for each, over all
\* polls, failures, lost replies and restarts: a process that has seen a message
\* released never picks it up again.  docs/requirement.md:697 (duplicate-send
\* rate 0%) asks for one entry; neither the release, whose row count nothing
\* looks at, nor the XADD, which the client repeats, ensures it.
EnqueuedPerProcess ==
    \A m \in Msgs : enqueued[m] <= Attempts * Cardinality(Replicas)

\* scheduler.go:17: the scheduler polls for due scheduled messages and
\* enqueues them.  Holds while fewer unreadable rows than a batch are due.
DueIsEnqueued ==
    \A m \in Msgs \ Unreadable :
        row[m] = "scheduled" ~> enqueued[m] > 0 \/ m \in lost

\* scheduler.go:150-152: after a failed Enqueue the message is reverted to
\* scheduled, to be sent after all.
RevertedIsEnqueued ==
    \A m \in Msgs : m \in reverted ~> enqueued[m] > 0
=============================================================================
