-------------------------- MODULE SchedulerProofs --------------------------
(* Machine-checked proofs about Scheduler, for every set of messages and of  *)
(* server processes, every batch size and number of failures and crashes.    *)
EXTENDS Scheduler, FiniteSetTheorems, WellFoundedInduction, TLAPS

-----------------------------------------------------------------------------
(* Lemmas about the batch *)

\* The loop takes a message of its batch.
LEMMA CurrentInBatch ==
    ASSUME TypeOK, NEW r \in Replicas, batch[r] # {}
    PROVE  Current(r) \in batch[r]
<1>1. batch[r] \subseteq Nat
    BY SchedulerAssumption DEF TypeOK
<1>2. IsWellFoundedOn(OpToRel(<, Nat), Nat)
    BY NatLessThanWellFounded
<1>3. PICK m \in batch[r] : \A n \in batch[r] : ~(<<n, m>> \in OpToRel(<, Nat))
    BY <1>1, <1>2, WFMin
<1>4. ASSUME NEW n \in batch[r] PROVE m <= n
    <2>1. n \in Nat /\ m \in Nat
        BY <1>1
    <2>2. n < m => <<n, m>> \in OpToRel(<, Nat)
        BY <2>1 DEF OpToRel
    <2>3. ~(<<n, m>> \in OpToRel(<, Nat))
        BY <1>3, Zenon
    <2>4. ~(n < m)
        BY <2>2, <2>3, Zenon
    <2>5. QED BY <2>1, <2>4
<1>5. QED BY <1>4 DEF Current

\* Going on to the next message.
LEMMA ContinueTyped ==
    ASSUME TypeOK, NEW r \in Replicas, Continue(r)
    PROVE  /\ at' \in [Replicas -> {"idle", "loop", "enqueue"}]
           /\ batch' \in [Replicas -> SUBSET Msgs]
           /\ \A s \in Replicas : at'[s] = "idle" <=> batch'[s] = {}
           /\ \A s \in Replicas : at'[s] = "enqueue" => s # r /\ at[s] = "enqueue"
           /\ \A s \in Replicas \ {r} : at'[s] = at[s] /\ batch'[s] = batch[s]
           /\ batch'[r] = batch[r] \ {Current(r)}
BY DEF Continue, TypeOK

-----------------------------------------------------------------------------
(* Type correctness *)

\* The initial state is typed.
LEMMA InitTyped == Init => TypeOK
BY SchedulerAssumption DEF Init, TypeOK

\* Entries are added to the message at hand, some or none.
LEMMA AddEntriesTyped ==
    ASSUME TypeOK, NEW r \in Replicas, Current(r) \in Msgs,
           NEW k \in 0..Attempts \cup 1..Attempts, AddEntries(r, k)
    PROVE  enqueued' \in [Msgs -> Nat]
<1>1. k \in Nat /\ enqueued \in [Msgs -> Nat]
    BY SchedulerAssumption DEF TypeOK
<1>2. enqueued' = [enqueued EXCEPT ![Current(r)] = enqueued[Current(r)] + k]
    BY DEF AddEntries
<1>3. enqueued[Current(r)] + k \in Nat
    BY <1>1
<1>4. QED BY <1>1, <1>2, <1>3

\* A step of one process keeps the types.
LEMMA ProcessDueTyped ==
    ASSUME TypeOK, NEW r \in Replicas, ProcessDue(r)
    PROVE  TypeOK'
<1>1. CASE Poll(r)
    BY <1>1 DEF Poll, Batch, Due, bounds, TypeOK
<1>2. CASE SkipUnreadable(r)
    BY <1>2, ContinueTyped DEF SkipUnreadable, bounds, TypeOK
<1>3. ASSUME at[r] # "idle" PROVE Current(r) \in Msgs
    BY <1>3, CurrentInBatch DEF TypeOK
<1>4. Released(Current(r)) \in [Msgs -> {"absent", "scheduled", "pending"}]
    BY DEF Released, TypeOK
<1>5. CASE Release(r)
    <2>1. CASE /\ row' = Released(Current(r))
               /\ at' = [at EXCEPT ![r] = "enqueue"]
               /\ UNCHANGED <<batch, lost, bounds>>
        BY <1>4, <1>5, <2>1 DEF Release, bounds, TypeOK
    <2>2. CASE /\ CallFails
               /\ \/ UNCHANGED <<row, lost>>
                  \/ row' = Released(Current(r)) /\ lost' = lost \cup {Current(r)}
               /\ Continue(r)
        <3>1. lost' \subseteq Msgs /\ row' \in [Msgs -> {"absent", "scheduled", "pending"}]
            BY <1>3, <1>4, <1>5, <2>2 DEF Release, TypeOK
        <3>2. errors' \in 0..MaxErrors /\ crashes' = crashes
            BY <2>2, SchedulerAssumption DEF CallFails, TypeOK
        <3>3. QED BY <1>5, <2>2, <3>1, <3>2, ContinueTyped DEF Release, TypeOK
    <2>3. QED BY <1>5, <2>1, <2>2 DEF Release
<1>6. CASE Enqueue(r)
    <2>1. Current(r) \in Msgs
        BY <1>3, <1>6 DEF Enqueue
    <2>2. enqueued' \in [Msgs -> Nat]
        BY <1>6, <2>1, AddEntriesTyped DEF Enqueue, TypeOK
    <2>3. QED BY <1>6, <2>2, ContinueTyped DEF Enqueue, bounds, TypeOK
<1>7. CASE EnqueueFails(r)
    <2>1. Current(r) \in Msgs
        BY <1>3, <1>7 DEF EnqueueFails
    <2>2. enqueued' \in [Msgs -> Nat]
        BY <1>7, <2>1, AddEntriesTyped DEF EnqueueFails, TypeOK
    <2>3. /\ lost' \subseteq Msgs /\ reverted' \subseteq Msgs
          /\ row' \in [Msgs -> {"absent", "scheduled", "pending"}]
        BY <1>4, <1>7, <2>1 DEF EnqueueFails, TypeOK
    <2>4. errors' \in 0..MaxErrors /\ crashes' = crashes
        BY <1>7, SchedulerAssumption DEF EnqueueFails, CallFails, TypeOK
    <2>5. QED BY <1>7, <2>2, <2>3, <2>4, ContinueTyped DEF EnqueueFails, TypeOK
<1>8. QED BY <1>1, <1>2, <1>5, <1>6, <1>7 DEF ProcessDue

\* So does every step.
LEMMA NextTyped == TypeOK /\ [Next]_vars => TypeOK'
<1> SUFFICES ASSUME TypeOK, [Next]_vars PROVE TypeOK'
    OBVIOUS
<1> USE DEF replicas, bounds
<1>1. ASSUME NEW m \in Msgs, ScheduleSend(m) PROVE TypeOK'
    BY <1>1 DEF ScheduleSend, TypeOK
<1>2. CASE Tick
    BY <1>2 DEF Tick, TypeOK
<1>3. ASSUME NEW r \in Replicas, ProcessDue(r) PROVE TypeOK'
    BY <1>3, ProcessDueTyped
<1>4. ASSUME NEW r \in Replicas, Crash(r) PROVE TypeOK'
    <2>1. lost' \subseteq Msgs
        BY <1>4, CurrentInBatch DEF Crash, TypeOK
    <2>2. crashes' \in 0..MaxCrashes
        BY <1>4, SchedulerAssumption DEF Crash, TypeOK
    <2>3. QED BY <1>4, <2>1, <2>2 DEF Crash, TypeOK
<1>5. CASE UNCHANGED vars
    BY <1>5 DEF vars, TypeOK
<1>6. QED BY <1>1, <1>2, <1>3, <1>4, <1>5 DEF Next

\* Types are kept; a process is idle exactly when its batch is empty.
THEOREM TypeCorrect == Spec => []TypeOK
BY InitTyped, NextTyped, PTL DEF Spec

-----------------------------------------------------------------------------
(* No released message is dropped quietly *)

\* A step of one process keeps the account of every message.
LEMMA ProcessDueKeepsAccount ==
    ASSUME TypeOK, PendingIsAccounted, NEW r \in Replicas, ProcessDue(r)
    PROVE  PendingIsAccounted'
<1> SUFFICES ASSUME NEW m \in Msgs, row'[m] = "pending"
             PROVE  \/ enqueued'[m] > 0
                    \/ m \in lost'
                    \/ \E s \in Replicas : at'[s] = "enqueue" /\ Current(s)' = m
    BY DEF PendingIsAccounted
<1>1. /\ row \in [Msgs -> {"absent", "scheduled", "pending"}] /\ enqueued \in [Msgs -> Nat]
      /\ at \in [Replicas -> {"idle", "loop", "enqueue"}]
      /\ batch \in [Replicas -> SUBSET Msgs]
    BY DEF TypeOK
<1>2. row[m] = "pending" =>
          \/ enqueued[m] > 0
          \/ m \in lost
          \/ \E s \in Replicas : at[s] = "enqueue" /\ Current(s) = m
    BY DEF PendingIsAccounted
<1>3. ASSUME NEW s \in Replicas, at'[s] = "enqueue", batch'[s] = batch[s], Current(s) = m
      PROVE  \E q \in Replicas : at'[q] = "enqueue" /\ Current(q)' = m
    BY <1>3 DEF Current
<1>4. CASE Poll(r)
    BY <1>1, <1>2, <1>3, <1>4 DEF Poll
<1>5. CASE SkipUnreadable(r)
    BY <1>1, <1>2, <1>3, <1>5, ContinueTyped DEF SkipUnreadable
<1>6. CASE Release(r)
    <2>1. row[m] = "pending" \/ m = Current(r)
        BY <1>1, <1>6 DEF Release, Released
    <2>2. CASE /\ row' = Released(Current(r))
               /\ at' = [at EXCEPT ![r] = "enqueue"]
               /\ UNCHANGED <<batch, lost, bounds>>
        <3>1. enqueued' = enqueued /\ lost' = lost
            BY <1>6, <2>2 DEF Release
        <3>2. \A s \in Replicas : batch'[s] = batch[s] /\ (at[s] = "enqueue" => at'[s] = "enqueue")
            BY <1>1, <2>2
        <3>3. at'[r] = "enqueue"
            BY <1>1, <2>2
        <3>4. CASE m = Current(r)
            BY <1>3, <3>2, <3>3, <3>4
        <3>5. CASE row[m] = "pending"
            BY <1>2, <1>3, <3>1, <3>2, <3>5
        <3>6. QED BY <2>1, <3>4, <3>5
    <2>3. CASE CallFails /\ UNCHANGED <<row, lost>> /\ Continue(r)
        BY <1>1, <1>2, <1>3, <1>6, <2>3, ContinueTyped DEF Release
    <2>4. CASE CallFails /\ lost' = lost \cup {Current(r)} /\ Continue(r)
        BY <1>1, <1>2, <1>3, <1>6, <2>1, <2>4, ContinueTyped DEF Release
    <2>5. QED BY <1>6, <2>2, <2>3, <2>4 DEF Release
<1>7. CASE Enqueue(r)
    <2>1. CASE m = Current(r)
        <3>1. PICK k \in 1..Attempts : enqueued' = [enqueued EXCEPT ![m] = @ + k]
            BY <1>7, <2>1 DEF Enqueue, AddEntries
        <3>2. enqueued'[m] > 0
            BY <1>1, <3>1, SchedulerAssumption
        <3>3. QED BY <3>2
    <2>2. CASE m # Current(r)
        <3>1. row[m] = "pending" /\ enqueued'[m] = enqueued[m] /\ lost' = lost /\ Continue(r)
            BY <1>1, <1>7, <2>2 DEF Enqueue, AddEntries
        <3>2. QED BY <1>1, <1>2, <1>3, <1>7, <2>2, <3>1, ContinueTyped
    <2>3. QED BY <2>1, <2>2
<1>8. CASE EnqueueFails(r)
    <2>1. CASE m = Current(r)
        BY <1>8, <2>1 DEF EnqueueFails
    <2>2. CASE m # Current(r)
        <3>1. row[m] = "pending" /\ enqueued'[m] = enqueued[m]
            BY <1>1, <1>8, <2>2 DEF EnqueueFails, AddEntries, Released
        <3>2. QED BY <1>1, <1>2, <1>3, <1>8, <2>2, <3>1, ContinueTyped DEF EnqueueFails
    <2>3. QED BY <2>1, <2>2
<1>9. QED BY <1>4, <1>5, <1>6, <1>7, <1>8 DEF ProcessDue

\* Every step keeps the account, a crash included.
LEMMA NextKeepsAccount == TypeOK /\ PendingIsAccounted /\ [Next]_vars => PendingIsAccounted'
<1> SUFFICES ASSUME TypeOK, PendingIsAccounted, [Next]_vars PROVE PendingIsAccounted'
    OBVIOUS
<1> USE DEF replicas, bounds
<1>1. ASSUME NEW m \in Msgs, ScheduleSend(m) PROVE PendingIsAccounted'
    BY <1>1 DEF ScheduleSend, TypeOK, PendingIsAccounted, Current
<1>2. CASE Tick \/ UNCHANGED vars
    BY <1>2 DEF Tick, vars, PendingIsAccounted, Current
<1>3. ASSUME NEW r \in Replicas, ProcessDue(r) PROVE PendingIsAccounted'
    BY <1>3, ProcessDueKeepsAccount
<1>4. ASSUME NEW r \in Replicas, Crash(r) PROVE PendingIsAccounted'
    <2>1. /\ row' = row /\ enqueued' = enqueued /\ lost \subseteq lost'
          /\ at[r] = "enqueue" => Current(r) \in lost'
        BY <1>4 DEF Crash
    <2>2. \A s \in Replicas \ {r} : at'[s] = at[s] /\ batch'[s] = batch[s]
        BY <1>4 DEF Crash, TypeOK
    <2>3. ASSUME NEW s \in Replicas \ {r} PROVE Current(s)' = Current(s)
        BY <2>2 DEF Current
    <2>4. SUFFICES ASSUME NEW m \in Msgs, row'[m] = "pending"
                   PROVE  \/ enqueued'[m] > 0
                          \/ m \in lost'
                          \/ \E s \in Replicas : at'[s] = "enqueue" /\ Current(s)' = m
        BY DEF PendingIsAccounted
    <2>5. \/ enqueued[m] > 0
          \/ m \in lost
          \/ \E s \in Replicas : at[s] = "enqueue" /\ Current(s) = m
        BY <2>1, <2>4 DEF PendingIsAccounted
    <2>6. CASE \E s \in Replicas : at[s] = "enqueue" /\ Current(s) = m
        <3>1. PICK s \in Replicas : at[s] = "enqueue" /\ Current(s) = m
            BY <2>6
        <3>2. CASE s = r
            BY <2>1, <3>1, <3>2
        <3>3. CASE s # r
            BY <2>2, <2>3, <3>1, <3>3
        <3>4. QED BY <3>2, <3>3
    <2>7. QED BY <2>1, <2>5, <2>6
<1>5. QED BY <1>1, <1>2, <1>3, <1>4 DEF Next

\* Every row that left "scheduled" is on the queue, in the hands of a process,
\* or was taken by a failure, with any number of processes.
THEOREM PendingIsAccountedHolds == Spec => []PendingIsAccounted
<1>1. Init => PendingIsAccounted
    BY DEF Init, PendingIsAccounted
<1>2. QED BY <1>1, TypeCorrect, NextKeepsAccount, PTL DEF Spec

-----------------------------------------------------------------------------
(* Each process calls Enqueue for a message at most once *)

\* the processes that have a message in their batch
Holders(m) == {r \in Replicas : m \in batch[r]}

\* the processes that have let go of a message, or never had it
Others(m) == Cardinality(Replicas) - Cardinality(Holders(m))

\* A message on the queue has left "scheduled" for good, so no process polls it
\* again; until then, those that hold it may each call Enqueue once.
PerProcessInv ==
    /\ \A m \in Msgs : row[m] # "pending" => enqueued[m] = 0
    /\ \A r \in Replicas : \A m \in batch[r] : row[m] # "absent"
    /\ \A r \in Replicas : at[r] = "enqueue" => row[Current(r)] = "pending"
    /\ \A m \in Msgs : enqueued[m] <= Attempts * Others(m)

\* Some of finitely many are finitely many, and no more.
LEMMA SomeOf ==
    ASSUME NEW S, IsFiniteSet(S), NEW T, T \subseteq S
    PROVE  /\ IsFiniteSet(T)
           /\ Cardinality(T) \in Nat /\ Cardinality(S) \in Nat
           /\ Cardinality(T) <= Cardinality(S)
BY FS_Subset, FS_CardinalityType

\* The processes that do not hold a message.
LEMMA OthersCounted ==
    ASSUME IsFiniteSet(Replicas), NEW m
    PROVE  Others(m) \in 0..Cardinality(Replicas) /\ Others(m)' \in 0..Cardinality(Replicas)
<1>1. Holders(m) \subseteq Replicas /\ Holders(m)' \subseteq Replicas
    BY DEF Holders
<1>2. QED BY <1>1, SomeOf DEF Others

\* What more of them may have added.
LEMMA MoreAttempts ==
    ASSUME NEW x \in Nat, NEW y \in Nat
    PROVE  /\ Attempts * x \in Nat
           /\ x <= y => Attempts * x <= Attempts * y
           /\ y = x + 1 => Attempts * y = Attempts * x + Attempts
BY SchedulerAssumption

\* Who goes on to the next message has let go of this one.
LEMMA ContinueLetsGo ==
    ASSUME TypeOK, IsFiniteSet(Replicas), NEW r \in Replicas, batch[r] # {}, Continue(r),
           NEW m \in Msgs
    PROVE  /\ Others(m) <= Others(m)'
           /\ m = Current(r) => Others(m)' = Others(m) + 1
<1>1. Holders(m)' = IF m = Current(r) THEN Holders(m) \ {r} ELSE Holders(m)
    BY ContinueTyped DEF Holders
<1>2. IsFiniteSet(Holders(m)) /\ Cardinality(Holders(m)) \in Nat
    BY SomeOf DEF Holders
<1>3. m = Current(r) => r \in Holders(m)
    BY CurrentInBatch DEF Holders
<1>4. Cardinality(Holders(m) \ {r}) =
          IF r \in Holders(m) THEN Cardinality(Holders(m)) - 1 ELSE Cardinality(Holders(m))
    BY <1>2, FS_RemoveElement, Zenon
<1>5. Cardinality(Holders(m) \ {r}) \in Nat
    BY <1>2, FS_RemoveElement, FS_CardinalityType
<1>6. Cardinality(Replicas) \in Nat
    BY FS_CardinalityType
<1>7. QED BY <1>1, <1>2, <1>3, <1>4, <1>5, <1>6 DEF Others

\* A step of one process: rows and batches.
LEMMA ProcessDueKeepsRows ==
    ASSUME TypeOK, PerProcessInv, NEW r \in Replicas, ProcessDue(r)
    PROVE  /\ \A m \in Msgs : row[m] = "pending" => row'[m] = "pending"
           /\ \A s \in Replicas : \A m \in batch'[s] : row'[m] # "absent"
           /\ \A s \in Replicas : at'[s] = "enqueue" => row'[Current(s)'] = "pending"
<1>1. /\ row \in [Msgs -> {"absent", "scheduled", "pending"}]
      /\ at \in [Replicas -> {"idle", "loop", "enqueue"}]
      /\ batch \in [Replicas -> SUBSET Msgs]
      /\ \A s \in Replicas : at[s] = "idle" <=> batch[s] = {}
    BY DEF TypeOK
<1>2. \A s \in Replicas : batch'[s] = batch[s] => Current(s)' = Current(s)
    BY DEF Current
<1>3. \A s \in Replicas : at[s] # "idle" => Current(s) \in batch[s] /\ Current(s) \in Msgs
    BY <1>1, CurrentInBatch
<1>4. /\ \A s \in Replicas : \A m \in batch[s] : row[m] # "absent"
      /\ \A s \in Replicas : at[s] = "enqueue" => row[Current(s)] = "pending"
    BY DEF PerProcessInv
<1>5. row' = row \/ row' = Released(Current(r))
    BY DEF ProcessDue, Poll, SkipUnreadable, Release, Enqueue, EnqueueFails
<1>6. \A m \in Msgs : row[m] = "pending" => row'[m] = "pending"
    BY <1>1, <1>5 DEF Released
<1>7. \A m \in Msgs : row[m] # "absent" => row'[m] # "absent"
    BY <1>1, <1>5 DEF Released
<1>8. CASE Poll(r)
    <2>1. /\ row' = row /\ batch' = [batch EXCEPT ![r] = Batch] /\ at' = [at EXCEPT ![r] = "loop"]
          /\ \A m \in Batch : row[m] # "absent"
        BY <1>8 DEF Poll, Batch, Due
    <2>2. QED BY <1>1, <1>2, <1>4, <2>1
<1>9. CASE at[r] # "idle" /\ Continue(r)
    <2>1. \A s \in Replicas : batch'[s] \subseteq batch[s]
        BY <1>9, ContinueTyped
    <2>2. \A s \in Replicas : \A m \in batch'[s] : row'[m] # "absent"
        BY <1>1, <1>4, <1>7, <2>1
    <2>3. \A s \in Replicas : at'[s] = "enqueue" =>
              /\ at[s] = "enqueue" /\ batch'[s] = batch[s]
        BY <1>9, ContinueTyped
    <2>4. QED BY <1>2, <1>3, <1>4, <1>6, <2>2, <2>3
<1>10. CASE /\ at[r] = "loop"
            /\ row' = Released(Current(r))
            /\ at' = [at EXCEPT ![r] = "enqueue"]
            /\ batch' = batch
    <2>1. row'[Current(r)] = "pending"
        BY <1>1, <1>3, <1>4, <1>10 DEF Released
    <2>2. QED BY <1>1, <1>2, <1>3, <1>4, <1>6, <1>7, <1>10, <2>1
<1>11. \/ Poll(r)
       \/ at[r] # "idle" /\ Continue(r)
       \/ /\ at[r] = "loop"
          /\ row' = Released(Current(r))
          /\ at' = [at EXCEPT ![r] = "enqueue"]
          /\ batch' = batch
    BY DEF ProcessDue, SkipUnreadable, Release, Enqueue, EnqueueFails
<1>12. QED BY <1>6, <1>8, <1>9, <1>10, <1>11

\* A step of one process keeps the count: what it adds to the queue it no
\* longer holds, and what it polls is not on the queue.
LEMMA ProcessDueKeepsCount ==
    ASSUME TypeOK, PerProcessInv, IsFiniteSet(Replicas), NEW r \in Replicas, ProcessDue(r),
           NEW m \in Msgs
    PROVE  /\ row'[m] # "pending" => enqueued'[m] = 0
           /\ enqueued'[m] <= Attempts * Others(m)'
<1>1. /\ row \in [Msgs -> {"absent", "scheduled", "pending"}] /\ enqueued \in [Msgs -> Nat]
      /\ batch \in [Replicas -> SUBSET Msgs]
      /\ \A s \in Replicas : at[s] = "idle" <=> batch[s] = {}
      /\ enqueued[m] \in Nat
    BY DEF TypeOK
<1>2. /\ row[m] # "pending" => enqueued[m] = 0
      /\ at[r] = "enqueue" => row[Current(r)] = "pending"
      /\ enqueued[m] <= Attempts * Others(m)
    BY DEF PerProcessInv
<1>3. row[m] = "pending" => row'[m] = "pending"
    BY ProcessDueKeepsRows
<1>4. /\ Others(m) \in Nat /\ Others(m)' \in Nat
      /\ Attempts * Others(m) \in Nat /\ Attempts * Others(m)' \in Nat
      /\ Others(m) <= Others(m)' => Attempts * Others(m) <= Attempts * Others(m)'
      /\ Others(m)' = Others(m) + 1 =>
             Attempts * Others(m)' = Attempts * Others(m) + Attempts
    <2>1. Others(m) \in Nat /\ Others(m)' \in Nat
        BY OthersCounted, SomeOf
    <2>2. QED BY <2>1, MoreAttempts
<1>5. CASE Poll(r)
    <2>1. /\ enqueued' = enqueued /\ row' = row /\ batch' = [batch EXCEPT ![r] = Batch]
          /\ batch[r] = {}
        BY <1>1, <1>5 DEF Poll
    <2>2. CASE m \in Batch
        <3>1. row[m] = "scheduled"
            BY <2>2 DEF Batch, Due
        <3>2. QED BY <1>2, <1>4, <2>1, <3>1
    <2>3. CASE m \notin Batch
        <3>1. Others(m)' = Others(m)
            BY <1>1, <2>1, <2>3 DEF Others, Holders
        <3>2. QED BY <1>2, <2>1, <3>1
    <2>4. QED BY <2>2, <2>3
<1>6. CASE /\ at[r] # "idle"
           /\ enqueued' = enqueued
           /\ Continue(r) \/ batch' = batch
    <2>1. Others(m) <= Others(m)'
        <3>1. CASE Continue(r)
            BY <1>1, <1>6, <3>1, ContinueLetsGo
        <3>2. CASE batch' = batch
            <4>1. Others(m)' = Others(m)
                BY <3>2 DEF Others, Holders
            <4>2. QED BY <1>4, <4>1
        <3>3. QED BY <1>6, <3>1, <3>2
    <2>2. QED BY <1>1, <1>2, <1>3, <1>4, <1>6, <2>1
<1>7. CASE /\ at[r] = "enqueue"
           /\ \E k \in 0..Attempts : AddEntries(r, k)
           /\ Continue(r)
    <2>1. /\ Others(m) <= Others(m)'
          /\ m = Current(r) => Others(m)' = Others(m) + 1
        BY <1>1, <1>7, ContinueLetsGo
    <2>2. PICK k \in 0..Attempts : AddEntries(r, k)
        BY <1>7
    <2>3. CASE m = Current(r)
        <3>1. row'[m] = "pending"
            BY <1>2, <1>3, <1>7, <2>3
        <3>2. enqueued'[m] = enqueued[m] + k
            BY <1>1, <2>2, <2>3 DEF AddEntries
        <3>3. QED BY <1>1, <1>2, <1>4, <2>1, <2>3, <3>1, <3>2, SchedulerAssumption
    <2>4. CASE m # Current(r)
        <3>1. enqueued'[m] = enqueued[m]
            BY <1>1, <2>2, <2>4 DEF AddEntries
        <3>2. QED BY <1>1, <1>2, <1>3, <1>4, <2>1, <3>1
    <2>5. QED BY <2>3, <2>4
<1>8. \/ Poll(r)
      \/ /\ at[r] # "idle"
         /\ enqueued' = enqueued
         /\ Continue(r) \/ batch' = batch
      \/ /\ at[r] = "enqueue"
         /\ \E k \in 0..Attempts : AddEntries(r, k)
         /\ Continue(r)
    <2>1. 1..Attempts \subseteq 0..Attempts
        BY SchedulerAssumption
    <2>2. QED BY <2>1 DEF ProcessDue, SkipUnreadable, Release, Enqueue, EnqueueFails
<1>9. QED BY <1>5, <1>6, <1>7, <1>8

\* Every step keeps the strengthening.
LEMMA NextKeepsPerProcess ==
    IsFiniteSet(Replicas) /\ TypeOK /\ PerProcessInv /\ [Next]_vars => PerProcessInv'
<1> SUFFICES ASSUME IsFiniteSet(Replicas), TypeOK, PerProcessInv, [Next]_vars
             PROVE  PerProcessInv'
    OBVIOUS
<1> USE DEF replicas, bounds
<1>1. ASSUME NEW m \in Msgs, ScheduleSend(m) PROVE PerProcessInv'
    <2>1. /\ row[m] = "absent" /\ row' = [row EXCEPT ![m] = "scheduled"]
          /\ at' = at /\ batch' = batch /\ enqueued' = enqueued
        BY <1>1 DEF ScheduleSend
    <2>2. /\ \A s \in Replicas : Current(s)' = Current(s)
          /\ \A n \in Msgs : Others(n)' = Others(n)
        BY <2>1 DEF Current, Others, Holders
    <2>3. row \in [Msgs -> {"absent", "scheduled", "pending"}] /\ batch \in [Replicas -> SUBSET Msgs]
        BY DEF TypeOK
    <2>4. \A s \in Replicas : at[s] = "enqueue" => Current(s) \in Msgs
        BY CurrentInBatch DEF TypeOK
    <2>5. \A n \in Msgs : /\ row'[n] # "pending" => row[n] # "pending"
                          /\ row[n] # "absent" => row'[n] = row[n]
        BY <2>1, <2>3
    <2>6. \A n \in Msgs : row'[n] # "pending" => enqueued'[n] = 0
        BY <2>1, <2>5 DEF PerProcessInv
    <2>7. \A s \in Replicas : \A n \in batch'[s] : row'[n] # "absent"
        BY <2>1, <2>3, <2>5 DEF PerProcessInv
    <2>8. \A s \in Replicas : at'[s] = "enqueue" => row'[Current(s)'] = "pending"
        BY <2>1, <2>2, <2>4, <2>5 DEF PerProcessInv
    <2>9. \A n \in Msgs : enqueued'[n] <= Attempts * Others(n)'
        BY <2>1, <2>2 DEF PerProcessInv
    <2>10. QED BY <2>6, <2>7, <2>8, <2>9 DEF PerProcessInv, Others, Holders
<1>2. CASE Tick \/ UNCHANGED vars
    BY <1>2 DEF Tick, vars, PerProcessInv, Others, Holders, Current
<1>3. ASSUME NEW r \in Replicas, ProcessDue(r) PROVE PerProcessInv'
    <2>1. /\ \A n \in Msgs : row'[n] # "pending" => enqueued'[n] = 0
          /\ \A n \in Msgs : enqueued'[n] <= Attempts * Others(n)'
        BY <1>3, ProcessDueKeepsCount
    <2>2. QED BY <1>3, <2>1, ProcessDueKeepsRows DEF PerProcessInv, Others, Holders
<1>4. ASSUME NEW r \in Replicas, Crash(r) PROVE PerProcessInv'
    <2>1. /\ row' = row /\ enqueued' = enqueued
          /\ at'[r] = "idle" /\ batch'[r] = {}
          /\ \A s \in Replicas \ {r} : at'[s] = at[s] /\ batch'[s] = batch[s]
        BY <1>4 DEF Crash, TypeOK
    <2>2. \A s \in Replicas \ {r} : Current(s)' = Current(s)
        BY <2>1 DEF Current
    <2>3. ASSUME NEW n \in Msgs
          PROVE  enqueued'[n] <= Attempts * Others(n)'
        <3>1. Holders(n)' \subseteq Holders(n) /\ Holders(n) \subseteq Replicas
            BY <2>1 DEF Holders
        <3>2. IsFiniteSet(Holders(n)) /\ Cardinality(Replicas) \in Nat
            BY <3>1, SomeOf
        <3>3. /\ Cardinality(Holders(n)') <= Cardinality(Holders(n))
              /\ Cardinality(Holders(n)') \in Nat /\ Cardinality(Holders(n)) \in Nat
            BY <3>1, <3>2, SomeOf
        <3>4. Others(n) <= Others(n)' /\ Others(n) \in Nat /\ Others(n)' \in Nat
            BY <3>2, <3>3, OthersCounted DEF Others
        <3>5. enqueued[n] <= Attempts * Others(n) /\ enqueued[n] \in Nat
            BY DEF PerProcessInv, TypeOK
        <3>6. /\ Attempts * Others(n) \in Nat /\ Attempts * Others(n)' \in Nat
              /\ Attempts * Others(n) <= Attempts * Others(n)'
            BY <3>4, MoreAttempts
        <3>7. QED BY <2>1, <3>5, <3>6
    <2>4. /\ \A s \in Replicas : \A n \in batch'[s] : row'[n] # "absent"
          /\ \A s \in Replicas : at'[s] = "enqueue" => row'[Current(s)'] = "pending"
        BY <2>1, <2>2 DEF PerProcessInv
    <2>5. QED BY <2>1, <2>3, <2>4 DEF PerProcessInv, Others, Holders
<1>5. QED BY <1>1, <1>2, <1>3, <1>4 DEF Next

\* The "revert" after a failed Enqueue repeats the release, and like every other
\* step it never makes a released row scheduled again.
THEOREM RevertReschedulesNothing ==
    Spec => [][\A m \in Msgs : row[m] = "pending" => row'[m] = "pending"]_vars
<1>1. ASSUME TypeOK, [Next]_vars, NEW m \in Msgs, row[m] = "pending" PROVE row'[m] = "pending"
    <2>1. ASSUME NEW r \in Replicas, ProcessDue(r) PROVE row'[m] = "pending"
        <3>1. row' = row \/ row' = Released(Current(r))
            BY <2>1 DEF ProcessDue, Poll, SkipUnreadable, Release, Enqueue, EnqueueFails
        <3>2. QED BY <1>1, <3>1 DEF Released, TypeOK
    <2>2. ASSUME NEW n \in Msgs, ScheduleSend(n) PROVE row'[m] = "pending"
        BY <1>1, <2>2 DEF ScheduleSend, TypeOK
    <2>3. CASE Tick \/ (\E r \in Replicas : Crash(r)) \/ UNCHANGED vars
        BY <1>1, <2>3 DEF Tick, Crash, vars
    <2>4. QED BY <1>1, <2>1, <2>2, <2>3 DEF Next
<1>2. TypeOK /\ [Next]_vars => [\A m \in Msgs : row[m] = "pending" => row'[m] = "pending"]_vars
    BY <1>1
<1>3. QED BY <1>2, TypeCorrect, PTL DEF Spec

\* With any number of processes, polls, failures, lost replies and restarts, a
\* message gets at most the entries of one XADD, repeated by the client, from
\* each process: with one process and no repetition, a single entry.
THEOREM EachProcessEnqueuesOneCall ==
    ASSUME IsFiniteSet(Replicas)
    PROVE  Spec => []EnqueuedPerProcess
<1>0. IsFiniteSet(Replicas)
    OBVIOUS
<1>1. Init => PerProcessInv
    <2> SUFFICES ASSUME Init PROVE PerProcessInv
        OBVIOUS
    <2>1. \A m \in Msgs : enqueued[m] <= Attempts * Others(m)
        <3>1. \A m \in Msgs : enqueued[m] = 0
            BY DEF Init
        <3>2. \A m \in Msgs : Others(m) \in Nat
            BY <1>0, OthersCounted, SomeOf
        <3>3. QED BY <3>1, <3>2, MoreAttempts
    <2>2. QED BY <2>1 DEF Init, PerProcessInv
<1>2. TypeOK /\ PerProcessInv => EnqueuedPerProcess
    <2> SUFFICES ASSUME TypeOK, PerProcessInv, NEW m \in Msgs
                 PROVE  enqueued[m] <= Attempts * Cardinality(Replicas)
        BY DEF EnqueuedPerProcess
    <2>1. Others(m) \in Nat /\ Cardinality(Replicas) \in Nat /\ Others(m) <= Cardinality(Replicas)
        BY <1>0, OthersCounted, SomeOf
    <2>2. enqueued[m] \in Nat /\ enqueued[m] <= Attempts * Others(m)
        BY DEF TypeOK, PerProcessInv
    <2>3. /\ Attempts * Others(m) \in Nat /\ Attempts * Cardinality(Replicas) \in Nat
          /\ Attempts * Others(m) <= Attempts * Cardinality(Replicas)
        BY <2>1, MoreAttempts
    <2>4. QED BY <2>2, <2>3
<1>3. QED BY <1>0, <1>1, <1>2, TypeCorrect, NextKeepsPerProcess, PTL DEF Spec
=============================================================================
