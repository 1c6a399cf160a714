--------------------------- MODULE DispatchProofs ---------------------------
(* Machine-checked proofs about Dispatch, for every set of messages, of      *)
(* devices and of workers, every limit, threshold and number of crashes.     *)
EXTENDS Dispatch, FiniteSetTheorems, TLAPS

\* A worker's message is running, and no other worker has it.
Holding ==
    /\ \A w \in Workers : msg[w] # None => job[msg[w]] = "running"
    /\ \A v, w \in Workers : msg[v] = msg[w] /\ msg[w] # None => v = w

\* What a worker knows of its message agrees with what was sent.
WorkerKnows(w) ==
    /\ Trying(w) => confirmed[msg[w]] = {}
    /\ Trying(w) /\ ~err[w] => uncertain[msg[w]] = {}
    /\ at[w] \in {"record", "count"} => confirmed[msg[w]] = {Current(w)}

\* A message's status and row agree with what was sent; nothing was done for a
\* message that is still queued.
MessageOK(m) ==
    /\ \A d, e \in confirmed[m] : d = e
    /\ job[m] = "queued" => confirmed[m] = {} /\ uncertain[m] = {}
    /\ job[m] = "done" /\ confirmed[m] = {} => uncertain[m] = {}
    /\ job[m] = "stranded" /\ confirmed[m] # {} => crashes > 0
    /\ row[m].status = "delivered" => confirmed[m] # {}
    /\ row[m].device # None => row[m].device \in confirmed[m]

IInv ==
    /\ TypeOK
    /\ Holding
    /\ \A w \in Workers : WorkerKnows(w)
    /\ \A m \in Msgs : MessageOK(m)

-----------------------------------------------------------------------------
(* Lemmas about the breaker's operations *)

\* Each operation maps a circuitState to a circuitState.
LEMMA BreakerTyped ==
    ASSUME NEW b \in B!Breaker
    PROVE  /\ B!Fresh \in B!Breaker
           /\ B!AfterFailure(b) \in B!Breaker
           /\ B!AfterSuccess(b) \in B!Breaker
           /\ B!AfterGetState(b) \in B!Breaker
           /\ [b EXCEPT !.cooling = FALSE] \in B!Breaker
<1>1. B!Fresh \in B!Breaker
    BY DEF B!Fresh, B!Breaker, B!States
<1>2. [b EXCEPT !.cooling = FALSE] \in B!Breaker
    BY DEF B!Breaker
<1>3. B!AfterGetState(b) \in B!Breaker
    BY DEF B!AfterGetState, B!Breaker, B!States
<1>4. B!AfterSuccess(b) \in B!Breaker
    <2>1. [B!Fresh EXCEPT !.cooling = b.cooling] \in B!Breaker
        BY DEF B!Fresh, B!Breaker, B!States
    <2>2. CASE b.state = "HALF_OPEN"
        <3> DEFINE c == [b EXCEPT !.successes = @ + 1]
                   e == [c EXCEPT !.trial = @ + 1]
        <3>1. c \in B!Breaker /\ c.trial = b.trial
            BY DEF B!Breaker
        <3> HIDE DEF c
        <3>2. e \in B!Breaker
            BY <3>1 DEF B!Breaker
        <3> USE DEF c
        <3>3. e = [b EXCEPT !.successes = @ + 1, !.trial = @ + 1]
            BY DEF B!Breaker
        <3>4. B!AfterSuccess(b) = IF b.trial + 1 >= HalfOpenSuccesses
                                  THEN [B!Fresh EXCEPT !.cooling = b.cooling] ELSE e
            BY <2>2, <3>3 DEF B!AfterSuccess
        <3> HIDE DEF e
        <3>5. QED BY <2>1, <3>2, <3>4
    <2>3. CASE b.state = "CLOSED"
        BY <2>3 DEF B!AfterSuccess, B!Breaker, B!States
    <2>4. CASE b.state = "OPEN"
        BY <2>4 DEF B!AfterSuccess, B!Breaker, B!States
    <2>5. QED BY <2>2, <2>3, <2>4 DEF B!Breaker, B!States
<1>5. B!AfterFailure(b) \in B!Breaker
    <2> DEFINE c == [b EXCEPT !.failures = @ + 1]
    <2>1. c \in B!Breaker
        BY DEF B!Breaker
    <2>2. B!Tripped(c) \in B!Breaker
        BY <2>1 DEF B!Tripped, B!Breaker, B!States
    <2>3. [B!Tripped(c) EXCEPT !.successes = 0] \in B!Breaker
        BY <2>2 DEF B!Breaker
    <2>4. QED BY <2>1, <2>2, <2>3 DEF B!AfterFailure
<1>6. QED BY <1>1, <1>2, <1>3, <1>4, <1>5

-----------------------------------------------------------------------------
(* Type correctness *)

\* The candidates are a sequence of devices.
LEMMA CandidatesTyped ==
    ASSUME NEW s \in Candidates PROVE s \in Seq(Devices)
BY DispatchAssumption DEF Candidates

\* The initial state is typed.
LEMMA InitTyped == Init => TypeOK
<1>1. B!Fresh \in B!Breaker
    BY DEF B!Fresh, B!Breaker, B!States
<1>2. QED BY <1>1, DispatchAssumption DEF Init, TypeOK, Statuses, Places

\* A step of processMessage keeps the types.
LEMMA HandleTyped ==
    ASSUME TypeOK, NEW w \in Workers, Handle(w)
    PROVE  TypeOK'
<1> USE DEF outside, redis, bounds
<1>1. /\ msg[w] = None <=> at[w] = "idle"
      /\ todo[w] \in Seq(Devices)
      /\ at[w] \in {"limit", "publish", "record", "count"} => todo[w] # <<>>
      /\ None \notin Msgs
    BY DispatchAssumption DEF TypeOK
<1>2. CASE Refuse(w)
    BY <1>1, <1>2 DEF Refuse, Return, TypeOK, Statuses, Places
<1>3. CASE Route(w)
    BY <1>1, <1>3, CandidatesTyped DEF Route, TypeOK, Places
<1>4. CASE Gate(w)
    <2>1. Current(w) \in Devices /\ Tail(todo[w]) \in Seq(Devices)
        BY <1>1, <1>4 DEF Gate, Current
    <2>2. breaker' \in [Devices -> B!Breaker]
        BY <1>4, <2>1, BreakerTyped DEF Gate, TypeOK
    <2>3. CASE NextDevice(w)
        <3>1. at' \in [Workers -> Places] /\ todo' \in [Workers -> Seq(Devices)]
            BY <2>1, <2>3 DEF NextDevice, TypeOK, Places
        <3>2. /\ \A v \in Workers : msg'[v] = None <=> at'[v] = "idle"
              /\ \A v \in Workers : at'[v] \in {"limit", "publish", "record", "count"} => todo'[v] # <<>>
            BY <1>1, <1>4, <2>3 DEF Gate, NextDevice, TypeOK
        <3>3. UNCHANGED <<msg, served, err, redis, outside, row, bounds>>
            BY <1>4, <2>3 DEF Gate, NextDevice
        <3>4. QED BY <2>2, <3>1, <3>2, <3>3 DEF TypeOK
    <2>4. CASE at' = [at EXCEPT ![w] = "limit"] /\ UNCHANGED <<msg, todo>>
        <3>1. at' \in [Workers -> Places] /\ todo' \in [Workers -> Seq(Devices)]
            BY <2>4 DEF TypeOK, Places
        <3>2. /\ \A v \in Workers : msg'[v] = None <=> at'[v] = "idle"
              /\ \A v \in Workers : at'[v] \in {"limit", "publish", "record", "count"} => todo'[v] # <<>>
            BY <1>1, <1>4, <2>4 DEF Gate, TypeOK
        <3>3. UNCHANGED <<msg, served, err, redis, outside, row, bounds>>
            BY <1>4, <2>4 DEF Gate
        <3>4. QED BY <2>2, <3>1, <3>2, <3>3 DEF TypeOK
    <2>5. QED BY <1>4, <2>3, <2>4 DEF Gate
<1>5. CASE Admit(w)
    BY <1>1, <1>5 DEF Admit, TypeOK, Places
<1>6. CASE Decline(w)
    <2>1. Tail(todo[w]) \in Seq(Devices)
        BY <1>1, <1>6 DEF Decline
    <2>2. QED BY <1>1, <1>6, <2>1 DEF Decline, NextDevice, TypeOK, Places
<1>7. CASE Confirm(w)
    <2>1. Current(w) \in Devices /\ msg[w] \in Msgs
        BY <1>1, <1>7 DEF Confirm, Current, TypeOK
    <2>2. QED BY <1>1, <1>7, <2>1 DEF Confirm, TypeOK, Places
<1>8. CASE PublishFails(w)
    <2>1. Current(w) \in Devices /\ msg[w] \in Msgs /\ Tail(todo[w]) \in Seq(Devices)
        BY <1>1, <1>8 DEF PublishFails, Current, TypeOK
    <2>2. breaker' \in [Devices -> B!Breaker]
        BY <1>8, <2>1, BreakerTyped DEF PublishFails, TypeOK
    <2>3. inbox' \in [Msgs -> SUBSET Devices] /\ uncertain' \in [Msgs -> SUBSET Devices]
        <3>1. /\ inbox[msg[w]] \cup {Current(w)} \in SUBSET Devices
              /\ uncertain[msg[w]] \cup {Current(w)} \in SUBSET Devices
            BY <2>1 DEF TypeOK
        <3>2. inbox' = inbox \/ inbox' = [inbox EXCEPT ![msg[w]] = @ \cup {Current(w)}]
            BY <1>8 DEF PublishFails
        <3>3. inbox' \in [Msgs -> SUBSET Devices]
            BY <3>1, <3>2 DEF TypeOK
        <3>4. uncertain' \in [Msgs -> SUBSET Devices]
            BY <1>8, <3>1 DEF PublishFails, TypeOK
        <3>5. QED BY <3>3, <3>4
    <2>4. QED BY <1>1, <1>8, <2>1, <2>2, <2>3 DEF PublishFails, NextDevice, TypeOK, Places
<1>9. CASE Record(w)
    <2>1. Current(w) \in Devices /\ msg[w] \in Msgs
        BY <1>1, <1>9 DEF Record, Current, TypeOK
    <2>2. row' \in [Msgs -> [status : {"pending", "delivered"}, device : Devices \cup {None}]]
        <3>1. PICK s \in {row[msg[w]].status, "delivered"}, d \in {row[msg[w]].device, Current(w)} :
                 row' = [row EXCEPT ![msg[w]] = [status |-> s, device |-> d]]
            BY <1>9 DEF Record
        <3>2. row \in [Msgs -> [status : {"pending", "delivered"}, device : Devices \cup {None}]]
            BY DEF TypeOK
        <3>3. s \in {"pending", "delivered"} /\ d \in Devices \cup {None}
            BY <2>1, <3>2
        <3>4. QED BY <3>1, <3>2, <3>3
    <2>3. QED BY <1>1, <1>9, <2>1, <2>2 DEF Record, TypeOK, Places
<1>10. CASE Count(w)
    <2>1. Current(w) \in Devices /\ msg[w] \in Msgs
        BY <1>1, <1>10 DEF Count, Current, TypeOK
    <2>2. breaker' \in [Devices -> B!Breaker]
        BY <1>10, <2>1, BreakerTyped DEF Count, TypeOK
    <2>3. QED BY <1>1, <1>10, <2>1, <2>2, DispatchAssumption
             DEF Count, Return, TypeOK, Places, Statuses
<1>11. CASE Exhaust(w)
    BY <1>1, <1>11 DEF Exhaust, Return, TypeOK, Statuses, Places
<1>12. CASE Increment(w)
    <2>1. Current(w) \in Devices
        BY <1>1, <1>12 DEF Increment, Current
    <2>2. rate' \in [Devices -> Nat] /\ served' \in [Workers -> 0..Attempts]
        BY <1>12, <2>1, DispatchAssumption DEF Increment, TypeOK
    <2>3. QED BY <1>12, <2>2 DEF Increment, TypeOK
<1>13. QED BY <1>2, <1>3, <1>4, <1>5, <1>6, <1>7, <1>8, <1>9, <1>10, <1>11, <1>12 DEF Handle

\* Every step keeps the types.
LEMMA NextTyped == TypeOK /\ [Next]_vars => TypeOK'
<1> SUFFICES ASSUME TypeOK, [Next]_vars PROVE TypeOK'
    OBVIOUS
<1> USE DEF outside, redis, memory, bounds
<1>1. CASE UNCHANGED vars
    BY <1>1 DEF vars, TypeOK, B!Breaker
<1>2. ASSUME NEW w \in Workers, Handle(w) PROVE TypeOK'
    BY <1>2, HandleTyped
<1>3. ASSUME NEW w \in Workers, NEW m \in Msgs, Take(w, m) PROVE TypeOK'
    BY <1>3, DispatchAssumption DEF Take, TypeOK, Statuses, Places
<1>4. ASSUME NEW d \in Devices, CooldownElapses(d) PROVE TypeOK'
    <2>1. breaker' \in [Devices -> B!Breaker]
        BY <1>4, BreakerTyped DEF CooldownElapses, TypeOK
    <2>2. QED BY <1>4, <2>1 DEF CooldownElapses, TypeOK
<1>5. CASE NextWindow
    BY <1>5, DispatchAssumption DEF NextWindow, TypeOK
<1>6. CASE Crash
    <2>1. B!Fresh \in B!Breaker
        BY DEF B!Fresh, B!Breaker, B!States
    <2>2. QED BY <1>6, <2>1, DispatchAssumption DEF Crash, TypeOK, Statuses, Places
<1>7. QED BY <1>1, <1>2, <1>3, <1>4, <1>5, <1>6 DEF Next

\* Types are kept; a worker holds a message exactly while it is not idle.
THEOREM TypeCorrect == Spec => []TypeOK
BY InitTyped, NextTyped, PTL DEF Spec

-----------------------------------------------------------------------------
(* The outcome of a message agrees with what was sent for it *)

\* Nothing was sent or is held in the initial state.
LEMMA InitIInv == Init => IInv
<1> SUFFICES ASSUME Init PROVE IInv
    OBVIOUS
<1>1. TypeOK
    BY InitTyped
<1>2. Holding /\ \A w \in Workers : WorkerKnows(w)
    BY DispatchAssumption DEF Init, Holding, WorkerKnows, Trying
<1>3. \A m \in Msgs : MessageOK(m)
    BY DEF Init, MessageOK
<1>4. QED BY <1>1, <1>2, <1>3 DEF IInv

\* A step of worker w that disturbs only its own message has to answer only
\* for itself and for that message.
LEMMA OneWorkerStep ==
    ASSUME IInv, TypeOK', NEW w \in Workers, NEW m \in Msgs, msg[w] = m,
           \A v \in Workers \ {w} :
               /\ at'[v] = at[v] /\ msg'[v] = msg[v]
               /\ todo'[v] = todo[v] /\ err'[v] = err[v],
           \A x \in Msgs \ {m} :
               /\ job'[x] = job[x] /\ row'[x] = row[x]
               /\ confirmed'[x] = confirmed[x] /\ uncertain'[x] = uncertain[x],
           crashes' = crashes,
           msg'[w] = None \/ (msg'[w] = m /\ job'[m] = "running"),
           WorkerKnows(w)', MessageOK(m)'
    PROVE  IInv'
<1>1. ASSUME NEW v \in Workers, v # w PROVE msg[v] # m
    BY <1>1, DispatchAssumption DEF IInv, Holding
<1>2. ASSUME NEW v \in Workers, v # w, msg[v] # None
      PROVE  /\ msg[v] \in Msgs \ {m}
             /\ job'[msg[v]] = job[msg[v]]
             /\ confirmed'[msg[v]] = confirmed[msg[v]]
             /\ uncertain'[msg[v]] = uncertain[msg[v]]
    <2>1. msg[v] \in Msgs \ {m}
        BY <1>1, <1>2 DEF IInv, TypeOK
    <2>2. QED BY <2>1
<1>3. Holding'
    <2>1. ASSUME NEW v \in Workers, msg'[v] # None PROVE job'[msg'[v]] = "running"
        BY <1>2, <2>1 DEF IInv, Holding
    <2>2. ASSUME NEW u \in Workers, NEW v \in Workers, msg'[u] = msg'[v], msg'[v] # None
          PROVE  u = v
        BY <1>1, <2>2 DEF IInv, Holding
    <2>3. QED BY <2>1, <2>2 DEF Holding
<1>4. ASSUME NEW v \in Workers PROVE WorkerKnows(v)'
    <2>1. CASE v = w
        BY <2>1
    <2>2. CASE v # w /\ msg[v] # None
        BY <1>2, <2>2 DEF IInv, WorkerKnows, Trying, Current
    <2>3. CASE v # w /\ msg[v] = None
        <3>1. at'[v] = "idle"
            BY <2>3 DEF IInv, TypeOK
        <3>2. QED BY <3>1 DEF WorkerKnows, Trying
    <2>4. QED BY <2>1, <2>2, <2>3
<1>5. ASSUME NEW x \in Msgs PROVE MessageOK(x)'
    <2>1. CASE x = m
        BY <2>1
    <2>2. CASE x # m
        BY <2>2 DEF IInv, MessageOK
    <2>3. QED BY <2>1, <2>2
<1>6. QED BY <1>3, <1>4, <1>5 DEF IInv

\* Every step of processMessage keeps the invariant.
LEMMA HandleKeeps ==
    ASSUME IInv, NEW w \in Workers, Handle(w)
    PROVE  IInv'
<1> USE DEF outside, redis, bounds
<1>1. TypeOK'
    BY HandleTyped DEF IInv
<1>m. PICK m \in Msgs : msg[w] = m
    <2>1. at[w] # "idle"
        BY DEF Handle, Refuse, Route, Gate, Admit, Decline, Confirm, PublishFails,
               Record, Increment, Count, Exhaust
    <2>2. QED BY <2>1 DEF IInv, TypeOK
<1>2. /\ msg[w] = m
      /\ job[m] = "running"
      /\ WorkerKnows(w) /\ MessageOK(m)
      /\ None \notin Devices /\ None \notin Msgs
    BY <1>m, DispatchAssumption DEF IInv, Holding
<1>3. /\ at \in [Workers -> Places] /\ msg \in [Workers -> Msgs \cup {None}]
      /\ job \in [Msgs -> Statuses] /\ err \in [Workers -> BOOLEAN]
      /\ todo \in [Workers -> Seq(Devices)]
      /\ confirmed \in [Msgs -> SUBSET Devices] /\ uncertain \in [Msgs -> SUBSET Devices]
      /\ row \in [Msgs -> [status : {"pending", "delivered"}, device : Devices \cup {None}]]
    BY DEF IInv, TypeOK
<1>4. CASE Refuse(w)
    <2>1. WorkerKnows(w)' /\ MessageOK(m)'
        BY <1>2, <1>3, <1>4 DEF Refuse, Return, WorkerKnows, MessageOK, Trying, Current
    <2>2. QED BY <1>1, <1>2, <1>3, <1>4, <2>1, OneWorkerStep DEF Refuse, Return
<1>5. CASE Route(w)
    <2>1. WorkerKnows(w)' /\ MessageOK(m)'
        BY <1>2, <1>3, <1>5 DEF Route, WorkerKnows, MessageOK, Trying, Current
    <2>2. \A v \in Workers \ {w} : todo'[v] = todo[v]
        BY <1>3, <1>5 DEF Route
    <2>3. QED BY <1>1, <1>2, <1>3, <1>5, <2>1, <2>2, OneWorkerStep DEF Route
<1>6. CASE Gate(w)
    <2>1. WorkerKnows(w)' /\ MessageOK(m)'
        BY <1>2, <1>3, <1>6 DEF Gate, NextDevice, WorkerKnows, MessageOK, Trying, Current
    <2>2. QED BY <1>1, <1>2, <1>3, <1>6, <2>1, OneWorkerStep DEF Gate, NextDevice
<1>7. CASE Admit(w)
    <2>1. WorkerKnows(w)' /\ MessageOK(m)'
        BY <1>2, <1>3, <1>7 DEF Admit, WorkerKnows, MessageOK, Trying, Current
    <2>2. QED BY <1>1, <1>2, <1>3, <1>7, <2>1, OneWorkerStep DEF Admit
<1>8. CASE Decline(w)
    <2>1. WorkerKnows(w)' /\ MessageOK(m)'
        BY <1>2, <1>3, <1>8 DEF Decline, NextDevice, WorkerKnows, MessageOK, Trying, Current
    <2>2. QED BY <1>1, <1>2, <1>3, <1>8, <2>1, OneWorkerStep DEF Decline, NextDevice
<1>9. CASE Confirm(w)
    <2>1. confirmed[m] = {} /\ confirmed'[m] = {Current(w)}
        BY <1>2, <1>3, <1>9 DEF Confirm, WorkerKnows, Trying
    <2>2. WorkerKnows(w)' /\ MessageOK(m)'
        BY <1>2, <1>3, <1>9, <2>1 DEF Confirm, WorkerKnows, MessageOK, Trying, Current
    <2>3. QED BY <1>1, <1>2, <1>3, <1>9, <2>2, OneWorkerStep DEF Confirm
<1>10. CASE PublishFails(w)
    <2>1. WorkerKnows(w)' /\ MessageOK(m)'
        BY <1>2, <1>3, <1>10 DEF PublishFails, NextDevice, WorkerKnows, MessageOK, Trying, Current
    <2>2. QED BY <1>1, <1>2, <1>3, <1>10, <2>1, OneWorkerStep DEF PublishFails, NextDevice
<1>11. CASE Record(w)
    <2>1. PICK s \in {row[m].status, "delivered"}, d \in {row[m].device, Current(w)} :
             row' = [row EXCEPT ![m] = [status |-> s, device |-> d]]
        BY <1>2, <1>11 DEF Record
    <2>2. confirmed'[m] = {Current(w)} /\ confirmed' = confirmed
        BY <1>2, <1>11 DEF Record, WorkerKnows
    <2>3. row'[m].device \in {row[m].device, Current(w)}
        BY <1>2, <1>3, <2>1
    <2>4. WorkerKnows(w)' /\ MessageOK(m)'
        BY <1>2, <1>3, <1>11, <2>2, <2>3 DEF Record, WorkerKnows, MessageOK, Trying, Current
    <2>5. \A x \in Msgs \ {m} : row'[x] = row[x]
        BY <1>3, <2>1
    <2>6. QED BY <1>1, <1>2, <1>3, <1>11, <2>4, <2>5, OneWorkerStep DEF Record
<1>12. CASE Count(w)
    <2>1. WorkerKnows(w)' /\ MessageOK(m)'
        BY <1>2, <1>3, <1>12 DEF Count, Return, WorkerKnows, MessageOK, Trying, Current
    <2>2. QED BY <1>1, <1>2, <1>3, <1>12, <2>1, OneWorkerStep DEF Count, Return
<1>13. CASE Exhaust(w)
    <2>1. WorkerKnows(w)' /\ MessageOK(m)'
        BY <1>2, <1>3, <1>13 DEF Exhaust, Return, WorkerKnows, MessageOK, Trying, Current
    <2>2. QED BY <1>1, <1>2, <1>3, <1>13, <2>1, OneWorkerStep DEF Exhaust, Return
<1>14. CASE Increment(w)
    BY <1>1, <1>14 DEF Increment, IInv, Holding, WorkerKnows, Trying, Current, MessageOK
<1>15. QED BY <1>4, <1>5, <1>6, <1>7, <1>8, <1>9, <1>10, <1>11, <1>12, <1>13, <1>14
         DEF Handle

\* Every step keeps the invariant.
LEMMA NextKeeps == IInv /\ [Next]_vars => IInv'
<1> SUFFICES ASSUME IInv, [Next]_vars PROVE IInv'
    OBVIOUS
<1> USE DEF outside, redis, memory, bounds
<1>1. TypeOK'
    BY NextTyped DEF IInv
<1>2. ASSUME NEW w \in Workers, Handle(w) PROVE IInv'
    BY <1>2, HandleKeeps
<1>3. ASSUME NEW w \in Workers, NEW m \in Msgs, Take(w, m) PROVE IInv'
    <2>1. /\ msg[w] = None /\ m # None
          /\ msg \in [Workers -> Msgs \cup {None}]
          /\ at \in [Workers -> Places] /\ job \in [Msgs -> Statuses]
        BY <1>3, DispatchAssumption DEF IInv, TypeOK, Take
    <2>2. ASSUME NEW v \in Workers PROVE msg[v] # m
        BY <1>3, <2>1 DEF IInv, Holding, Take
    <2>3. Holding'
        BY <1>3, <2>1, <2>2 DEF IInv, Holding, Take
    <2>4. MessageOK(m)
        BY DEF IInv
    <2>5. confirmed[m] = {} /\ uncertain[m] = {}
        BY <1>3, <2>4 DEF MessageOK, Take
    <2>6. ASSUME NEW v \in Workers PROVE WorkerKnows(v)'
        <3>1. CASE v = w
            BY <1>3, <2>1, <2>5, <3>1 DEF Take, WorkerKnows, Trying
        <3>2. CASE v # w
            BY <1>3, <2>1, <3>2 DEF IInv, Take, WorkerKnows, Trying, Current
        <3>3. QED BY <3>1, <3>2
    <2>7. ASSUME NEW x \in Msgs PROVE MessageOK(x)'
        BY <1>3, <2>1 DEF IInv, Take, MessageOK
    <2>8. QED BY <1>1, <2>3, <2>6, <2>7 DEF IInv
<1>4. ASSUME UNCHANGED <<job, at, msg, todo, err, confirmed, uncertain, row, crashes>>
      PROVE  IInv'
    BY <1>1, <1>4 DEF IInv, Holding, WorkerKnows, Trying, Current, MessageOK
<1>5. ASSUME NEW d \in Devices, CooldownElapses(d) PROVE IInv'
    BY <1>4, <1>5 DEF CooldownElapses
<1>6. CASE NextWindow
    BY <1>4, <1>6 DEF NextWindow
<1>7. CASE UNCHANGED vars
    BY <1>4, <1>7 DEF vars
<1>8. CASE Crash
    <2>1. Holding' /\ \A w \in Workers : WorkerKnows(w)'
        BY <1>8 DEF Crash, Holding, WorkerKnows, Trying
    <2>2. crashes' \in Nat \ {0} /\ job \in [Msgs -> Statuses]
        BY <1>8, DispatchAssumption DEF IInv, TypeOK, Crash
    <2>3. ASSUME NEW m \in Msgs PROVE MessageOK(m)'
        BY <1>8, <2>2 DEF IInv, Crash, MessageOK
    <2>4. QED BY <1>1, <2>1, <2>3 DEF IInv
<1>9. QED BY <1>2, <1>3, <1>5, <1>6, <1>7, <1>8 DEF Next

\* The invariant holds in every reachable state.
LEMMA AlwaysIInv == Spec => []IInv
BY InitIInv, NextKeeps, PTL DEF Spec

\* At most one device is confirmed for a message, and no worker goes on trying
\* devices for a confirmed one.
THEOREM OneConfirmedSendHolds == Spec => []OneConfirmedSend
<1>1. IInv => OneConfirmedSend
    BY DEF IInv, MessageOK, WorkerKnows, OneConfirmedSend
<1>2. QED BY <1>1, AlwaysIInv, PTL

\* What the queue is told agrees with what was sent.
THEOREM OutcomeMatchesSendsHolds == Spec => []OutcomeMatchesSends
<1>1. IInv => OutcomeMatchesSends
    BY DEF IInv, MessageOK, OutcomeMatchesSends
<1>2. QED BY <1>1, AlwaysIInv, PTL

\* A row says delivered, or names a device, only for a confirmed send.
THEOREM RowNamesSenderHolds == Spec => []RowNamesSender
<1>1. IInv => RowNamesSender
    BY DEF IInv, MessageOK, RowNamesSender
<1>2. QED BY <1>1, AlwaysIInv, PTL

-----------------------------------------------------------------------------
(* The overshoot of the rate limit *)

\* The workers that passed the check for device d and have not returned, and
\* the increments of its counter that Redis may still serve for them.
Past(d) == {w \in Workers : at[w] \in {"publish", "record", "count"} /\ Current(w) = d}
Slots == Workers \X (1..Attempts)
Open(d) == {p \in Slots : p[1] \in Past(d) /\ p[2] > served[p[1]]}

\* A worker that passed the check holds its increments in the count; when it
\* passed, the counter was below the limit.  With a limit of 0 nobody passes.
RateInv ==
    \A d \in Devices :
        /\ rate[d] + Cardinality(Open(d)) < DeviceLimit + Cardinality(Slots)
        /\ DeviceLimit = 0 => rate[d] = 0 /\ Past(d) = {}

\* All increments of all workers.
LEMMA SlotsFinite ==
    /\ IsFiniteSet(Slots) /\ Cardinality(Slots) \in Nat \ {0}
    /\ Cardinality(Slots) = Attempts * Cardinality(Workers)
<1>1. /\ Attempts \in Nat \ {0} /\ IsFiniteSet(Workers) /\ Workers # {}
      /\ IsFiniteSet(1..Attempts) /\ Cardinality(1..Attempts) = Attempts
    BY DispatchAssumption, FS_Interval
<1>2. Cardinality(Workers) \in Nat
    BY <1>1, FS_CardinalityType
<1>3. /\ IsFiniteSet(Slots)
      /\ Cardinality(Slots) = Cardinality(Workers) * Cardinality(1..Attempts)
    BY <1>1, FS_Product DEF Slots
<1>4. Cardinality(Slots) = Attempts * Cardinality(Workers)
    BY <1>1, <1>2, <1>3
<1>5. Slots # {}
    <2>1. PICK w \in Workers : TRUE
        BY <1>1
    <2>2. <<w, 1>> \in Slots
        BY <1>1 DEF Slots
    <2>3. QED BY <2>2
<1>6. Cardinality(Slots) \in Nat /\ Cardinality(Slots) # 0
    BY <1>3, <1>5, FS_CardinalityType, FS_EmptySet
<1>7. QED BY <1>3, <1>4, <1>6

\* What is open is some of them.
LEMMA OpenFinite ==
    ASSUME NEW T, T \subseteq Slots
    PROVE  /\ IsFiniteSet(T) /\ Cardinality(T) \in Nat
           /\ Cardinality(T) <= Cardinality(Slots)
BY SlotsFinite, FS_Subset, FS_CardinalityType

\* Less open, and no more counted: the bound is kept.
LEMMA OpenShrinks ==
    ASSUME NEW d \in Devices, NEW n \in Nat, NEW k \in Nat, NEW T,
           T \subseteq Open(d), k <= n, n + Cardinality(Open(d)) < DeviceLimit + Cardinality(Slots)
    PROVE  k + Cardinality(T) < DeviceLimit + Cardinality(Slots)
<1>1. Open(d) \subseteq Slots
    BY DEF Open
<1>2. IsFiniteSet(Open(d)) /\ Cardinality(Open(d)) \in Nat
    BY <1>1, OpenFinite
<1>3. Cardinality(T) \in Nat /\ Cardinality(T) <= Cardinality(Open(d))
    BY <1>2, FS_Subset, FS_CardinalityType
<1>4. QED BY <1>2, <1>3, SlotsFinite, DispatchAssumption

\* Nobody passed the check in the initial state.
LEMMA InitRate == Init => RateInv
<1> SUFFICES ASSUME Init, NEW d \in Devices
             PROVE  /\ rate[d] + Cardinality(Open(d)) < DeviceLimit + Cardinality(Slots)
                    /\ DeviceLimit = 0 => rate[d] = 0 /\ Past(d) = {}
    BY DEF RateInv
<1>1. rate[d] = 0 /\ Past(d) = {}
    BY DEF Init, Past
<1>2. Cardinality(Open(d)) = 0
    BY <1>1, FS_EmptySet DEF Open
<1>3. QED BY <1>1, <1>2, SlotsFinite, DispatchAssumption

\* A step in which no worker passes the check and no counter grows.
LEMMA QuietKeepsRate ==
    ASSUME TypeOK, TypeOK', RateInv,
           \A d \in Devices : rate'[d] <= rate[d] /\ Past(d)' \subseteq Past(d),
           \A d \in Devices : \A w \in Past(d)' : served'[w] >= served[w]
    PROVE  RateInv'
<1> SUFFICES ASSUME NEW d \in Devices
             PROVE  /\ rate'[d] + Cardinality(Open(d)') < DeviceLimit + Cardinality(Slots)
                    /\ DeviceLimit = 0 => rate'[d] = 0 /\ Past(d)' = {}
    BY DEF RateInv, Slots
<1>1. rate[d] \in Nat /\ rate'[d] \in Nat /\ rate'[d] <= rate[d]
    BY DEF TypeOK
<1>2. /\ rate[d] + Cardinality(Open(d)) < DeviceLimit + Cardinality(Slots)
      /\ DeviceLimit = 0 => rate[d] = 0 /\ Past(d) = {}
    BY DEF RateInv
<1>3. Past(d)' \subseteq Past(d) /\ \A w \in Past(d)' : served'[w] >= served[w]
    OBVIOUS
<1>4. Open(d)' \subseteq Open(d)
    <2> SUFFICES ASSUME NEW p \in Slots, p[1] \in Past(d)', p[2] > served'[p[1]]
                 PROVE  p[1] \in Past(d) /\ p[2] > served[p[1]]
        BY DEF Open, Slots
    <2>1. p[1] \in Workers /\ p[2] \in 1..Attempts
        BY DEF Slots
    <2>2. served[p[1]] \in Nat /\ served'[p[1]] \in Nat /\ served'[p[1]] >= served[p[1]]
        BY <1>3, <2>1, DispatchAssumption DEF TypeOK
    <2>3. QED BY <1>3, <2>1, <2>2, DispatchAssumption
<1> HIDE DEF Past
<1>5. rate'[d] + Cardinality(Open(d)') < DeviceLimit + Cardinality(Slots)
    BY <1>1, <1>2, <1>4, OpenShrinks
<1>6. QED BY <1>1, <1>2, <1>3, <1>5

\* Passing the check: the counter is below the limit.
LEMMA AdmitKeepsRate ==
    ASSUME TypeOK, RateInv, NEW w \in Workers, Admit(w)
    PROVE  RateInv'
<1> SUFFICES ASSUME NEW d \in Devices
             PROVE  /\ rate'[d] + Cardinality(Open(d)') < DeviceLimit + Cardinality(Slots)
                    /\ DeviceLimit = 0 => rate'[d] = 0 /\ Past(d)' = {}
    BY DEF RateInv, Slots
<1>1. /\ rate' = rate /\ todo' = todo /\ served' = served /\ rate[d] \in Nat
      /\ at' = [at EXCEPT ![w] = "publish"] /\ at \in [Workers -> Places]
      /\ rate[Current(w)] < DeviceLimit
      /\ Current(w) \in Devices
    BY DEF Admit, redis, WithinLimit, TypeOK, Current
<1>2. /\ rate[d] + Cardinality(Open(d)) < DeviceLimit + Cardinality(Slots)
      /\ rate[Current(w)] \in Nat
    BY <1>1 DEF RateInv, TypeOK
<1>3. DeviceLimit # 0
    BY <1>1, <1>2, DispatchAssumption
<1>4. CASE d = Current(w)
    <2>1. Open(d)' \subseteq Slots
        BY DEF Open, Slots
    <2>2. Cardinality(Open(d)') \in Nat /\ Cardinality(Open(d)') <= Cardinality(Slots)
        BY <2>1, OpenFinite
    <2>3. rate'[d] < DeviceLimit
        BY <1>1, <1>4
    <2>4. QED BY <1>1, <1>3, <2>2, <2>3, SlotsFinite, DispatchAssumption
<1>5. CASE d # Current(w)
    <2>1. Past(d)' = Past(d)
        BY <1>1, <1>5 DEF Past, Current
    <2>2. Open(d)' = Open(d)
        BY <1>1, <2>1 DEF Open, Slots
    <2>3. QED BY <1>1, <1>2, <1>3, <2>2
<1>6. QED BY <1>4, <1>5

\* An increment is served: it is counted and no longer open.
LEMMA IncrementKeepsRate ==
    ASSUME TypeOK, RateInv, NEW w \in Workers, Increment(w)
    PROVE  RateInv'
<1> SUFFICES ASSUME NEW d \in Devices
             PROVE  /\ rate'[d] + Cardinality(Open(d)') < DeviceLimit + Cardinality(Slots)
                    /\ DeviceLimit = 0 => rate'[d] = 0 /\ Past(d)' = {}
    BY DEF RateInv, Slots
<1> DEFINE k == served[w] + 1
<1>1. /\ rate \in [Devices -> Nat] /\ served \in [Workers -> 0..Attempts]
      /\ at[w] = "count" /\ UNCHANGED <<at, todo>>
      /\ Current(w) \in Devices
      /\ k \in 1..Attempts /\ served' = [served EXCEPT ![w] = k]
      /\ rate' = [rate EXCEPT ![Current(w)] = @ + 1]
    BY DispatchAssumption DEF Increment, TypeOK, Current
<1>2. /\ rate[d] + Cardinality(Open(d)) < DeviceLimit + Cardinality(Slots)
      /\ DeviceLimit = 0 => rate[d] = 0 /\ Past(d) = {}
    BY DEF RateInv
<1>3. Past(d)' = Past(d)
    BY <1>1 DEF Past, Current
<1>4. CASE d = Current(w)
    <2>1. w \in Past(d)
        BY <1>1, <1>4 DEF Past
    <2>2. <<w, k>> \in Open(d)
        BY <1>1, <2>1 DEF Open, Slots
    <2>3. Open(d)' = Open(d) \ {<<w, k>>}
        <3> SUFFICES ASSUME NEW p \in Slots, p[1] \in Past(d)
                     PROVE  p[2] > served'[p[1]] <=> p[2] > served[p[1]] /\ p # <<w, k>>
            BY <1>3 DEF Open, Slots
        <3>1. p = <<p[1], p[2]>> /\ p[1] \in Workers /\ p[2] \in Nat
            BY DispatchAssumption DEF Slots
        <3>2. CASE p[1] = w
            BY <1>1, <3>1, <3>2
        <3>3. CASE p[1] # w
            BY <1>1, <3>1, <3>3
        <3>4. QED BY <3>2, <3>3
    <2>4. IsFiniteSet(Open(d)) /\ Cardinality(Open(d)) \in Nat
        BY OpenFinite DEF Open
    <2>5. Cardinality(Open(d)') = Cardinality(Open(d)) - 1
        <3>1. Cardinality(Open(d) \ {<<w, k>>}) = Cardinality(Open(d)) - 1
            BY <2>2, <2>4, FS_RemoveElement
        <3>2. QED BY <2>3, <3>1
    <2>6. rate[d] \in Nat /\ rate'[d] = rate[d] + 1
        BY <1>1, <1>4
    <2>7. QED BY <1>2, <2>1, <2>4, <2>5, <2>6, SlotsFinite, DispatchAssumption
<1>5. CASE d # Current(w)
    <2>1. w \notin Past(d)
        BY <1>5 DEF Past
    <2>2. Open(d)' = Open(d)
        <3> SUFFICES ASSUME NEW p \in Slots, p[1] \in Past(d)
                     PROVE  served'[p[1]] = served[p[1]]
            BY <1>3 DEF Open, Slots
        <3>1. p[1] \in Workers /\ p[1] # w
            BY <2>1 DEF Slots
        <3>2. QED BY <1>1, <3>1
    <2>3. QED BY <1>1, <1>2, <1>3, <1>5, <2>2
<1>6. QED BY <1>4, <1>5

\* A new minute: every worker may be past the check, and the counter is 0.
LEMMA WindowKeepsRate ==
    ASSUME TypeOK, RateInv, NextWindow
    PROVE  RateInv'
<1> SUFFICES ASSUME NEW d \in Devices
             PROVE  /\ rate'[d] + Cardinality(Open(d)') < DeviceLimit + Cardinality(Slots)
                    /\ DeviceLimit = 0 => rate'[d] = 0 /\ Past(d)' = {}
    BY DEF RateInv, Slots
<1>1. rate'[d] = 0 /\ Past(d)' = Past(d)
    BY DEF NextWindow, Past, Current
<1>2. Cardinality(Open(d)') \in Nat /\ Cardinality(Open(d)') <= Cardinality(Slots)
    <2>1. Open(d)' \subseteq Slots
        BY DEF Open, Slots
    <2>2. QED BY <2>1, OpenFinite
<1>3. CASE DeviceLimit = 0
    <2>1. Past(d)' = {}
        BY <1>1, <1>3 DEF RateInv
    <2>2. Cardinality(Open(d)') = 0
        BY <2>1, FS_EmptySet DEF Open
    <2>3. QED BY <1>1, <1>3, <2>1, <2>2, SlotsFinite
<1>4. CASE DeviceLimit # 0
    BY <1>1, <1>2, <1>4, SlotsFinite, DispatchAssumption
<1>5. QED BY <1>3, <1>4

\* Every step keeps the bound.
LEMMA NextKeepsRate == TypeOK /\ RateInv /\ [Next]_vars => RateInv'
<1> SUFFICES ASSUME TypeOK, RateInv, [Next]_vars PROVE RateInv'
    OBVIOUS
<1> USE DEF redis, outside, memory, bounds
<1>1. TypeOK'
    BY NextTyped
<1>2. /\ rate \in [Devices -> Nat] /\ at \in [Workers -> Places]
      /\ todo \in [Workers -> Seq(Devices)] /\ served \in [Workers -> 0..Attempts]
      /\ Attempts \in Nat
    BY DispatchAssumption DEF TypeOK
<1>3. ASSUME UNCHANGED <<at, todo, rate, served>> PROVE RateInv'
    <2>1. \A d \in Devices : rate'[d] <= rate[d] /\ Past(d)' \subseteq Past(d)
        BY <1>2, <1>3 DEF Past, Current
    <2>2. \A d \in Devices : \A w \in Past(d)' : served'[w] >= served[w]
        BY <1>2, <1>3 DEF Past
    <2>3. QED BY <1>1, <2>1, <2>2, QuietKeepsRate
<1>4. ASSUME NEW w \in Workers, Handle(w) PROVE RateInv'
    <2>1. CASE Admit(w)
        BY <2>1, AdmitKeepsRate
    <2>2. CASE Increment(w)
        BY <2>2, IncrementKeepsRate
    <2>3. ASSUME UNCHANGED rate,
                 \A v \in Workers \ {w} :
                     at'[v] = at[v] /\ todo'[v] = todo[v] /\ served'[v] = served[v],
                 \/ at'[w] \notin {"publish", "record", "count"}
                 \/ /\ todo'[w] = todo[w] /\ served'[w] = served[w]
                    /\ at[w] \in {"publish", "record", "count"}
          PROVE  RateInv'
        <3>1. \A d \in Devices : rate'[d] <= rate[d]
            BY <1>2, <2>3
        <3>2. ASSUME NEW d \in Devices, NEW v \in Past(d)'
              PROVE  v \in Past(d) /\ served'[v] >= served[v]
            BY <1>2, <2>3, <3>2 DEF Past, Current
        <3>3. QED BY <1>1, <3>1, <3>2, QuietKeepsRate
    <2>4. CASE Refuse(w) \/ Exhaust(w) \/ Count(w)
        BY <1>2, <2>3, <2>4 DEF Refuse, Exhaust, Count, Return
    <2>5. CASE Route(w)
        BY <1>2, <2>3, <2>5 DEF Route
    <2>6. CASE Gate(w)
        BY <1>2, <2>3, <2>6 DEF Gate, NextDevice
    <2>7. CASE Decline(w) \/ PublishFails(w)
        BY <1>2, <2>3, <2>7 DEF Decline, PublishFails, NextDevice
    <2>8. CASE Confirm(w) \/ Record(w)
        BY <1>2, <2>3, <2>8 DEF Confirm, Record
    <2>9. QED BY <1>4, <2>1, <2>2, <2>4, <2>5, <2>6, <2>7, <2>8 DEF Handle
<1>5. ASSUME NEW w \in Workers, NEW m \in Msgs, Take(w, m) PROVE RateInv'
    <2>1. \A d \in Devices : rate'[d] <= rate[d] /\ Past(d)' \subseteq Past(d)
        BY <1>2, <1>5 DEF Take, Past, Current
    <2>2. \A d \in Devices : \A v \in Past(d)' : served'[v] >= served[v]
        BY <1>2, <1>5 DEF Take, Past
    <2>3. QED BY <1>1, <2>1, <2>2, QuietKeepsRate
<1>6. ASSUME NEW d \in Devices, CooldownElapses(d) PROVE RateInv'
    BY <1>3, <1>6 DEF CooldownElapses
<1>7. CASE NextWindow
    BY <1>7, WindowKeepsRate
<1>8. CASE Crash
    <2>1. \A d \in Devices : rate'[d] <= rate[d] /\ Past(d)' = {}
        BY <1>2, <1>8 DEF Crash, Past
    <2>2. QED BY <1>1, <2>1, QuietKeepsRate
<1>9. CASE UNCHANGED vars
    BY <1>3, <1>9 DEF vars
<1>10. QED BY <1>4, <1>5, <1>6, <1>7, <1>8, <1>9 DEF Next

\* The check-then-count race passes a device's limit by less than Attempts for
\* every worker, for every limit, however often the client repeats an increment
\* and however the minutes change.
THEOREM RateOvershootBoundedHolds == Spec => []RateOvershootBounded
<1>1. TypeOK /\ RateInv => RateOvershootBounded
    <2> SUFFICES ASSUME TypeOK, RateInv, NEW d \in Devices
                 PROVE  rate[d] < DeviceLimit + Attempts * Cardinality(Workers)
        BY DEF RateOvershootBounded
    <2>1. /\ rate[d] \in Nat
          /\ rate[d] + Cardinality(Open(d)) < DeviceLimit + Cardinality(Slots)
        BY DEF TypeOK, RateInv
    <2>2. Cardinality(Open(d)) \in Nat
        BY OpenFinite DEF Open
    <2>3. rate[d] < DeviceLimit + Cardinality(Slots)
        BY <2>1, <2>2, SlotsFinite, DispatchAssumption
    <2>4. QED BY <2>3, SlotsFinite
<1>2. QED BY <1>1, TypeCorrect, InitRate, NextKeepsRate, PTL DEF Spec

-----------------------------------------------------------------------------
(* The queue as Dispatch sees it.  A message goes from queued to running and *)
(* from there to done or stranded, as the queue promises: Dispatch assumes   *)
(* of the queue no more than LaneQueue provides.                             *)

Q == INSTANCE AtMostOnce WITH status <- job

\* What one step may do to the status of a message.
MayMove(m) == job'[m] = job[m] \/ <<job[m], job'[m]>> \in Q!Moves

\* A worker ends the message that it holds, which is running, and no other.
LEMMA ReturnMoves ==
    ASSUME TypeOK, Holding, NEW w \in Workers, at[w] # "idle",
           NEW s \in {"done", "stranded"}, Return(w, s), NEW m \in Msgs
    PROVE  MayMove(m)
<1>1. msg[w] \in Msgs /\ job[msg[w]] = "running"
    BY DispatchAssumption DEF TypeOK, Holding
<1>2. job' = [job EXCEPT ![msg[w]] = s]
    BY DEF Return
<1>3. job'[m] = IF m = msg[w] THEN s ELSE job[m]
    BY <1>2 DEF TypeOK
<1> QED BY <1>1, <1>3 DEF MayMove, Q!Moves

LEMMA StepMoves ==
    ASSUME IInv, [Next]_vars, NEW m \in Msgs
    PROVE  MayMove(m)
<1> USE DEF IInv
<1>1. CASE UNCHANGED job
    BY <1>1 DEF MayMove
<1>2. ASSUME NEW w \in Workers, Refuse(w) \/ Count(w) \/ Exhaust(w) PROVE MayMove(m)
    <2>1. at[w] # "idle" /\ \E s \in {"done", "stranded"} : Return(w, s)
        BY <1>2 DEF Refuse, Count, Exhaust
    <2> QED BY <2>1, ReturnMoves
<1>3. ASSUME NEW w \in Workers, Handle(w), ~(Refuse(w) \/ Count(w) \/ Exhaust(w))
      PROVE  UNCHANGED job
    BY <1>3 DEF Handle, Route, Gate, Admit, Decline, Confirm, PublishFails, Record, Increment, redis
<1>4. ASSUME NEW w \in Workers, NEW n \in Msgs, Take(w, n) PROVE MayMove(m)
    <2>1. job[n] = "queued" /\ job' = [job EXCEPT ![n] = "running"]
        BY <1>4 DEF Take
    <2>2. job'[m] = IF m = n THEN "running" ELSE job[m]
        BY <2>1 DEF TypeOK
    <2> QED BY <2>1, <2>2 DEF MayMove, Q!Moves
<1>5. CASE Crash
    <2>1. job'[m] = IF job[m] = "running" THEN "stranded" ELSE job[m]
        BY <1>5 DEF Crash
    <2> QED BY <2>1 DEF MayMove, Q!Moves
<1>6. CASE (\E d \in Devices : CooldownElapses(d)) \/ NextWindow \/ UNCHANGED vars
    <2>1. UNCHANGED job
        BY <1>6 DEF CooldownElapses, NextWindow, vars, redis
    <2> QED BY <1>1, <2>1
<1> QED BY <1>1, <1>2, <1>3, <1>4, <1>5, <1>6 DEF Next

\* Dispatch, started with its messages queued, is a behaviour of AtMostOnce: no
\* restart, failed publish or race of the workers moves a message back, or away
\* from an outcome it was given.
THEOREM SeesQueueAsPromised ==
    Spec => job = [m \in Msgs |-> "queued"] /\ [][Q!Next]_job
<1>1. Init => job = [m \in Msgs |-> "queued"]
    BY DEF Init
<1>2. IInv /\ IInv' /\ [Next]_vars => [Q!Next]_job
    <2> SUFFICES ASSUME IInv, IInv', [Next]_vars PROVE Q!Next
        OBVIOUS
    <2>1. job' \in [Msgs -> Q!Statuses]
        BY DEF IInv, TypeOK, Statuses, Q!Statuses
    <2> QED BY <2>1, StepMoves DEF MayMove, Q!Next
<1> QED BY <1>1, <1>2, AlwaysIInv, PTL DEF Spec

-----------------------------------------------------------------------------
(* The copies of a message *)

\* Each copy a worker has sent was paid for with a candidate.
WorkerCopies(w) ==
    /\ at[w] = "route" => inbox[msg[w]] = {}
    /\ at[w] \in {"gate", "limit", "publish"} =>
           Cardinality(inbox[msg[w]]) + Len(todo[w]) <= MaxResults

MessageCopies(m) ==
    /\ IsFiniteSet(inbox[m]) /\ Cardinality(inbox[m]) <= MaxResults
    /\ job[m] = "queued" => inbox[m] = {}

CopiesInv ==
    /\ \A w \in Workers : WorkerCopies(w)
    /\ \A m \in Msgs : MessageCopies(m)

\* At most MaxResults candidates are chosen.
LEMMA CandidatesShort ==
    ASSUME NEW s \in Candidates PROVE Len(s) \in Nat /\ Len(s) <= MaxResults
BY DispatchAssumption DEF Candidates

\* One more copy.
LEMMA OneCopyMore ==
    ASSUME NEW S, IsFiniteSet(S), NEW d
    PROVE  /\ IsFiniteSet(S \cup {d})
           /\ Cardinality(S) \in Nat /\ Cardinality(S \cup {d}) \in Nat
           /\ Cardinality(S \cup {d}) <= Cardinality(S) + 1
<1>1. IsFiniteSet(S \cup {d})
    BY FS_AddElement
<1>2. Cardinality(S \cup {d}) = IF d \in S THEN Cardinality(S) ELSE Cardinality(S) + 1
    BY FS_AddElement
<1>3. Cardinality(S) \in Nat /\ Cardinality(S \cup {d}) \in Nat
    BY <1>1, FS_CardinalityType
<1>4. QED BY <1>1, <1>2, <1>3

\* A step of worker w concerns its own message only.
LEMMA OneWorkerCopies ==
    ASSUME IInv, CopiesInv, NEW w \in Workers, NEW m \in Msgs, msg[w] = m,
           \A v \in Workers \ {w} :
               at'[v] = at[v] /\ msg'[v] = msg[v] /\ todo'[v] = todo[v],
           \A x \in Msgs \ {m} : job'[x] = job[x] /\ inbox'[x] = inbox[x],
           WorkerCopies(w)', MessageCopies(m)'
    PROVE  CopiesInv'
<1>1. ASSUME NEW v \in Workers, v # w PROVE WorkerCopies(v)'
    <2>1. CASE msg[v] = None
        <3>1. at'[v] = "idle"
            BY <1>1, <2>1 DEF IInv, TypeOK
        <3>2. QED BY <3>1 DEF WorkerCopies
    <2>2. CASE msg[v] # None
        <3>1. msg[v] \in Msgs \ {m}
            BY <1>1, <2>2, DispatchAssumption DEF IInv, TypeOK, Holding
        <3>2. /\ at'[v] = at[v] /\ msg'[v] = msg[v] /\ todo'[v] = todo[v]
              /\ inbox'[msg[v]] = inbox[msg[v]]
            BY <1>1, <3>1
        <3>3. WorkerCopies(v)
            BY DEF CopiesInv
        <3>4. QED BY <3>2, <3>3 DEF WorkerCopies
    <2>3. QED BY <2>1, <2>2
<1>2. ASSUME NEW x \in Msgs, x # m PROVE MessageCopies(x)'
    BY <1>2 DEF CopiesInv, MessageCopies
<1>3. QED BY <1>1, <1>2 DEF CopiesInv

\* A step of processMessage keeps the count.
LEMMA HandleKeepsCopies ==
    ASSUME IInv, CopiesInv, NEW w \in Workers, Handle(w)
    PROVE  CopiesInv'
<1> USE DEF outside, redis, bounds
<1>m. PICK m \in Msgs : msg[w] = m
    <2>1. at[w] # "idle"
        BY DEF Handle, Refuse, Route, Gate, Admit, Decline, Confirm, PublishFails,
               Record, Increment, Count, Exhaust
    <2>2. QED BY <2>1 DEF IInv, TypeOK
<1>1. /\ at \in [Workers -> Places] /\ msg \in [Workers -> Msgs \cup {None}]
      /\ job \in [Msgs -> Statuses] /\ inbox \in [Msgs -> SUBSET Devices]
      /\ todo \in [Workers -> Seq(Devices)] /\ todo[w] \in Seq(Devices)
      /\ at[w] \in {"limit", "publish", "record", "count"} => todo[w] # <<>>
      /\ MaxResults \in Nat
    BY DispatchAssumption DEF IInv, TypeOK
<1>2. /\ msg[w] = m /\ job[m] = "running"
      /\ IsFiniteSet(inbox[m]) /\ Cardinality(inbox[m]) \in Nat
      /\ Cardinality(inbox[m]) <= MaxResults
      /\ at[w] = "route" => inbox[m] = {}
      /\ at[w] \in {"gate", "limit", "publish"} =>
             Cardinality(inbox[m]) + Len(todo[w]) <= MaxResults
    BY <1>m, DispatchAssumption, FS_CardinalityType
       DEF IInv, Holding, CopiesInv, WorkerCopies, MessageCopies
<1>3. todo[w] # <<>> => Len(todo[w]) \in Nat \ {0} /\ Len(Tail(todo[w])) = Len(todo[w]) - 1
    BY <1>1
<1>4. ASSUME NEW s \in {"done", "stranded"}, Return(w, s), inbox' = inbox
      PROVE  CopiesInv'
    <2>1. /\ job'[m] = s /\ \A x \in Msgs \ {m} : job'[x] = job[x]
          /\ at'[w] = "idle"
          /\ \A v \in Workers \ {w} :
                 at'[v] = at[v] /\ msg'[v] = msg[v] /\ todo'[v] = todo[v]
        BY <1>1, <1>2, <1>4 DEF Return
    <2>2. WorkerCopies(w)' /\ MessageCopies(m)'
        BY <1>2, <1>4, <2>1 DEF WorkerCopies, MessageCopies
    <2>3. QED BY <1>2, <1>4, <2>1, <2>2, OneWorkerCopies
<1>5. ASSUME msg' = msg, job' = job,
             \A v \in Workers \ {w} : at'[v] = at[v] /\ todo'[v] = todo[v],
             \A x \in Msgs \ {m} : inbox'[x] = inbox[x],
             IsFiniteSet(inbox'[m]), Cardinality(inbox'[m]) <= MaxResults,
             at'[w] # "route",
             at'[w] \in {"gate", "limit", "publish"} =>
                 Cardinality(inbox'[m]) + Len(todo'[w]) <= MaxResults
      PROVE  CopiesInv'
    <2>1. WorkerCopies(w)' /\ MessageCopies(m)'
        BY <1>2, <1>5 DEF WorkerCopies, MessageCopies
    <2>2. QED BY <1>2, <1>5, <2>1, OneWorkerCopies
<1>6. CASE Refuse(w)
    BY <1>4, <1>6 DEF Refuse
<1>7. CASE Route(w)
    <2>1. PICK s \in Candidates : todo' = [todo EXCEPT ![w] = s]
        BY <1>7 DEF Route
    <2>2. todo'[w] = s /\ Len(s) \in Nat /\ Len(s) <= MaxResults
        BY <1>1, <2>1, CandidatesShort
    <2>3. Cardinality(inbox[m]) = 0
        BY <1>2, <1>7, FS_EmptySet DEF Route
    <2>4. /\ msg' = msg /\ job' = job /\ inbox' = inbox /\ at'[w] = "gate"
          /\ \A v \in Workers \ {w} : at'[v] = at[v] /\ todo'[v] = todo[v]
        BY <1>1, <1>7, <2>1 DEF Route
    <2>5. QED BY <1>2, <1>5, <2>2, <2>3, <2>4
<1>8. CASE Gate(w) \/ Decline(w)
    <2>1. /\ msg' = msg /\ job' = job /\ inbox' = inbox
          /\ at[w] \in {"gate", "limit"} /\ todo[w] # <<>>
          /\ \/ todo' = [todo EXCEPT ![w] = Tail(@)] /\ at' = [at EXCEPT ![w] = "gate"]
             \/ todo' = todo /\ at' = [at EXCEPT ![w] = "limit"]
        BY <1>1, <1>8 DEF Gate, Decline, NextDevice
    <2>2. /\ at'[w] \in {"gate", "limit"} /\ Len(todo'[w]) \in Nat
          /\ Len(todo'[w]) <= Len(todo[w]) /\ Len(todo[w]) \in Nat
          /\ \A v \in Workers \ {w} : at'[v] = at[v] /\ todo'[v] = todo[v]
        BY <1>1, <1>3, <2>1
    <2>3. Cardinality(inbox'[m]) + Len(todo'[w]) <= MaxResults
        BY <1>1, <1>2, <2>1, <2>2
    <2>4. QED BY <1>2, <1>5, <2>1, <2>2, <2>3
<1>9. CASE Admit(w)
    <2>1. /\ msg' = msg /\ job' = job /\ inbox' = inbox /\ todo' = todo
          /\ at[w] = "limit" /\ at' = [at EXCEPT ![w] = "publish"]
        BY <1>9 DEF Admit
    <2>2. at'[w] = "publish" /\ \A v \in Workers \ {w} : at'[v] = at[v]
        BY <1>1, <2>1
    <2>3. QED BY <1>2, <1>5, <2>1, <2>2
<1>10. CASE Confirm(w) \/ PublishFails(w)
    <2>1. /\ at[w] = "publish" /\ todo[w] # <<>> /\ msg' = msg /\ job' = job
          /\ \/ inbox' = inbox
             \/ inbox' = [inbox EXCEPT ![m] = @ \cup {Current(w)}]
          /\ \/ at' = [at EXCEPT ![w] = "record"] /\ todo' = todo
             \/ at' = [at EXCEPT ![w] = "gate"] /\ todo' = [todo EXCEPT ![w] = Tail(@)]
        BY <1>1, <1>2, <1>10 DEF Confirm, PublishFails, NextDevice
    <2>2. /\ inbox'[m] \in {inbox[m], inbox[m] \cup {Current(w)}}
          /\ \A x \in Msgs \ {m} : inbox'[x] = inbox[x]
        BY <1>1, <2>1
    <2>3. /\ IsFiniteSet(inbox'[m]) /\ Cardinality(inbox'[m]) \in Nat
          /\ Cardinality(inbox'[m]) <= Cardinality(inbox[m]) + 1
        <3>1. CASE inbox'[m] = inbox[m]
            BY <1>2, <3>1
        <3>2. CASE inbox'[m] = inbox[m] \cup {Current(w)}
            <4>1. /\ IsFiniteSet(inbox[m] \cup {Current(w)})
                  /\ Cardinality(inbox[m] \cup {Current(w)}) \in Nat
                  /\ Cardinality(inbox[m] \cup {Current(w)}) <= Cardinality(inbox[m]) + 1
                BY <1>2, OneCopyMore
            <4>2. QED BY <3>2, <4>1, Zenon
        <3>3. QED BY <2>2, <3>1, <3>2
    <2>4. /\ at'[w] \in {"record", "gate"}
          /\ at'[w] = "gate" => todo'[w] = Tail(todo[w])
          /\ \A v \in Workers \ {w} : at'[v] = at[v] /\ todo'[v] = todo[v]
        BY <1>1, <2>1
    <2>5. /\ Cardinality(inbox[m]) + Len(todo[w]) <= MaxResults
          /\ Len(todo[w]) \in Nat \ {0} /\ Len(Tail(todo[w])) = Len(todo[w]) - 1
        BY <1>2, <1>3, <2>1
    <2>6. /\ Cardinality(inbox'[m]) <= MaxResults
          /\ at'[w] = "gate" => Cardinality(inbox'[m]) + Len(todo'[w]) <= MaxResults
        BY <1>1, <1>2, <2>3, <2>4, <2>5
    <2>7. QED BY <1>5, <2>1, <2>2, <2>3, <2>4, <2>6
<1>11. CASE Record(w)
    <2>1. /\ msg' = msg /\ job' = job /\ inbox' = inbox /\ todo' = todo
          /\ at' = [at EXCEPT ![w] = "count"]
        BY <1>11 DEF Record
    <2>2. at'[w] = "count" /\ \A v \in Workers \ {w} : at'[v] = at[v]
        BY <1>1, <2>1
    <2>3. QED BY <1>2, <1>5, <2>1, <2>2
<1>12. CASE Count(w)
    BY <1>4, <1>12 DEF Count
<1>13. CASE Exhaust(w)
    BY <1>4, <1>13 DEF Exhaust
<1>14. CASE Increment(w)
    BY <1>14 DEF Increment, CopiesInv, WorkerCopies, MessageCopies
<1>15. QED BY <1>6, <1>7, <1>8, <1>9, <1>10, <1>11, <1>12, <1>13, <1>14 DEF Handle

\* So does every step: a restart makes no queued message, and a queued message
\* has reached nobody.
LEMMA NextKeepsCopies == IInv /\ CopiesInv /\ [Next]_vars => CopiesInv'
<1> SUFFICES ASSUME IInv, CopiesInv, [Next]_vars PROVE CopiesInv'
    OBVIOUS
<1> USE DEF outside, redis, memory, bounds
<1>1. ASSUME NEW w \in Workers, Handle(w) PROVE CopiesInv'
    BY <1>1, HandleKeepsCopies
<1>2. ASSUME NEW w \in Workers, NEW m \in Msgs, Take(w, m) PROVE CopiesInv'
    <2>1. /\ at \in [Workers -> Places] /\ msg \in [Workers -> Msgs \cup {None}]
          /\ job \in [Msgs -> Statuses]
        BY DEF IInv, TypeOK
    <2>2. /\ job[m] = "queued" /\ inbox' = inbox /\ todo' = todo
          /\ at'[w] = "route" /\ msg'[w] = m
          /\ \A v \in Workers \ {w} : at'[v] = at[v] /\ msg'[v] = msg[v]
          /\ \A x \in Msgs : job'[x] = "queued" => job[x] = "queued"
        BY <1>2, <2>1 DEF Take
    <2>3. \A x \in Msgs : MessageCopies(x)'
        BY <2>2 DEF CopiesInv, MessageCopies
    <2>4. \A v \in Workers : WorkerCopies(v)'
        BY <2>2 DEF CopiesInv, MessageCopies, WorkerCopies
    <2>5. QED BY <2>3, <2>4 DEF CopiesInv
<1>3. CASE \/ \E d \in Devices : CooldownElapses(d)
           \/ NextWindow
           \/ UNCHANGED vars
    <2>1. UNCHANGED <<at, msg, todo, job, inbox>>
        BY <1>3 DEF CooldownElapses, NextWindow, vars
    <2>2. QED BY <2>1 DEF CopiesInv, WorkerCopies, MessageCopies
<1>4. CASE Crash
    <2>1. /\ \A w \in Workers : at'[w] = "idle"
          /\ \A m \in Msgs : job'[m] = "queued" => job[m] = "queued"
          /\ inbox' = inbox
        BY <1>4 DEF Crash
    <2>2. QED BY <2>1 DEF CopiesInv, WorkerCopies, MessageCopies
<1>5. QED BY <1>1, <1>2, <1>3, <1>4 DEF Next

\* However publishes time out, arrive late or are cut short by restarts, the
\* command of a message reaches at most as many phones as there are candidates.
THEOREM CopiesBoundedHolds == Spec => []CopiesBounded
<1>1. Init => CopiesInv
    <2>1. IsFiniteSet({}) /\ Cardinality({}) = 0 /\ MaxResults \in Nat
        BY FS_EmptySet, DispatchAssumption
    <2>2. QED BY <2>1 DEF Init, CopiesInv, WorkerCopies, MessageCopies
<1>2. CopiesInv => CopiesBounded
    BY DEF CopiesInv, MessageCopies, CopiesBounded
<1>3. QED BY <1>1, <1>2, AlwaysIInv, NextKeepsCopies, PTL DEF Spec
=============================================================================
