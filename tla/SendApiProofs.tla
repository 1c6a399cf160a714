--------------------------- MODULE SendApiProofs ---------------------------
(* Machine-checked proofs about SendApi, for every set of requests and keys, *)
(* every bulk size, limit, number of failures, crashes and midnights.        *)
EXTENDS SendApi, FiniteSetTheorems, TLAPS

\* Before these places a handler passes without having made a message.
Early == {"new", "gate", "check", "set", "quota"}

\* Until it makes a message, a request works on its first one.
Typed ==
    /\ TypeOK
    /\ \A r \in Requests : at[r] \in Early => item[r] = 1
    /\ \A r \in Requests : at[r] \in {"check", "set"} => key[r] # None

\* A handler goes on to a later place, answers, or goes on in its loop.
Moves(r) ==
    \/ \E place \in Places \ Early : Go(r, place)
    \/ \E a \in Answers : Respond(r, a)
    \/ NextItem(r)
    \/ Failed(r)

-----------------------------------------------------------------------------
(* Type correctness *)

\* The initial state is typed.
LEMMA InitTyped == Init => Typed
BY SendApiAssumption DEF Init, Typed, TypeOK, Places, Answers, Messages, Early

\* Going on in the loop, or answering, keeps the handlers typed.
LEMMA HandlersTyped ==
    ASSUME Typed, NEW r \in Requests, at[r] \notin {"new"},
           Moves(r)
    PROVE  /\ at' \in [Requests -> Places]
           /\ key' = key
           /\ item' \in [Requests -> 1..BulkSize]
           /\ \A s \in Requests : at'[s] # "new" => item'[s] <= Items(s)
           /\ answer' \in [Requests -> Answers]
           /\ \A s \in Requests : at'[s] \in Early => s # r
           /\ \A s \in Requests \ {r} : at'[s] = at[s] /\ item'[s] = item[s]
<1>1. /\ at \in [Requests -> Places] /\ item \in [Requests -> 1..BulkSize]
      /\ answer \in [Requests -> Answers] /\ BulkSize \in Nat \ {0}
      /\ \A s \in Requests : at[s] # "new" => item[s] <= Items(s)
    BY SendApiAssumption DEF Typed, TypeOK
<1>2. {"accepted", "500"} \subseteq Answers /\ {"closed", "create"} \subseteq Places \ Early
    BY DEF Answers, Places, Early
<1>3. ASSUME NEW place \in Places \ Early, Go(r, place)
      PROVE  /\ at' \in [Requests -> Places] /\ at'[r] \notin Early
             /\ key' = key /\ item' = item /\ answer' = answer
             /\ \A s \in Requests \ {r} : at'[s] = at[s]
    BY <1>1, <1>3 DEF Go
<1>4. ASSUME NEW a \in Answers, Respond(r, a)
      PROVE  /\ at' \in [Requests -> Places] /\ at'[r] \notin Early
             /\ key' = key /\ item' = item /\ answer' \in [Requests -> Answers]
             /\ \A s \in Requests \ {r} : at'[s] = at[s]
    BY <1>1, <1>2, <1>4 DEF Respond
<1>5. CASE \E place \in Places \ Early : Go(r, place)
    BY <1>1, <1>3, <1>5 DEF Early
<1>6. CASE \E a \in Answers : Respond(r, a)
    BY <1>1, <1>4, <1>6 DEF Early
<1>7. CASE NextItem(r)
    <2>1. CASE Respond(r, "accepted")
        BY <1>2, <1>6, <2>1
    <2>2. CASE /\ item[r] < Items(r)
               /\ item' = [item EXCEPT ![r] = @ + 1]
               /\ at' = [at EXCEPT ![r] = "create"]
               /\ UNCHANGED <<key, answer>>
        <3>1. Items(r) \in 1..BulkSize
            BY <1>1 DEF Items
        <3>2. item[r] + 1 \in 1..BulkSize /\ item[r] + 1 <= Items(r)
            BY <1>1, <2>2, <3>1
        <3>3. item' \in [Requests -> 1..BulkSize] /\ item'[r] = item[r] + 1
            BY <1>1, <2>2, <3>2
        <3>4. \A s \in Requests \ {r} : at'[s] = at[s] /\ item'[s] = item[s]
            BY <1>1, <2>2
        <3>5. at' \in [Requests -> Places] /\ at'[r] = "create"
            BY <1>1, <1>2, <2>2
        <3>6. QED BY <1>1, <1>2, <2>2, <3>2, <3>3, <3>4, <3>5
    <2>3. QED BY <1>7, <2>1, <2>2 DEF NextItem
<1>8. CASE Failed(r)
    BY <1>2, <1>6, <1>7, <1>8 DEF Failed
<1>9. QED BY <1>5, <1>6, <1>7, <1>8 DEF Moves

\* A step of a handler keeps the types.
LEMMA HandleTyped ==
    ASSUME Typed, NEW r \in Requests, Handle(r)
    PROVE  Typed'
<1> USE DEF database, queue, results, history, bounds
<1>0. /\ MaxErrors \in Nat /\ BulkSize \in Nat \ {0} /\ None \notin Keys
      /\ Message(r) \in Messages
    BY SendApiAssumption DEF Typed, TypeOK, Message, Messages
<1>1. CallFails => errors' \in 0..MaxErrors /\ crashes' = crashes /\ days' = days
    BY <1>0 DEF CallFails, Typed, TypeOK
<1>2. /\ {"429", "duplicate", "500", "accepted"} \subseteq Answers
      /\ {"create", "count", "enqueue"} \subseteq Places \ Early
      /\ {"check", "set", "quota"} \subseteq Places
    BY DEF Answers, Places, Early
<1>3. ASSUME Moves(r), at[r] # "new"
      PROVE  /\ at' \in [Requests -> Places] /\ key' \in [Requests -> Keys \cup {None}]
             /\ item' \in [Requests -> 1..BulkSize] /\ answer' \in [Requests -> Answers]
             /\ \A s \in Requests : at'[s] # "new" => item'[s] <= Items(s)'
             /\ \A s \in Requests : at'[s] \in Early => item'[s] = 1
             /\ \A s \in Requests : at'[s] \in {"check", "set"} => key'[s] # None
    <2>1. key' = key /\ \A s \in Requests : Items(s)' = Items(s)
        BY <1>3, HandlersTyped DEF Items
    <2>2. QED BY <1>3, <2>1, HandlersTyped DEF Typed, TypeOK, Early
<1>4. CASE EnforceQuota(r)
    <2>1. CASE Respond(r, "429")
        <3>1. Moves(r)
            BY <1>2, <2>1 DEF Moves
        <3>2. QED BY <1>1, <1>3, <1>4, <3>1 DEF EnforceQuota, Typed, TypeOK
    <2>2. CASE Go(r, IF key[r] = None THEN "quota" ELSE "check")
        BY <1>1, <1>2, <1>4, <2>2 DEF EnforceQuota, Go, Typed, TypeOK, Items, Early
    <2>3. QED BY <1>4, <2>1, <2>2 DEF EnforceQuota
<1>5. CASE CheckKey(r)
    <2>1. CASE Respond(r, "duplicate") \/ Respond(r, "500")
        <3>1. Moves(r)
            BY <1>2, <2>1 DEF Moves
        <3>2. QED BY <1>1, <1>3, <1>5, <3>1 DEF CheckKey, Typed, TypeOK
    <2>2. CASE Go(r, "set")
        BY <1>1, <1>2, <1>5, <2>2 DEF CheckKey, Go, Typed, TypeOK, Items, Early
    <2>3. QED BY <1>5, <2>1, <2>2 DEF CheckKey
<1>6. CASE SetKey(r)
    <2>0. keys' \subseteq Keys
        BY <1>6 DEF SetKey, Typed, TypeOK
    <2>1. CASE Respond(r, "500")
        <3>1. Moves(r)
            BY <1>2, <2>1 DEF Moves
        <3>2. QED BY <1>1, <1>3, <1>6, <2>0, <3>1 DEF SetKey, Typed, TypeOK
    <2>2. CASE Go(r, "quota")
        BY <1>1, <1>2, <1>6, <2>0, <2>2 DEF SetKey, Go, Typed, TypeOK, Items, Early
    <2>3. QED BY <1>6, <2>1, <2>2 DEF SetKey
<1>7. CASE CheckQuota(r)
    <2>1. Moves(r)
        BY <1>2, <1>7 DEF CheckQuota, Moves
    <2>2. waived' \in Nat
        BY <1>7 DEF CheckQuota, Typed, TypeOK
    <2>3. QED BY <1>1, <1>3, <1>7, <2>1, <2>2 DEF CheckQuota, Typed, TypeOK
<1>8. CASE Create(r)
    <2>1. /\ rows' \subseteq Messages /\ failed' \subseteq Messages
          /\ today' \in Nat /\ uncounted' \in Nat
          /\ made' \in [Keys -> SUBSET Messages]
        BY <1>0, <1>8 DEF Create, Made, Typed, TypeOK
    <2>2. errors' \in 0..MaxErrors /\ crashes' = crashes /\ days' = days
        BY <1>1, <1>8 DEF Create, Typed, TypeOK
    <2>3. Moves(r)
        BY <1>2, <1>8 DEF Create, Moves
    <2>4. QED BY <1>3, <1>8, <2>1, <2>2, <2>3 DEF Create, Typed, TypeOK
<1>9. CASE Count(r) \/ Enqueue(r)
    <2>1. /\ queued' \subseteq Messages /\ queued \subseteq queued' /\ stored' \subseteq Messages
        BY <1>0, <1>9 DEF Count, Enqueue, Typed, TypeOK
    <2>2. usage' \in Nat /\ uncounted' \in Nat
        BY <1>9 DEF Count, Enqueue, Typed, TypeOK
    <2>3. errors' \in 0..MaxErrors /\ crashes' = crashes /\ days' = days
        BY <1>1, <1>9 DEF Count, Enqueue, Typed, TypeOK
    <2>4. Moves(r)
        BY <1>2, <1>9 DEF Count, Enqueue, Moves
    <2>5. QED BY <1>3, <1>9, <2>1, <2>2, <2>3, <2>4 DEF Count, Enqueue, Typed, TypeOK
<1>10. QED BY <1>4, <1>5, <1>6, <1>7, <1>8, <1>9 DEF Handle

\* So does every step.
LEMMA NextTyped == Typed /\ [Next]_vars => Typed'
<1> SUFFICES ASSUME Typed, [Next]_vars PROVE Typed'
    OBVIOUS
<1> USE DEF handlers, database, queue, results, history, bounds
<1>1. ASSUME NEW r \in Requests, Handle(r) PROVE Typed'
    BY <1>1, HandleTyped
<1>2. ASSUME NEW r \in Requests, NEW k \in Keys \cup {None}, Arrive(r, k) PROVE Typed'
    <2>1. BulkSize \in Nat \ {0} /\ item[r] = 1
        BY <1>2, SendApiAssumption DEF Arrive, Typed, Early
    <2>2. QED BY <1>2, <2>1 DEF Arrive, Typed, TypeOK, Items, Places, Early
<1>3. CASE WorkerSends
    BY <1>3 DEF WorkerSends, Typed, TypeOK, Items
<1>4. ASSUME NEW k \in Keys, Expire(k) PROVE Typed'
    BY <1>4 DEF Expire, Typed, TypeOK, Items
<1>5. CASE NextDay
    BY <1>5, SendApiAssumption DEF NextDay, Typed, TypeOK, Items
<1>6. CASE Crash
    <2>1. Cardinality({r \in Requests : at[r] = "count"}) \in Nat
        <3>1. IsFiniteSet({r \in Requests : at[r] = "count"})
            BY SendApiAssumption, FS_Subset
        <3>2. QED BY <3>1, FS_CardinalityType
    <2>2. crashes' \in 0..MaxCrashes /\ uncounted' \in Nat
        BY <1>6, <2>1, SendApiAssumption DEF Crash, Typed, TypeOK
    <2>3. at' \in [Requests -> Places] /\ \A r \in Requests : at'[r] # "closed" => at'[r] = at[r]
        BY <1>6 DEF Crash, Typed, TypeOK, Places
    <2>4. \A r \in Requests : at[r] = "new" => at'[r] = "new"
        BY <1>6 DEF Crash, Open
    <2>5. QED BY <1>6, <2>2, <2>3, <2>4 DEF Crash, Typed, TypeOK, Items, Early
<1>7. CASE UNCHANGED vars
    BY <1>7 DEF vars, Typed, TypeOK, Items
<1>8. QED BY <1>1, <1>2, <1>3, <1>4, <1>5, <1>6, <1>7 DEF Next

\* The strengthening holds in every reachable state.
LEMMA AlwaysTyped == Spec => []Typed
BY InitTyped, NextTyped, PTL DEF Spec

\* Types are kept; a handler never works past the items of its request.
THEOREM TypeCorrect == Spec => []TypeOK
<1>1. Typed => TypeOK
    BY DEF Typed
<1>2. QED BY <1>1, AlwaysTyped, PTL

-----------------------------------------------------------------------------
(* What the client is told agrees with what was done *)

\* What a request may still answer agrees with what it has made: the fate of the
\* items it has left behind is told, those to come are neither queued nor failed.
RequestOK(r) ==
    /\ at[r] \in Early => \A i \in 1..BulkSize : <<r, i>> \notin rows
    /\ at[r] \in {"count", "enqueue"} => Message(r) \in rows
    /\ at[r] # "closed" =>
         /\ answer[r] = "none"
         /\ \A i \in 1..BulkSize : i < item[r] => <<r, i>> \in Settled(r)
         /\ \A i \in 1..BulkSize : item[r] <= i => <<r, i>> \notin queued \cup failed
    /\ answer[r] = "accepted" => \A i \in 1..Items(r) : <<r, i>> \in Settled(r)
    /\ answer[r] \in {"429", "duplicate"} => \A i \in 1..BulkSize : <<r, i>> \notin rows

SetsOK == failed \cap queued = {} /\ stored \cup queued \subseteq rows

AnswerInv == (\A r \in Requests : RequestOK(r)) /\ SetsOK

\* A step of a request adds at most the message it is working on.
Adds(r) ==
    /\ rows' \in {rows, rows \cup {Message(r)}}
    /\ queued' \in {queued, queued \cup {Message(r)}}
    /\ stored' \in {stored, stored \cup {Message(r)}}
    /\ failed' \in {failed, failed \cup {Message(r)}}

\* A request other than the one that moved stays right, since nobody makes its
\* messages.
LEMMA OthersStayOK ==
    ASSUME Typed, AnswerInv, NEW r \in Requests, NEW s \in Requests \ {r},
           at'[s] = at[s], key'[s] = key[s], item'[s] = item[s], answer'[s] = answer[s], Adds(r)
    PROVE  RequestOK(s)'
<1>1. Message(s)' = Message(s) /\ Items(s)' = Items(s)
    BY DEF Message, Items
<1>2. \A i : /\ <<s, i>> \in rows' <=> <<s, i>> \in rows
             /\ <<s, i>> \in queued' <=> <<s, i>> \in queued
             /\ <<s, i>> \in stored' <=> <<s, i>> \in stored
             /\ <<s, i>> \in failed' <=> <<s, i>> \in failed
    BY DEF Adds, Message
<1>3. \A i : <<s, i>> \in Settled(s)' <=> <<s, i>> \in Settled(s)
    BY <1>2 DEF Settled
<1>4. RequestOK(s)
    BY DEF AnswerInv
<1>5. (at[s] \in {"count", "enqueue"} => Message(s) \in rows) =>
          (at'[s] \in {"count", "enqueue"} => Message(s)' \in rows')
    BY <1>1, <1>2 DEF Message
<1>6. QED BY <1>1, <1>2, <1>3, <1>4, <1>5 DEF RequestOK

\* A move changes the place, item and answer of its own request only.
LEMMA MovesAlone ==
    ASSUME Typed, NEW r \in Requests, Moves(r)
    PROVE  /\ key' = key
           /\ \A s \in Requests \ {r} : at'[s] = at[s] /\ item'[s] = item[s] /\ answer'[s] = answer[s]
BY DEF Moves, Go, Respond, NextItem, Failed, Typed, TypeOK

\* A request goes on to make its messages.
LEMMA GoKeepsAnswers ==
    ASSUME Typed, AnswerInv, NEW r \in Requests, NEW place, Go(r, place), at[r] # "closed",
           Adds(r), SetsOK', queued' = queued, failed' = failed, stored' = stored,
           place \in Early => at[r] \in Early /\ rows' = rows,
           place \in {"count", "enqueue"} => Message(r) \in rows'
    PROVE  AnswerInv'
<1>1. /\ at'[r] = place /\ key' = key /\ item' = item /\ answer' = answer
      /\ \A s \in Requests \ {r} : at'[s] = at[s]
    BY DEF Go, Typed, TypeOK
<1>2. Message(r)' = Message(r) /\ Settled(r)' = Settled(r) /\ answer[r] = "none"
    BY <1>1 DEF Message, Settled, AnswerInv, RequestOK
<1>3. RequestOK(r)'
    BY <1>1, <1>2 DEF AnswerInv, RequestOK, Early
<1>4. QED BY <1>1, <1>3, OthersStayOK DEF AnswerInv

\* A request is answered that is not accepted.
LEMMA RespondKeepsAnswers ==
    ASSUME Typed, AnswerInv, NEW r \in Requests, NEW a \in Answers \ {"accepted"}, Respond(r, a),
           Adds(r), SetsOK', a \in {"429", "duplicate"} => at[r] \in Early /\ rows' = rows
    PROVE  AnswerInv'
<1>1. /\ at'[r] = "closed" /\ key' = key /\ item' = item /\ answer'[r] = a
      /\ \A s \in Requests \ {r} : at'[s] = at[s] /\ answer'[s] = answer[s]
    BY DEF Respond, Typed, TypeOK
<1>2. RequestOK(r)'
    BY <1>1 DEF AnswerInv, RequestOK, Early
<1>3. QED BY <1>1, <1>2, OthersStayOK DEF AnswerInv

\* The fate of an item is settled, and the request goes on or is accepted.
LEMMA NextItemKeepsAnswers ==
    ASSUME Typed, AnswerInv, NEW r \in Requests, at[r] # "closed", NextItem(r), Adds(r), SetsOK',
           Message(r) \in Settled(r)'
    PROVE  AnswerInv'
<1>1. /\ key' = key
      /\ \A s \in Requests \ {r} : at'[s] = at[s] /\ item'[s] = item[s] /\ answer'[s] = answer[s]
    BY MovesAlone DEF Moves
<1>2. /\ answer[r] = "none" /\ item[r] \in 1..BulkSize /\ Items(r)' = Items(r)
      /\ \A i \in 1..BulkSize : i < item[r] => <<r, i>> \in Settled(r)
      /\ \A i \in 1..BulkSize : item[r] <= i => <<r, i>> \notin queued \cup failed
      /\ Items(r) \in 1..BulkSize /\ BulkSize \in Nat
    BY <1>1, SendApiAssumption DEF AnswerInv, RequestOK, Typed, TypeOK, Items
<1>3. \A i \in 1..BulkSize : i <= item[r] => <<r, i>> \in Settled(r)'
    <2>1. Settled(r) \subseteq Settled(r)'
        BY <1>1 DEF Settled, Adds
    <2>2. QED BY <1>2, <2>1 DEF Message
<1>4. \A i \in 1..BulkSize : item[r] < i => <<r, i>> \notin queued' \cup failed'
    BY <1>2 DEF Adds, Message
<1>5. CASE /\ item[r] < Items(r)
           /\ item' = [item EXCEPT ![r] = @ + 1]
           /\ at' = [at EXCEPT ![r] = "create"]
           /\ UNCHANGED <<key, answer>>
    <2>1. at'[r] = "create" /\ item'[r] = item[r] + 1 /\ answer'[r] = "none"
        BY <1>2, <1>5 DEF Typed, TypeOK
    <2>2. RequestOK(r)'
        BY <1>2, <1>3, <1>4, <2>1 DEF RequestOK, Early
    <2>3. QED BY <1>1, <2>2, OthersStayOK DEF AnswerInv
<1>6. CASE item[r] = Items(r) /\ Respond(r, "accepted")
    <2>1. at'[r] = "closed" /\ answer'[r] = "accepted"
        BY <1>6 DEF Respond, Typed, TypeOK
    <2>2. \A i \in 1..Items(r)' : <<r, i>> \in Settled(r)'
        BY <1>2, <1>3, <1>6
    <2>3. RequestOK(r)'
        BY <2>1, <2>2 DEF RequestOK, Early
    <2>4. QED BY <1>1, <2>3, OthersStayOK DEF AnswerInv
<1>7. QED BY <1>5, <1>6 DEF NextItem

\* A step of a handler keeps the answers accounted for.
LEMMA HandleKeepsAnswers ==
    ASSUME Typed, AnswerInv, NEW r \in Requests, Handle(r)
    PROVE  AnswerInv'
<1> USE DEF database, queue, results, history, bounds
<1>1. RequestOK(r) /\ SetsOK /\ item[r] \in 1..BulkSize
    BY DEF Typed, TypeOK, AnswerInv
<1>2. {"429", "duplicate", "500"} \subseteq Answers \ {"accepted"}
    BY DEF Answers
<1>3. UNCHANGED <<rows, queued, stored, failed>> => Adds(r) /\ SetsOK'
    BY <1>1 DEF Adds, SetsOK
<1>4. CASE EnforceQuota(r) \/ CheckKey(r) \/ SetKey(r) \/ CheckQuota(r)
    <2>1. UNCHANGED <<rows, queued, stored, failed>> /\ at[r] \in Early
        BY <1>4 DEF EnforceQuota, CheckKey, SetKey, CheckQuota, Early
    <2>2. CASE \E a \in {"429", "duplicate", "500"} : Respond(r, a)
        BY <1>2, <1>3, <2>1, <2>2, RespondKeepsAnswers
    <2>3. CASE \E place \in Early \cup {"create"} : Go(r, place)
        BY <1>3, <2>1, <2>3, GoKeepsAnswers DEF Early
    <2>4. QED BY <1>4, <2>2, <2>3 DEF EnforceQuota, CheckKey, SetKey, CheckQuota, Early
<1>5. CASE Create(r)
    <2>1. /\ at[r] = "create" /\ queued' = queued /\ stored' = stored
          /\ rows' \in {rows, rows \cup {Message(r)}}
        BY <1>5 DEF Create
    <2>2. Message(r) \notin queued
        BY <1>1, <2>1 DEF RequestOK, Message
    <2>3. CASE rows' = rows \cup {Message(r)} /\ failed' = failed /\ Go(r, "count")
        <3>1. Adds(r) /\ SetsOK' /\ Message(r) \in rows'
            BY <1>1, <2>1, <2>3 DEF Adds, SetsOK
        <3>2. QED BY <2>1, <2>3, <3>1, GoKeepsAnswers DEF Early
    <2>4. CASE /\ Failed(r)
               /\ failed' = IF key[r] = None THEN failed \cup {Message(r)} ELSE failed
        <3>1. Adds(r) /\ SetsOK'
            BY <1>1, <2>1, <2>2, <2>4 DEF Adds, SetsOK
        <3>2. CASE key[r] = None
            <4>1. NextItem(r) /\ key' = key
                BY <2>4, <3>2, MovesAlone DEF Failed, Moves
            <4>2. Message(r) \in Settled(r)'
                BY <2>4, <3>2, <4>1 DEF Settled
            <4>3. QED BY <2>1, <3>1, <4>1, <4>2, NextItemKeepsAnswers
        <3>3. CASE key[r] # None
            BY <1>2, <2>4, <3>1, <3>3, RespondKeepsAnswers DEF Failed
        <3>4. QED BY <3>2, <3>3
    <2>5. QED BY <1>5, <2>3, <2>4 DEF Create
<1>6. CASE Count(r)
    <2>1. /\ at[r] = "count" /\ Go(r, "enqueue")
          /\ UNCHANGED <<rows, queued, stored, failed>>
        BY <1>6 DEF Count
    <2>2. Message(r) \in rows'
        BY <1>1, <2>1 DEF RequestOK
    <2>3. QED BY <1>3, <2>1, <2>2, GoKeepsAnswers DEF Early
<1>7. CASE Enqueue(r)
    <2>1. /\ at[r] = "enqueue" /\ rows' = rows /\ failed' = failed
          /\ queued' \in {queued, queued \cup {Message(r)}}
          /\ stored' \in {stored, stored \cup {Message(r)}}
        BY <1>7 DEF Enqueue
    <2>2. Message(r) \in rows /\ Message(r) \notin failed
        BY <1>1, <2>1 DEF RequestOK, Message
    <2>3. Adds(r) /\ SetsOK'
        BY <1>1, <2>1, <2>2 DEF Adds, SetsOK
    <2>4. CASE queued' = queued \cup {Message(r)} /\ NextItem(r)
        <3>1. Message(r) \in Settled(r)'
            BY <2>4 DEF Settled
        <3>2. QED BY <2>1, <2>3, <2>4, <3>1, NextItemKeepsAnswers
    <2>5. CASE /\ Failed(r)
               /\ stored' = IF key[r] = None THEN stored \cup {Message(r)} ELSE stored
        <3>1. CASE key[r] = None
            <4>1. NextItem(r) /\ key' = key
                BY <2>5, <3>1, MovesAlone DEF Failed, Moves
            <4>2. Message(r) \in Settled(r)'
                BY <2>5, <3>1, <4>1 DEF Settled
            <4>3. QED BY <2>1, <2>3, <4>1, <4>2, NextItemKeepsAnswers
        <3>2. CASE key[r] # None
            BY <1>2, <2>3, <2>5, <3>2, RespondKeepsAnswers DEF Failed
        <3>3. QED BY <3>1, <3>2
    <2>6. QED BY <1>7, <2>4, <2>5 DEF Enqueue
<1>8. QED BY <1>4, <1>5, <1>6, <1>7 DEF Handle

\* So does every step.
LEMMA NextKeepsAnswers == Typed /\ AnswerInv /\ [Next]_vars => AnswerInv'
<1> SUFFICES ASSUME Typed, AnswerInv, [Next]_vars PROVE AnswerInv'
    OBVIOUS
<1> USE DEF handlers, database, queue, results, history, bounds
<1>1. ASSUME NEW r \in Requests, Handle(r) PROVE AnswerInv'
    BY <1>1, HandleKeepsAnswers
<1>2. ASSUME NEW r \in Requests, NEW k \in Keys \cup {None}, Arrive(r, k) PROVE AnswerInv'
    <2>1. /\ at[r] = "new" /\ at'[r] \in {"gate", "check"} /\ item' = item /\ answer' = answer
          /\ UNCHANGED <<rows, queued, stored, failed>>
          /\ \A s \in Requests \ {r} : at'[s] = at[s] /\ key'[s] = key[s]
        BY <1>2 DEF Arrive, Typed, TypeOK
    <2>2. RequestOK(r) /\ item[r] = 1 /\ SetsOK
        BY <2>1 DEF AnswerInv, Typed, Early
    <2>3. RequestOK(r)'
        BY <2>1, <2>2 DEF RequestOK, Early
    <2>4. Adds(r) /\ SetsOK'
        BY <2>1, <2>2 DEF Adds, SetsOK
    <2>5. QED BY <2>1, <2>3, <2>4, OthersStayOK DEF AnswerInv
<1>3. ASSUME UNCHANGED <<key, item, answer, rows, queued, stored, failed>>,
             \A r \in Requests : at'[r] \in {at[r], "closed"}
      PROVE  AnswerInv'
    BY <1>3 DEF AnswerInv, RequestOK, SetsOK, Settled, Items, Message, Early
<1>4. CASE WorkerSends
    BY <1>3, <1>4 DEF WorkerSends
<1>5. ASSUME NEW k \in Keys, Expire(k) PROVE AnswerInv'
    BY <1>3, <1>5 DEF Expire
<1>6. CASE NextDay
    BY <1>3, <1>6 DEF NextDay
<1>7. CASE Crash
    BY <1>3, <1>7 DEF Crash
<1>8. CASE UNCHANGED vars
    BY <1>3, <1>8 DEF vars
<1>9. QED BY <1>1, <1>2, <1>4, <1>5, <1>6, <1>7, <1>8 DEF Next

\* However the handlers interleave, fail and crash, the answer to every request,
\* bulk requests included, accounts for each of its messages, and no message is
\* queued before its row exists.
THEOREM AnswersAccountedHolds == Spec => []AnswersAccounted
<1>1. Init => AnswerInv
    <2> SUFFICES ASSUME Init PROVE AnswerInv
        OBVIOUS
    <2>1. \A r \in Requests : at[r] = "new" /\ item[r] = 1 /\ answer[r] = "none"
        BY DEF Init
    <2>2. rows = {} /\ queued = {} /\ stored = {} /\ failed = {}
        BY DEF Init
    <2>3. QED BY <2>1, <2>2 DEF AnswerInv, RequestOK, SetsOK
<1>2. Typed /\ AnswerInv => AnswersAccounted
    BY DEF AnswerInv, RequestOK, SetsOK, AnswersAccounted
<1>3. QED BY <1>1, <1>2, AlwaysTyped, NextKeepsAnswers, PTL DEF Spec

-----------------------------------------------------------------------------
(* The overshoot of the daily quota *)

\* The messages that are made and not counted yet.
Counting == {m \in Messages : at[m[1]] = "count" /\ m[2] = item[m[1]]}

\* The messages that requests which passed the quota check may still make.
Left ==
    {m \in Messages :
        /\ m[2] <= Items(m[1])
        /\ \/ at[m[1]] = "create" /\ item[m[1]] <= m[2]
           \/ at[m[1]] \in {"count", "enqueue"} /\ item[m[1]] < m[2]}

\* What the open requests may hold, and what a waived check lets through.
Slack == (MaxOpen + waived) * BulkSize

\* What passes the limit of a day is held by the open requests, was let through,
\* or was not counted.
QuotaInv ==
    /\ Cardinality(Open) <= MaxOpen
    /\ today <= usage + uncounted + Cardinality(Counting)
    /\ Subscribed => today + Cardinality(Left) < Limit + uncounted + Slack

\* The numbers the invariant speaks of.
LEMMA QuotaNumbers ==
    /\ IsFiniteSet(Messages)
    /\ Limit \in Nat /\ Limit > 0 /\ BulkSize \in Nat /\ MaxOpen \in Nat
    /\ MaxOpen * BulkSize \in Nat
    /\ \A S \in SUBSET Messages : IsFiniteSet(S) /\ Cardinality(S) \in Nat
    /\ \A S \in SUBSET Requests : IsFiniteSet(S) /\ Cardinality(S) \in Nat
<1>1. IsFiniteSet(Requests) /\ BulkSize \in Nat /\ MaxOpen \in Nat /\ Limit \in Nat /\ Limit > 0
    BY SendApiAssumption
<1>2. IsFiniteSet(1..BulkSize)
    BY <1>1, FS_Interval
<1>3. IsFiniteSet(Messages)
    BY <1>1, <1>2, FS_Product DEF Messages
<1>4. QED BY <1>1, <1>3, FS_Subset, FS_CardinalityType

\* The slack grows by one request with each check that is waived.
LEMMA SlackGrows ==
    ASSUME Typed, Typed'
    PROVE  /\ Slack \in Nat /\ Slack' \in Nat
           /\ MaxOpen * BulkSize <= Slack /\ MaxOpen * BulkSize <= Slack'
           /\ waived' = waived => Slack' = Slack
           /\ waived' = waived + 1 => Slack' = Slack + BulkSize
<1>1. waived \in Nat /\ waived' \in Nat /\ BulkSize \in Nat /\ MaxOpen \in Nat
    BY QuotaNumbers DEF Typed, TypeOK
<1>2. \A a, b, c \in Nat : (a + b) * c = a * c + b * c /\ b * c \in Nat /\ a * c \in Nat
    OBVIOUS
<1>3. Slack = MaxOpen * BulkSize + waived * BulkSize /\ waived * BulkSize \in Nat
    BY <1>1, <1>2 DEF Slack
<1>4. Slack' = MaxOpen * BulkSize + waived' * BulkSize /\ waived' * BulkSize \in Nat
    BY <1>1, <1>2 DEF Slack
<1>5. waived' = waived + 1 => waived' * BulkSize = waived * BulkSize + BulkSize
    <2>1. (waived + 1) * BulkSize = waived * BulkSize + 1 * BulkSize /\ 1 * BulkSize = BulkSize
        BY <1>1, <1>2
    <2>2. QED BY <2>1
<1>6. waived' = waived => Slack' = Slack
    BY DEF Slack
<1>7. waived' = waived + 1 => Slack' = Slack + BulkSize
    <2> SUFFICES ASSUME waived' = waived + 1 PROVE Slack' = Slack + BulkSize
        OBVIOUS
    <2>1. waived' * BulkSize = waived * BulkSize + BulkSize
        BY <1>5
    <2>2. \A a, b, c \in Nat : a + (b + c) = a + b + c
        OBVIOUS
    <2>3. QED BY <1>1, <1>3, <1>4, <2>1, <2>2, QuotaNumbers
<1>8. /\ Slack \in Nat /\ MaxOpen * BulkSize <= Slack
      /\ Slack' \in Nat /\ MaxOpen * BulkSize <= Slack'
    BY <1>3, <1>4, QuotaNumbers
<1>9. QED BY <1>6, <1>7, <1>8

\* The items of a bulk request.
LEMMA ItemsCounted == IsFiniteSet(1..BulkSize) /\ Cardinality(1..BulkSize) = BulkSize
<1>1. BulkSize \in Nat /\ BulkSize >= 1
    BY SendApiAssumption
<1>2. IsFiniteSet(1..BulkSize)
    BY <1>1, FS_Interval
<1>3. Cardinality(1..BulkSize) = IF 1 > BulkSize THEN 0 ELSE BulkSize - 1 + 1
    BY <1>1, FS_Interval
<1>4. QED BY <1>1, <1>2, <1>3

\* The messages of at most MaxOpen requests.
LEMMA HeldBounded ==
    ASSUME NEW O \in SUBSET Requests, Cardinality(O) <= MaxOpen,
           NEW L \in SUBSET Messages, NEW C \in SUBSET Messages,
           L \cap C = {}, \A m \in L \cup C : m[1] \in O
    PROVE  Cardinality(L) + Cardinality(C) <= MaxOpen * BulkSize
<1>0. BulkSize \in Nat /\ BulkSize >= 1
    BY SendApiAssumption
<1>1. IsFiniteSet(O) /\ IsFiniteSet(1..BulkSize) /\ IsFiniteSet(L) /\ IsFiniteSet(C)
    BY ItemsCounted, QuotaNumbers
<1>2. Cardinality(1..BulkSize) = BulkSize
    BY ItemsCounted
<1>3. L \cup C \subseteq O \X (1..BulkSize)
    BY DEF Messages
<1>4. /\ IsFiniteSet(O \X (1..BulkSize))
      /\ Cardinality(O \X (1..BulkSize)) = Cardinality(O) * BulkSize
    BY <1>1, <1>2, FS_Product
<1>5. Cardinality(L \cup C) <= Cardinality(O) * BulkSize
    BY <1>3, <1>4, FS_Subset
<1>6. Cardinality(L \cup C) = Cardinality(L) + Cardinality(C)
    <2>1. Cardinality(L \cap C) = 0
        BY FS_EmptySet
    <2>2. Cardinality(L) \in Nat /\ Cardinality(C) \in Nat
        BY QuotaNumbers
    <2>3. Cardinality(L \cup C) = Cardinality(L) + Cardinality(C) - Cardinality(L \cap C)
        BY <1>1, FS_Union
    <2>4. QED BY <2>1, <2>2, <2>3
<1>7. Cardinality(O) * BulkSize <= MaxOpen * BulkSize
    <2>1. Cardinality(O) \in Nat
        BY QuotaNumbers
    <2>2. \A a, b, c \in Nat : a <= b => a * c <= b * c
        OBVIOUS
    <2>3. QED BY <2>1, <2>2, QuotaNumbers
<1>8. QED
    <2>1. Cardinality(L) \in Nat /\ Cardinality(C) \in Nat /\ Cardinality(O) * BulkSize \in Nat
        BY QuotaNumbers
    <2>2. QED BY <1>5, <1>6, <1>7, <2>1, QuotaNumbers

\* A step that counts nothing and passes no check, and makes at most messages
\* that it leaves uncounted.
LEMMA QuietKeepsQuota ==
    ASSUME Typed, Typed', QuotaInv, Cardinality(Open') <= MaxOpen,
           NEW d \in {0, 1}, today' = today + d, uncounted' = uncounted + d, waived' = waived,
           usage <= usage', Left' \subseteq Left, Counting' = Counting
    PROVE  QuotaInv'
<1>1. /\ Left \subseteq Messages /\ Counting \subseteq Messages
      /\ Cardinality(Left) \in Nat /\ Cardinality(Left') \in Nat /\ Cardinality(Counting) \in Nat
    BY QuotaNumbers DEF Left, Counting
<1>2. Cardinality(Left') <= Cardinality(Left)
    BY <1>1, QuotaNumbers, FS_Subset
<1>3. /\ today \in Nat /\ uncounted \in Nat /\ usage \in Nat /\ usage' \in Nat
      /\ Slack \in Nat /\ Slack' = Slack
    BY SlackGrows DEF Typed, TypeOK
<1>4. QED BY <1>1, <1>2, <1>3, QuotaNumbers DEF QuotaInv

\* The open requests hold the messages of both sets.
LEMMA OpenHolds ==
    ASSUME Typed'
    PROVE  /\ Open' \subseteq Requests /\ Left' \subseteq Messages /\ Counting' \subseteq Messages
           /\ Left' \cap Counting' = {}
           /\ \A m \in Left' \cup Counting' : m[1] \in Open'
<1>1. item' \in [Requests -> 1..BulkSize] /\ BulkSize \in Nat
    BY SendApiAssumption DEF Typed, TypeOK
<1>2. Open' \subseteq Requests /\ Left' \subseteq Messages /\ Counting' \subseteq Messages
    BY DEF Open, Left, Counting
<1>3. \A m \in Messages : m[1] \in Requests /\ m[2] \in Nat
    BY <1>1 DEF Messages
<1>4. ASSUME NEW m \in Left', m \in Counting' PROVE FALSE
    BY <1>1, <1>3, <1>4 DEF Left, Counting
<1>5. \A m \in Left' \cup Counting' : m[1] \in Open'
    BY <1>3 DEF Left, Counting, Open
<1>6. QED BY <1>2, <1>4, <1>5

\* A step of a handler keeps the bound.
LEMMA HandleKeepsQuota ==
    ASSUME Typed, Typed', QuotaInv, NEW r \in Requests, Handle(r)
    PROVE  QuotaInv'
<1> USE DEF database, queue, results, history, bounds
<1>1. /\ at \in [Requests -> Places] /\ item \in [Requests -> 1..BulkSize]
      /\ today \in Nat /\ uncounted \in Nat /\ usage \in Nat
      /\ item[r] <= Items(r) /\ r \in Open /\ BulkSize \in Nat
    BY SendApiAssumption DEF Typed, TypeOK, Handle, EnforceQuota, CheckKey, SetKey, CheckQuota, Create, Count,
                             Enqueue, Open
<1>2. /\ Left \subseteq Messages /\ Counting \subseteq Messages
      /\ Cardinality(Left) \in Nat /\ Cardinality(Counting) \in Nat
      /\ Cardinality(Left') \in Nat /\ Cardinality(Counting') \in Nat
    BY QuotaNumbers DEF Left, Counting
<1>3. \A m \in Messages : m[1] \in Requests /\ m[2] \in Nat /\ m = <<m[1], m[2]>>
    BY <1>1 DEF Messages
<1>4. /\ key' = key /\ (\A s \in Requests : Items(s)' = Items(s))
      /\ \A s \in Requests \ {r} : at'[s] = at[s] /\ item'[s] = item[s]
    <2>1. key' = key /\ \A s \in Requests \ {r} : at'[s] = at[s] /\ item'[s] = item[s]
        BY <1>1 DEF Handle, EnforceQuota, CheckKey, SetKey, CheckQuota, Create, Count, Enqueue, Go,
                    Respond, NextItem, Failed
    <2>2. QED BY <2>1 DEF Items
<1>5. Cardinality(Open') <= MaxOpen
    <2>1. Open' \subseteq Open
        BY <1>1, <1>4 DEF Open
    <2>2. Open \subseteq Requests
        BY DEF Open
    <2>3. Cardinality(Open') <= Cardinality(Open) /\ Cardinality(Open) \in Nat /\ Cardinality(Open') \in Nat
        BY <2>1, <2>2, QuotaNumbers, FS_Subset
    <2>4. QED BY <2>3, QuotaNumbers DEF QuotaInv
<1>6. /\ today <= usage + uncounted + Cardinality(Counting)
      /\ Subscribed => today + Cardinality(Left) < Limit + uncounted + Slack
      /\ Slack \in Nat /\ Slack' \in Nat /\ MaxOpen * BulkSize <= Slack
      /\ waived' = waived => Slack' = Slack
      /\ waived' = waived + 1 => Slack' = Slack + BulkSize
    BY SlackGrows DEF QuotaInv
<1>7. ASSUME NEW d \in {0, 1}, today' = today + d, uncounted' = uncounted + d,
             UNCHANGED <<usage, waived>>,
             at[r] \in Early \cup {"enqueue", "create"}, at'[r] \in Early \cup {"closed", "create"},
             at'[r] = "create" => at[r] \in {"enqueue", "create"} /\ item[r] < item'[r]
      PROVE  QuotaInv'
    <2>1. Left' \subseteq Left
        BY <1>1, <1>3, <1>4, <1>7 DEF Left, Early, Typed, TypeOK
    <2>2. Counting' = Counting
        BY <1>1, <1>3, <1>4, <1>7 DEF Counting, Early
    <2>3. QED BY <1>1, <1>5, <1>7, <2>1, <2>2, QuietKeepsQuota
<1>8. CASE EnforceQuota(r) \/ CheckKey(r) \/ SetKey(r)
    <2>1. /\ today' = today + 0 /\ uncounted' = uncounted + 0
          /\ UNCHANGED <<usage, waived>>
        BY <1>1, <1>8 DEF EnforceQuota, CheckKey, SetKey
    <2>2. QED BY <1>1, <1>7, <1>8, <2>1 DEF EnforceQuota, CheckKey, SetKey, Go, Respond, Early
<1>9. CASE CheckQuota(r)
    <2>1. UNCHANGED <<today, uncounted, usage>> /\ at[r] = "quota"
        BY <1>9 DEF CheckQuota
    <2>2. CASE (Respond(r, "429") \/ Respond(r, "500")) /\ UNCHANGED waived
        <3>1. today' = today + 0 /\ uncounted' = uncounted + 0
            BY <1>1, <2>1
        <3>2. QED BY <1>1, <1>7, <2>1, <2>2, <3>1 DEF Respond, Early
    <2>3. CASE UnderQuota /\ Go(r, "create") /\ UNCHANGED waived
        <3>1. Counting' = Counting
            BY <1>1, <1>3, <1>4, <2>1, <2>3 DEF Counting, Go
        <3>2. Cardinality(Left') + Cardinality(Counting') <= MaxOpen * BulkSize
            BY <1>5, OpenHolds, HeldBounded
        <3>3. Subscribed => usage < Limit
            BY <1>1, <2>3, QuotaNumbers DEF UnderQuota
        <3>4. QED BY <1>1, <1>2, <1>5, <1>6, <2>1, <2>3, <3>1, <3>2, <3>3, QuotaNumbers DEF QuotaInv
    <2>4. CASE Go(r, "create") /\ waived' = waived + 1
        <3>1. Counting' = Counting
            BY <1>1, <1>3, <1>4, <2>1, <2>4 DEF Counting, Go
        <3>2. Left' \subseteq Left \cup ({r} \X (1..BulkSize))
            <4> SUFFICES ASSUME NEW m \in Left' PROVE m \in Left \cup ({r} \X (1..BulkSize))
                OBVIOUS
            <4>1. m \in Messages /\ m = <<m[1], m[2]>> /\ m[2] \in 1..BulkSize
                BY DEF Left, Messages
            <4>2. CASE m[1] = r
                BY <4>1, <4>2
            <4>3. CASE m[1] # r
                <5>1. m[1] \in Requests
                    BY <1>3, <4>1
                <5>2. at'[m[1]] = at[m[1]] /\ item'[m[1]] = item[m[1]] /\ Items(m[1])' = Items(m[1])
                    BY <1>4, <4>3, <5>1
                <5>3. QED BY <4>1, <5>2 DEF Left
            <4>4. QED BY <4>2, <4>3
        <3>3. Cardinality(Left') <= Cardinality(Left) + BulkSize
            <4>1. /\ IsFiniteSet(1..BulkSize) /\ Cardinality(1..BulkSize) = BulkSize
                  /\ IsFiniteSet({r}) /\ Cardinality({r}) = 1
                BY ItemsCounted, FS_Singleton
            <4>2. /\ IsFiniteSet({r} \X (1..BulkSize))
                  /\ Cardinality({r} \X (1..BulkSize)) = 1 * BulkSize
                BY <4>1, FS_Product
            <4>3. IsFiniteSet(Left)
                BY <1>2, QuotaNumbers
            <4>4. /\ IsFiniteSet(Left \cup ({r} \X (1..BulkSize)))
                  /\ Cardinality(Left \cup ({r} \X (1..BulkSize))) <=
                         Cardinality(Left) + Cardinality({r} \X (1..BulkSize))
                <5>1. IsFiniteSet(Left \cup ({r} \X (1..BulkSize)))
                    BY <4>2, <4>3, FS_Union
                <5>2. Cardinality(Left \cup ({r} \X (1..BulkSize))) =
                          Cardinality(Left) + Cardinality({r} \X (1..BulkSize))
                              - Cardinality(Left \cap ({r} \X (1..BulkSize)))
                    BY <4>2, <4>3, FS_Union
                <5>3. Cardinality(Left \cap ({r} \X (1..BulkSize))) \in Nat
                    BY <4>3, FS_Intersection, FS_CardinalityType
                <5>4. QED BY <1>1, <1>2, <4>2, <5>1, <5>2, <5>3
            <4>5. Cardinality(Left') <= Cardinality(Left \cup ({r} \X (1..BulkSize)))
                BY <3>2, <4>4, FS_Subset
            <4>6. Cardinality(Left \cup ({r} \X (1..BulkSize))) \in Nat
                BY <4>4, FS_CardinalityType
            <4>7. QED BY <1>1, <1>2, <4>2, <4>4, <4>5, <4>6
        <3>4. QED BY <1>1, <1>2, <1>5, <1>6, <2>1, <2>4, <3>1, <3>3, QuotaNumbers DEF QuotaInv
    <2>5. QED BY <1>9, <2>2, <2>3, <2>4 DEF CheckQuota
<1>10. ASSUME Failed(r) \/ NextItem(r), at[r] \in {"create", "enqueue"}, UNCHANGED <<usage, waived>>,
              NEW d \in {0, 1}, today' = today + d, uncounted' = uncounted + d
       PROVE  QuotaInv'
    <2>1. /\ at'[r] \in {"closed", "create"}
          /\ at'[r] = "create" => item'[r] = item[r] + 1
        BY <1>1, <1>10 DEF Failed, NextItem, Respond
    <2>2. at'[r] = "create" => item[r] < item'[r]
        BY <1>1, <2>1
    <2>3. QED BY <1>7, <1>10, <2>1, <2>2
<1>11. CASE Create(r)
    <2>1. CASE Failed(r)
        <3>1. /\ at[r] = "create" /\ UNCHANGED <<usage, waived>>
              /\ \/ today' = today + 0 /\ uncounted' = uncounted + 0
                 \/ today' = today + 1 /\ uncounted' = uncounted + 1
                 \/ Made(r) /\ Go(r, "count")
            BY <1>1, <1>11 DEF Create, Made
        <3>2. ~Go(r, "count")
            BY <1>1, <2>1 DEF Failed, NextItem, Respond, Go
        <3>3. QED BY <1>10, <2>1, <3>1, <3>2
    <2>2. CASE Made(r) /\ Go(r, "count") /\ UNCHANGED uncounted
        <3>1. /\ today' = today + 1 /\ uncounted' = uncounted /\ usage' = usage /\ waived' = waived
              /\ at[r] = "create" /\ at'[r] = "count" /\ item' = item
            BY <1>1, <1>11, <2>2 DEF Create, Made, Go
        <3>2. Message(r) \in Left /\ Message(r) \notin Counting
            BY <1>1, <3>1 DEF Left, Counting, Message, Messages
        <3>3. Left' \subseteq Left \ {Message(r)}
            BY <1>1, <1>3, <1>4, <3>1 DEF Left, Message
        <3>4. Counting' = Counting \cup {Message(r)}
            BY <1>1, <1>3, <1>4, <3>1, <3>2 DEF Left, Counting, Message
        <3>5. Cardinality(Left') <= Cardinality(Left) - 1
            <4>1. IsFiniteSet(Left) /\ Cardinality(Left \ {Message(r)}) = Cardinality(Left) - 1
                BY <1>2, <3>2, QuotaNumbers, FS_RemoveElement
            <4>2. IsFiniteSet(Left \ {Message(r)})
                BY <4>1, FS_RemoveElement
            <4>3. QED BY <3>3, <4>1, <4>2, FS_Subset
        <3>6. Cardinality(Counting') = Cardinality(Counting) + 1
            BY <1>2, <3>2, <3>4, QuotaNumbers, FS_AddElement
        <3>7. QED BY <1>1, <1>2, <1>5, <1>6, <3>1, <3>5, <3>6, QuotaNumbers DEF QuotaInv
    <2>3. QED BY <1>11, <2>1, <2>2 DEF Create
<1>12. CASE Count(r)
    <2>1. /\ at[r] = "count" /\ at'[r] = "enqueue" /\ item' = item
          /\ today' = today /\ waived' = waived
        BY <1>1, <1>12 DEF Count, Go
    <2>2. Message(r) \in Counting
        BY <1>1, <2>1 DEF Counting, Message, Messages
    <2>3. Counting' = Counting \ {Message(r)}
        BY <1>1, <1>3, <1>4, <2>1, <2>2 DEF Counting, Message
    <2>4. Left' = Left
        BY <1>1, <1>3, <1>4, <2>1 DEF Left
    <2>5. Cardinality(Counting') = Cardinality(Counting) - 1
        BY <1>2, <2>2, <2>3, QuotaNumbers, FS_RemoveElement
    <2>6. \/ usage' = usage + 1 /\ uncounted' = uncounted
          \/ usage' = usage /\ uncounted' = uncounted + 1
        BY <1>12 DEF Count
    <2>7. QED BY <1>1, <1>2, <1>5, <1>6, <2>1, <2>4, <2>5, <2>6, QuotaNumbers DEF QuotaInv
<1>13. CASE Enqueue(r)
    <2>1. /\ at[r] = "enqueue" /\ today' = today + 0 /\ uncounted' = uncounted + 0
          /\ UNCHANGED <<usage, waived>>
        BY <1>1, <1>13 DEF Enqueue
    <2>2. QED BY <1>10, <1>13, <2>1 DEF Enqueue
<1>14. QED BY <1>8, <1>9, <1>11, <1>12, <1>13 DEF Handle

\* So does every step.
LEMMA NextKeepsQuota == Typed /\ QuotaInv /\ [Next]_vars => QuotaInv'
<1> SUFFICES ASSUME Typed, QuotaInv, [Next]_vars PROVE QuotaInv'
    OBVIOUS
<1> USE DEF handlers, database, queue, results, history, bounds
<1>1. Typed'
    BY NextTyped
<1>2. /\ at \in [Requests -> Places] /\ usage \in Nat /\ today \in Nat /\ uncounted \in Nat
      /\ Open \subseteq Requests
      /\ Left \subseteq Messages /\ Counting \subseteq Messages
      /\ Cardinality(Left) \in Nat /\ Cardinality(Counting) \in Nat
    BY QuotaNumbers DEF Typed, TypeOK, Open, Left, Counting
<1>3. ASSUME UNCHANGED <<at, key, item, today, uncounted, waived>>, usage <= usage'
      PROVE  QuotaInv'
    <2>1. /\ Open' = Open /\ Left' = Left /\ Counting' = Counting
          /\ today' = today + 0 /\ uncounted' = uncounted + 0
        BY <1>2, <1>3 DEF Open, Left, Counting, Items
    <2>2. QED BY <1>1, <1>3, <2>1, QuietKeepsQuota DEF QuotaInv
<1>4. ASSUME NEW r \in Requests, Handle(r) PROVE QuotaInv'
    BY <1>1, <1>4, HandleKeepsQuota
<1>5. ASSUME NEW r \in Requests, NEW k \in Keys \cup {None}, Arrive(r, k) PROVE QuotaInv'
    <2>1. /\ at[r] = "new" /\ at'[r] \in {"gate", "check"} /\ Cardinality(Open) < MaxOpen
          /\ item' = item /\ UNCHANGED <<usage, waived>>
          /\ today' = today + 0 /\ uncounted' = uncounted + 0
          /\ \A s \in Requests \ {r} : at'[s] = at[s] /\ key'[s] = key[s]
        BY <1>2, <1>5 DEF Arrive, Typed, TypeOK
    <2>2. Open' \subseteq Open \cup {r} /\ \A s \in Requests \ {r} : Items(s)' = Items(s)
        BY <2>1 DEF Open, Items
    <2>3. \A m \in Messages : m[1] \in Requests
        BY DEF Messages
    <2>4. Left' \subseteq Left /\ Counting' = Counting
        BY <2>1, <2>2, <2>3 DEF Left, Counting
    <2>5. Cardinality(Open') <= MaxOpen
        <3>1. IsFiniteSet(Open) /\ Cardinality(Open) \in Nat
            BY <1>2, QuotaNumbers
        <3>2. /\ IsFiniteSet(Open \cup {r})
              /\ Cardinality(Open \cup {r}) <= Cardinality(Open) + 1
            <4>1. Cardinality(Open \cup {r}) = IF r \in Open THEN Cardinality(Open) ELSE Cardinality(Open) + 1
                BY <3>1, FS_AddElement
            <4>2. IsFiniteSet(Open \cup {r})
                BY <3>1, FS_AddElement
            <4>3. QED BY <3>1, <4>1, <4>2
        <3>3. Cardinality(Open') <= Cardinality(Open \cup {r})
            BY <2>2, <3>2, FS_Subset
        <3>4. Cardinality(Open') \in Nat /\ Cardinality(Open \cup {r}) \in Nat
            BY <2>2, <3>2, FS_Subset, FS_CardinalityType
        <3>5. QED BY <2>1, <3>1, <3>2, <3>3, <3>4, QuotaNumbers
    <2>6. QED BY <1>1, <1>2, <2>1, <2>4, <2>5, QuietKeepsQuota
<1>6. CASE WorkerSends
    BY <1>2, <1>3, <1>6 DEF WorkerSends
<1>7. ASSUME NEW k \in Keys, Expire(k) PROVE QuotaInv'
    BY <1>2, <1>3, <1>7 DEF Expire
<1>8. CASE NextDay
    <2>1. /\ today' = 0 /\ usage' = 0 /\ uncounted' = 0
          /\ Open' = Open /\ Left' = Left /\ Counting' = Counting
        BY <1>8 DEF NextDay, Open, Left, Counting, Items
    <2>2. Cardinality(Left') + Cardinality(Counting') <= MaxOpen * BulkSize
        BY <1>1, <2>1, OpenHolds, HeldBounded DEF QuotaInv
    <2>3. Slack' \in Nat /\ MaxOpen * BulkSize <= Slack'
        BY <1>1, SlackGrows
    <2>4. Cardinality(Left') \in Nat /\ Cardinality(Counting') \in Nat
        BY <1>2, <2>1
    <2>5. QED BY <1>2, <2>1, <2>2, <2>3, <2>4, QuotaNumbers DEF QuotaInv
<1>9. CASE Crash
    <2> DEFINE C == {r \in Requests : at[r] = "count"}
    <2>1. /\ \A r \in Requests : at'[r] \in {"new", "closed"}
          /\ today' = today /\ usage' = usage /\ uncounted' = uncounted + Cardinality(C)
          /\ waived' = waived
        BY <1>9 DEF Crash, Open
    <2>2. Open' = {} /\ Left' = {} /\ Counting' = {}
        BY <2>1 DEF Open, Left, Counting, Messages
    <2>3. Cardinality(Open') = 0 /\ Cardinality(Left') = 0 /\ Cardinality(Counting') = 0
        BY <2>2, FS_EmptySet
    <2>4. Cardinality(Counting) <= Cardinality(C) /\ Cardinality(C) \in Nat
        <3> DEFINE f == [m \in Counting |-> m[1]]
        <3>1. \A m \in Counting : m[1] \in C /\ m = <<m[1], item[m[1]]>>
            BY DEF Counting, Messages
        <3>2. f \in Injection(Counting, C)
            BY <3>1 DEF Injection, IsInjective
        <3>3. IsFiniteSet(C) /\ Cardinality(C) \in Nat
            BY QuotaNumbers
        <3> HIDE DEF f, C
        <3>4. QED BY <3>2, <3>3, FS_Injection
    <2> HIDE DEF C
    <2>5. Slack \in Nat /\ Slack' = Slack
        BY <1>1, <2>1, SlackGrows
    <2>6. QED BY <1>2, <2>1, <2>3, <2>4, <2>5, QuotaNumbers DEF QuotaInv
<1>10. CASE UNCHANGED vars
    BY <1>2, <1>3, <1>10 DEF vars
<1>11. QED BY <1>4, <1>5, <1>6, <1>7, <1>8, <1>9, <1>10 DEF Next

\* What passes the limit is always held by open requests or failed to be counted.
LEMMA AlwaysQuotaInv == Spec => []QuotaInv
<1>1. Init => QuotaInv
    <2> SUFFICES ASSUME Init PROVE QuotaInv
        OBVIOUS
    <2>1. Open = {} /\ Left = {} /\ Counting = {}
        BY DEF Init, Open, Left, Counting, Messages
    <2>2. Cardinality(Open) = 0 /\ Cardinality(Left) = 0 /\ Cardinality(Counting) = 0
        BY <2>1, FS_EmptySet
    <2>3. Slack = MaxOpen * BulkSize
        BY QuotaNumbers DEF Init, Slack
    <2>4. MaxOpen * BulkSize >= 0 /\ Limit > 0
        BY QuotaNumbers
    <2>5. QED BY <2>2, <2>3, <2>4, QuotaNumbers DEF Init, QuotaInv
<1>2. QED BY <1>1, AlwaysTyped, NextKeepsQuota, PTL DEF Spec

\* However the handlers interleave, fail and crash, and whenever midnight
\* comes, a day passes the limit of a subscription only by what MaxOpen requests
\* hold, what was let through without reading the subscription, and what a
\* failed IncrementUsage or a lost reply left uncounted.
THEOREM QuotaOvershootBoundedHolds == Spec => []QuotaOvershootBounded
<1>1. Typed /\ QuotaInv => QuotaOvershootBounded
    <2> SUFFICES ASSUME Typed, QuotaInv PROVE QuotaOvershootBounded
        OBVIOUS
    <2>1. /\ Cardinality(Left) \in Nat /\ today \in Nat /\ uncounted \in Nat
          /\ waived \in Nat /\ Slack \in Nat
        BY QuotaNumbers DEF Left, Slack, Typed, TypeOK
    <2>2. Subscribed => today + Cardinality(Left) < Limit + uncounted + Slack
        BY DEF QuotaInv
    <2>3. Subscribed => today < Limit + uncounted + Slack
        BY <2>1, <2>2, QuotaNumbers
    <2>4. QED BY <2>3 DEF QuotaOvershootBounded, Slack
<1>2. QED BY <1>1, AlwaysTyped, AlwaysQuotaInv, PTL

-----------------------------------------------------------------------------
(* The messages made for one key *)

\* The requests that may still make a message for a key: they found no entry.
Makers(k) == {r \in Requests : key[r] = k /\ at[r] \in {"set", "quota", "create"}}

\* A key for which a message was made has its entry, so no further request gets
\* past the check; those that passed it before were open together.
KeyInv ==
    /\ \A k \in Keys : made[k] # {} => k \in keys
    /\ \A r \in Requests : key[r] # None /\ at[r] \in {"quota", "create"} => key[r] \in keys
    /\ \A k \in Keys : Cardinality(made[k]) + Cardinality(Makers(k)) <= MaxOpen

\* The numbers the invariant speaks of.
LEMMA KeyNumbers ==
    ASSUME Typed, NEW k \in Keys
    PROVE  /\ IsFiniteSet(made[k]) /\ Cardinality(made[k]) \in Nat
           /\ IsFiniteSet(Makers(k)) /\ Cardinality(Makers(k)) \in Nat
<1>1. made[k] \subseteq Messages /\ Makers(k) \subseteq Requests
    BY DEF Typed, TypeOK, Makers
<1>2. QED BY <1>1, QuotaNumbers

\* After a step, a key for which nothing is made has at most the open requests
\* to make it.
LEMMA UnmadeKey ==
    ASSUME QuotaInv', NEW k \in Keys, made'[k] = {}
    PROVE  Cardinality(made'[k]) + Cardinality(Makers(k)') <= MaxOpen
<1>1. Makers(k)' \subseteq Open' /\ Open' \subseteq Requests
    BY DEF Makers, Open
<1>2. /\ IsFiniteSet(Open') /\ Cardinality(Open') \in Nat /\ Cardinality(Makers(k)') \in Nat
      /\ MaxOpen \in Nat
    BY <1>1, QuotaNumbers
<1>3. Cardinality(Makers(k)') <= Cardinality(Open')
    BY <1>1, <1>2, FS_Subset
<1>4. Cardinality(made'[k]) = 0
    BY FS_EmptySet
<1>5. QED BY <1>2, <1>3, <1>4 DEF QuotaInv

\* Nothing made for a key, and no further request past its check.
LEMMA KeyUntouched ==
    ASSUME Typed, KeyInv, NEW k \in Keys, made'[k] = made[k], Makers(k)' \subseteq Makers(k)
    PROVE  Cardinality(made'[k]) + Cardinality(Makers(k)') <= MaxOpen
<1>1. Cardinality(Makers(k)') <= Cardinality(Makers(k)) /\ Cardinality(Makers(k)') \in Nat
    <2>1. IsFiniteSet(Makers(k)) /\ Makers(k)' \subseteq Requests
        BY KeyNumbers DEF Makers
    <2>2. Cardinality(Makers(k)') <= Cardinality(Makers(k))
        BY <2>1, FS_Subset
    <2>3. QED BY <2>1, <2>2, QuotaNumbers
<1>2. Cardinality(made[k]) + Cardinality(Makers(k)) <= MaxOpen
    BY DEF KeyInv
<1>3. Cardinality(made[k]) \in Nat /\ Cardinality(Makers(k)) \in Nat /\ MaxOpen \in Nat
    BY KeyNumbers, QuotaNumbers
<1>4. QED BY <1>1, <1>2, <1>3

\* A move that makes nothing keeps the invariant if a request for a key is past
\* the check only because it was, or because nothing was made for the key.
LEMMA QuietMove ==
    ASSUME Typed, KeyInv, Typed', QuotaInv', NEW r \in Requests, NEW S,
           at' = [at EXCEPT ![r] = S], key' = key, made' = made, keys \subseteq keys',
           key[r] # None /\ S \in {"set", "quota", "create"} =>
               at[r] \in {"set", "quota", "create"} \/ made[key[r]] = {},
           key[r] # None /\ S \in {"quota", "create"} => key[r] \in keys'
    PROVE  KeyInv'
<1>1. at'[r] = S /\ \A s \in Requests \ {r} : at'[s] = at[s]
    BY DEF Typed, TypeOK
<1>2. ASSUME NEW k \in Keys
      PROVE  Cardinality(made'[k]) + Cardinality(Makers(k)') <= MaxOpen
    <2>1. CASE made[k] = {}
        <3>1. made'[k] = {}
            BY <2>1
        <3>2. QED BY <3>1, UnmadeKey
    <2>2. CASE made[k] # {}
        <3>1. Makers(k)' \subseteq Makers(k)
            BY <1>1, <2>2, SendApiAssumption DEF Makers
        <3>2. QED BY <3>1, KeyUntouched
    <2>3. QED BY <2>1, <2>2
<1>3. \A k \in Keys : made'[k] # {} => k \in keys'
    BY DEF KeyInv
<1>4. \A s \in Requests : key'[s] # None /\ at'[s] \in {"quota", "create"} => key'[s] \in keys'
    BY <1>1 DEF KeyInv
<1>5. QED BY <1>2, <1>3, <1>4 DEF KeyInv

\* A step of a handler keeps the invariant.
LEMMA HandleKeepsKeys ==
    ASSUME Typed, KeyInv, Typed', QuotaInv', NEW r \in Requests, Handle(r)
    PROVE  KeyInv'
<1> USE DEF database, queue, results, history, bounds
<1>1. /\ at \in [Requests -> Places] /\ keys \subseteq Keys
      /\ key[r] \in Keys \cup {None} /\ made \in [Keys -> SUBSET Messages]
      /\ item[r] \in Nat /\ item[r] >= 1 /\ item[r] <= Items(r)
    BY SendApiAssumption DEF Handle, EnforceQuota, CheckKey, SetKey, CheckQuota, Create, Count, Enqueue,
                             Typed, TypeOK
<1>2. ASSUME NEW a, Respond(r, a), made' = made, keys \subseteq keys'
      PROVE  KeyInv'
    BY <1>2, QuietMove DEF Respond
<1>3. ASSUME NextItem(r), made' = made, keys' = keys
      PROVE  KeyInv'
    <2>1. CASE Respond(r, "accepted")
        BY <1>2, <1>3, <2>1
    <2>2. CASE /\ item[r] < Items(r)
               /\ at' = [at EXCEPT ![r] = "create"]
               /\ UNCHANGED <<key, answer>>
        <3>1. key[r] = None
            BY <1>1, <2>2 DEF Items
        <3>2. QED BY <1>3, <2>2, <3>1, QuietMove
    <2>3. QED BY <1>3, <2>1, <2>2 DEF NextItem
<1>4. ASSUME Failed(r), made' = made, keys' = keys PROVE KeyInv'
    BY <1>2, <1>3, <1>4 DEF Failed
<1>5. CASE EnforceQuota(r)
    <2>1. made' = made /\ keys' = keys
        BY <1>5 DEF EnforceQuota
    <2>2. CASE Respond(r, "429")
        BY <1>2, <2>1, <2>2
    <2>3. CASE Go(r, IF key[r] = None THEN "quota" ELSE "check")
        BY <2>1, <2>3, QuietMove DEF Go
    <2>4. QED BY <1>5, <2>2, <2>3 DEF EnforceQuota
<1>6. CASE CheckKey(r)
    <2>1. made' = made /\ keys' = keys
        BY <1>6 DEF CheckKey
    <2>2. CASE Respond(r, "duplicate") \/ Respond(r, "500")
        BY <1>2, <2>1, <2>2
    <2>3. CASE key[r] \notin keys /\ Go(r, "set")
        <3>1. key[r] # None => made[key[r]] = {}
            BY <1>1, <2>3 DEF KeyInv
        <3>2. QED BY <2>1, <2>3, <3>1, QuietMove DEF Go
    <2>4. QED BY <1>6, <2>2, <2>3 DEF CheckKey
<1>7. CASE SetKey(r)
    <2>1. made' = made /\ keys \subseteq keys' /\ at[r] = "set"
        BY <1>7 DEF SetKey
    <2>2. CASE Respond(r, "500")
        BY <1>2, <2>1, <2>2
    <2>3. CASE keys' = keys \cup {key[r]} /\ Go(r, "quota")
        BY <2>1, <2>3, QuietMove DEF Go
    <2>4. QED BY <1>7, <2>2, <2>3 DEF SetKey
<1>8. CASE CheckQuota(r)
    <2>1. made' = made /\ keys' = keys /\ at[r] = "quota"
        BY <1>8 DEF CheckQuota
    <2>2. CASE Respond(r, "429") \/ Respond(r, "500")
        BY <1>2, <2>1, <2>2
    <2>3. CASE Go(r, "create")
        <3>1. key[r] # None => key[r] \in keys
            BY <2>1 DEF KeyInv
        <3>2. QED BY <2>1, <2>3, <3>1, QuietMove DEF Go
    <2>4. QED BY <1>8, <2>2, <2>3 DEF CheckQuota
<1>9. CASE Create(r)
    <2>1. CASE Failed(r) /\ (key[r] = None \/ made' = made)
        BY <1>4, <1>9, <2>1 DEF Create, Made
    <2>2. ASSUME Made(r), NEW S \in {"count", "closed"}, at' = [at EXCEPT ![r] = S], key' = key
          PROVE  KeyInv'
        <3>1. at[r] = "create" /\ at' = [at EXCEPT ![r] = S] /\ key' = key /\ keys' = keys
            BY <1>9, <2>2 DEF Create
        <3>2. CASE key[r] = None
            <4>1. made' = made
                BY <2>2, <3>2 DEF Made
            <4>2. QED BY <3>1, <3>2, <4>1, QuietMove
        <3>3. CASE key[r] # None
            <4>1. key[r] \in Keys /\ key[r] \in keys
                BY <1>1, <3>1, <3>3 DEF KeyInv
            <4>2. \A k \in Keys : made'[k] = IF k = key[r] THEN made[k] \cup {Message(r)} ELSE made[k]
                BY <1>1, <2>2, <3>3, <4>1 DEF Made
            <4>3. \A k \in Keys : Makers(k)' = IF k = key[r] THEN Makers(k) \ {r} ELSE Makers(k)
                BY <1>1, <3>1 DEF Makers
            <4>4. ASSUME NEW k \in Keys
                  PROVE  Cardinality(made'[k]) + Cardinality(Makers(k)') <= MaxOpen
                <5>1. CASE k # key[r]
                    BY <4>2, <4>3, <5>1, KeyUntouched
                <5>2. CASE k = key[r]
                    <6>1. r \in Makers(k)
                        BY <3>1, <5>2 DEF Makers
                    <6>2. Cardinality(Makers(k) \ {r}) = Cardinality(Makers(k)) - 1
                        BY <6>1, KeyNumbers, FS_RemoveElement
                    <6>3. Cardinality(made[k] \cup {Message(r)}) \in
                              {Cardinality(made[k]), Cardinality(made[k]) + 1}
                        <7>1. IsFiniteSet(made[k])
                            BY KeyNumbers
                        <7>2. Cardinality(made[k] \cup {Message(r)}) =
                                  IF Message(r) \in made[k] THEN Cardinality(made[k])
                                                            ELSE Cardinality(made[k]) + 1
                            BY <7>1, FS_AddElement
                        <7>3. QED BY <7>2
                    <6>4. Cardinality(made[k]) + Cardinality(Makers(k)) <= MaxOpen
                        BY DEF KeyInv
                    <6>5. /\ Cardinality(made[k]) \in Nat /\ Cardinality(Makers(k)) \in Nat
                          /\ MaxOpen \in Nat
                        BY KeyNumbers, QuotaNumbers
                    <6>6. /\ made'[k] = made[k] \cup {Message(r)}
                          /\ Makers(k)' = Makers(k) \ {r}
                        BY <4>2, <4>3, <5>2
                    <6>7. QED BY <6>2, <6>3, <6>4, <6>5, <6>6
                <5>3. QED BY <5>1, <5>2
            <4>5. \A k \in Keys : made'[k] # {} => k \in keys'
                BY <3>1, <4>1, <4>2 DEF KeyInv
            <4>6. \A s \in Requests : key'[s] # None /\ at'[s] \in {"quota", "create"} =>
                      key'[s] \in keys'
                BY <1>1, <3>1 DEF KeyInv
            <4>7. QED BY <4>4, <4>5, <4>6 DEF KeyInv
        <3>4. QED BY <3>2, <3>3
    <2>3. CASE Made(r) /\ Failed(r) /\ key[r] = None
        <3>1. made' = made
            BY <2>3 DEF Made
        <3>2. QED BY <2>1, <2>3, <3>1
    <2>4. CASE Made(r) /\ Go(r, "count")
        <3>1. at' = [at EXCEPT ![r] = "count"] /\ key' = key
            BY <2>4 DEF Go
        <3>2. QED BY <2>2, <2>4, <3>1
    <2>5. CASE Made(r) /\ Failed(r)
        <3>1. CASE key[r] = None
            BY <2>3, <2>5, <3>1
        <3>2. CASE key[r] # None
            <4>1. at' = [at EXCEPT ![r] = "closed"] /\ key' = key
                BY <2>5, <3>2 DEF Failed, Respond
            <4>2. QED BY <2>2, <2>5, <4>1
        <3>3. QED BY <3>1, <3>2
    <2>6. CASE Failed(r) /\ made' = made
        BY <2>1, <2>6
    <2>7. QED BY <1>9, <2>4, <2>5, <2>6 DEF Create
<1>10. CASE Count(r)
    <2>1. made' = made /\ keys' = keys /\ Go(r, "enqueue")
        BY <1>10 DEF Count
    <2>2. QED BY <2>1, QuietMove DEF Go
<1>11. CASE Enqueue(r)
    BY <1>3, <1>4, <1>11 DEF Enqueue
<1>12. QED BY <1>5, <1>6, <1>7, <1>8, <1>9, <1>10, <1>11 DEF Handle

\* So does every step.
LEMMA NextKeepsKeys == Typed /\ QuotaInv /\ KeyInv /\ [Next]_vars => KeyInv'
<1> SUFFICES ASSUME Typed, QuotaInv, KeyInv, [Next]_vars PROVE KeyInv'
    OBVIOUS
<1> USE DEF handlers, database, queue, results, history, bounds
<1>0. Typed' /\ QuotaInv'
    BY NextTyped, NextKeepsQuota
<1>1. ASSUME NEW r \in Requests, Handle(r) PROVE KeyInv'
    BY <1>0, <1>1, HandleKeepsKeys
<1>2. ASSUME UNCHANGED <<at, key, keys, made>> PROVE KeyInv'
    BY <1>2 DEF KeyInv, Makers
<1>3. ASSUME NEW r \in Requests, NEW k \in Keys \cup {None}, Arrive(r, k) PROVE KeyInv'
    <2>1. /\ at[r] = "new" /\ at'[r] \in {"gate", "check"} /\ keys' = keys /\ made' = made
          /\ \A s \in Requests \ {r} : at'[s] = at[s] /\ key'[s] = key[s]
        BY <1>3 DEF Arrive, Typed, TypeOK
    <2>2. \A j \in Keys : Makers(j)' = Makers(j)
        BY <2>1 DEF Makers
    <2>3. \A j \in Keys : Cardinality(made'[j]) + Cardinality(Makers(j)') <= MaxOpen
        BY <2>1, <2>2 DEF KeyInv
    <2>4. \A s \in Requests : key'[s] # None /\ at'[s] \in {"quota", "create"} => key'[s] \in keys'
        BY <2>1 DEF KeyInv
    <2>5. QED BY <2>1, <2>3, <2>4 DEF KeyInv
<1>4. CASE WorkerSends
    BY <1>2, <1>4 DEF WorkerSends
<1>5. ASSUME NEW k \in Keys, Expire(k) PROVE KeyInv'
    <2>1. /\ at' = at /\ key' = key /\ keys' = keys \ {k}
          /\ \A j \in Keys : made'[j] = IF j = k THEN {} ELSE made[j]
        BY <1>5 DEF Expire, Typed, TypeOK
    <2>2. \A j \in Keys : Makers(j)' = Makers(j)
        BY <2>1 DEF Makers
    <2>3. \A j \in Keys : Cardinality(made'[j]) + Cardinality(Makers(j)') <= MaxOpen
        BY <1>0, <2>1, <2>2, UnmadeKey, KeyUntouched
    <2>4. \A s \in Requests : at[s] \in {"quota", "create"} => key[s] # k
        BY <1>5 DEF Expire, Open
    <2>5. \A s \in Requests : key'[s] # None /\ at'[s] \in {"quota", "create"} => key'[s] \in keys'
        BY <2>1, <2>4 DEF KeyInv
    <2>6. QED BY <2>1, <2>3, <2>5 DEF KeyInv
<1>6. CASE NextDay
    BY <1>2, <1>6 DEF NextDay
<1>7. CASE Crash
    <2>1. /\ key' = key /\ keys' = keys /\ made' = made
          /\ \A s \in Requests : at'[s] \in {"new", "closed"}
        BY <1>7 DEF Crash, Open
    <2>2. \A j \in Keys : Makers(j)' \subseteq Makers(j)
        BY <2>1 DEF Makers
    <2>3. \A j \in Keys : Cardinality(made'[j]) + Cardinality(Makers(j)') <= MaxOpen
        BY <2>1, <2>2, KeyUntouched
    <2>4. QED BY <2>1, <2>3 DEF KeyInv
<1>8. CASE UNCHANGED vars
    BY <1>2, <1>8 DEF vars
<1>9. QED BY <1>1, <1>3, <1>4, <1>5, <1>6, <1>7, <1>8 DEF Next

\* However many requests carry one key, and whatever fails between its check and
\* its message, at most as many messages are made for it while its window lasts
\* as requests may be open at once.
THEOREM MessagesPerKeyBoundedHolds == Spec => []MessagesPerKeyBounded
<1>1. Init => KeyInv
    <2> SUFFICES ASSUME Init PROVE KeyInv
        OBVIOUS
    <2>1. \A k \in Keys : made[k] = {} /\ Makers(k) = {}
        BY DEF Init, Makers
    <2>2. Cardinality({}) = 0 /\ MaxOpen \in Nat
        BY FS_EmptySet, QuotaNumbers
    <2>3. \A k \in Keys : Cardinality(made[k]) + Cardinality(Makers(k)) <= MaxOpen
        BY <2>1, <2>2
    <2>4. QED BY <2>1, <2>3 DEF Init, KeyInv
<1>2. Typed /\ KeyInv => MessagesPerKeyBounded
    <2> SUFFICES ASSUME Typed, KeyInv, NEW k \in Keys PROVE Cardinality(made[k]) <= MaxOpen
        BY DEF MessagesPerKeyBounded
    <2>1. Cardinality(made[k]) \in Nat /\ Cardinality(Makers(k)) \in Nat /\ MaxOpen \in Nat
        BY KeyNumbers, QuotaNumbers
    <2>2. QED BY <2>1 DEF KeyInv
<1>3. QED BY <1>1, <1>2, AlwaysTyped, AlwaysQuotaInv, NextKeepsKeys, PTL DEF Spec

\* When a client repeats a request only after the first one has ended, at most
\* one message is made for its key while the window lasts, whatever fails.
THEOREM SequentialRequestsMakeOneMessage == MaxOpen = 1 => (Spec => []OneMessagePerKey)
<1>1. SUFFICES ASSUME MaxOpen = 1 PROVE Spec => []OneMessagePerKey
    OBVIOUS
<1>2. Typed /\ MessagesPerKeyBounded => OneMessagePerKey
    <2> SUFFICES ASSUME Typed, MessagesPerKeyBounded, NEW k \in Keys,
                        NEW m \in made[k], NEW n \in made[k]
                 PROVE  m = n
        BY DEF OneMessagePerKey
    <2>1. IsFiniteSet(made[k]) /\ Cardinality(made[k]) \in Nat /\ Cardinality(made[k]) <= 1
        BY <1>1, KeyNumbers DEF MessagesPerKeyBounded
    <2>2. Cardinality(made[k]) # 0
        BY <2>1, FS_EmptySet
    <2>3. Cardinality(made[k]) = 1
        BY <2>1, <2>2
    <2>4. QED BY <2>1, <2>3, FS_Singleton
<1>3. QED BY <1>2, AlwaysTyped, MessagesPerKeyBoundedHolds, PTL
=============================================================================
