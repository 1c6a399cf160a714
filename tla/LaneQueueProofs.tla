--------------------------- MODULE LaneQueueProofs ---------------------------
(* Machine-checked proofs about LaneQueue, for every set of messages and of  *)
(* consumers, every ratio, depth limit and number of crashes.                *)
EXTENDS LaneQueue, TLAPS

Distinct(s) == \A i, j \in 1..Len(s) : s[i] = s[j] => i = j

\* Every waiting entry is on the lane of its message, once.
LanesWellFormed ==
    \A l \in Lanes :
        /\ Distinct(backlog[l])
        /\ \A m \in Entries(backlog[l]) : LaneOf[m] = l

\* What a consumer knows agrees with where it is in its loop.
ConsumersWellFormed ==
    \A c \in Consumers :
        /\ at[c] = "handling" <=> held[c] # None
        /\ held[c] \notin failed

IInv ==
    /\ TypeOK
    /\ Accounted
    /\ OneHandler
    /\ LanesWellFormed
    /\ ConsumersWellFormed

-----------------------------------------------------------------------------
(* Lemmas about streams *)

\* Reading the oldest entry removes exactly that entry.
LEMMA TailEntries ==
    ASSUME NEW s \in Seq(Msgs), s # <<>>, Distinct(s)
    PROVE  /\ Head(s) \in Entries(s)
           /\ Tail(s) \in Seq(Msgs)
           /\ Distinct(Tail(s))
           /\ Entries(Tail(s)) = Entries(s) \ {Head(s)}
<1>1. /\ Len(s) \in Nat \ {0}
      /\ Head(s) = s[1]
      /\ Tail(s) \in Seq(Msgs)
      /\ Len(Tail(s)) = Len(s) - 1
      /\ \A i \in 1..Len(Tail(s)) : Tail(s)[i] = s[i + 1]
    OBVIOUS
<1>2. Head(s) \in Entries(s)
    BY <1>1 DEF Entries
<1>3. Distinct(Tail(s))
    <2> SUFFICES ASSUME NEW i \in 1..Len(Tail(s)), NEW j \in 1..Len(Tail(s)),
                        Tail(s)[i] = Tail(s)[j]
                 PROVE  i = j
        BY DEF Distinct
    <2>1. i + 1 \in 1..Len(s) /\ j + 1 \in 1..Len(s) /\ s[i + 1] = s[j + 1]
        BY <1>1
    <2>2. i + 1 = j + 1
        BY <2>1 DEF Distinct
    <2>3. QED BY <2>2, <1>1
<1>4. ASSUME NEW x \in Entries(Tail(s)) PROVE x \in Entries(s) \ {Head(s)}
    <2>1. PICK i \in 1..Len(Tail(s)) : x = Tail(s)[i]
        BY DEF Entries
    <2>2. i + 1 \in 1..Len(s) /\ x = s[i + 1] /\ 1 \in 1..Len(s) /\ i + 1 # 1
        BY <1>1, <2>1
    <2>3. x # s[1]
        BY <2>2 DEF Distinct
    <2>4. QED BY <1>1, <2>2, <2>3 DEF Entries
<1>5. ASSUME NEW x \in Entries(s), x # Head(s) PROVE x \in Entries(Tail(s))
    <2>1. PICK i \in 1..Len(s) : x = s[i]
        BY DEF Entries
    <2>2. i - 1 \in 1..Len(Tail(s)) /\ x = Tail(s)[i - 1]
        BY <1>1, <1>5, <2>1
    <2>3. QED BY <2>2 DEF Entries
<1>6. QED BY <1>1, <1>2, <1>3, <1>4, <1>5

\* What SubSeq selects.
LEMMA Slice ==
    ASSUME NEW s \in Seq(Msgs), NEW a \in 1..Len(s) + 1, NEW b \in 0..Len(s), a <= b + 1
    PROVE  /\ SubSeq(s, a, b) \in Seq(Msgs)
           /\ Len(SubSeq(s, a, b)) = b - a + 1
           /\ \A i \in 1..b - a + 1 : SubSeq(s, a, b)[i] = s[a + i - 1]
<1>1. SubSeq(s, a, b) \in Seq(Msgs)
    OBVIOUS
<1>2. Len(SubSeq(s, a, b)) = b - a + 1
    OBVIOUS
<1>3. \A i \in 1..b - a + 1 : SubSeq(s, a, b)[i] = s[a + i - 1]
    OBVIOUS
<1>4. QED BY <1>1, <1>2, <1>3

\* XADD splits the stream and the new entry into what is kept and what is
\* trimmed; nothing is on both sides and nothing is lost.
LEMMA TrimEntries ==
    ASSUME NEW s \in Seq(Msgs), Distinct(s), NEW m \in Msgs, m \notin Entries(s),
           NEW n \in 1..Len(Append(s, m))
    PROVE  LET added == Append(s, m)
               kept == Newest(added, n)
               trimmed == AllButNewest(added, n)
           IN  /\ kept \in Seq(Msgs)
               /\ Distinct(kept)
               /\ Entries(kept) \cup Entries(trimmed) = Entries(s) \cup {m}
               /\ Entries(kept) \cap Entries(trimmed) = {}
               /\ m \in Entries(kept)
<1> DEFINE added == Append(s, m)
           kept == Newest(added, n)
           trimmed == AllButNewest(added, n)
           t == Len(added) - n
<1>1. /\ added \in Seq(Msgs)
      /\ Len(added) = Len(s) + 1
      /\ Len(s) \in Nat
      /\ \A i \in 1..Len(s) : added[i] = s[i]
      /\ added[Len(s) + 1] = m
    OBVIOUS
<1>2. t \in Nat /\ t + n = Len(added) /\ n \in Nat
    BY <1>1
<1>3. /\ kept \in Seq(Msgs)
      /\ Len(kept) = n
      /\ \A i \in 1..n : kept[i] = added[t + i]
    <2> DEFINE p == t + 1
               q == Len(added)
    <2>1. kept = SubSeq(added, p, q)
        BY DEF Newest
    <2>2. /\ p \in 1..Len(added) + 1 /\ q \in 0..Len(added)
          /\ p <= q + 1 /\ q - p + 1 = n
        BY <1>1, <1>2
    <2>3. \A i \in 1..n : p + i - 1 = t + i
        BY <1>2
    <2> HIDE DEF kept, p, q, t
    <2>4. /\ kept \in Seq(Msgs)
          /\ Len(kept) = q - p + 1
          /\ \A i \in 1..q - p + 1 : kept[i] = added[p + i - 1]
        BY <1>1, <2>1, <2>2, Slice
    <2>5. QED BY <2>2, <2>3, <2>4
<1>4. /\ trimmed \in Seq(Msgs)
      /\ Len(trimmed) = t
      /\ \A i \in 1..t : trimmed[i] = added[i]
    <2>1. t \in 0..Len(added) /\ 1 \in 1..Len(added) + 1 /\ 1 <= t + 1 /\ t - 1 + 1 = t
        BY <1>1, <1>2
    <2>2. trimmed = SubSeq(added, 1, t)
        BY DEF AllButNewest, t
    <2> HIDE DEF t
    <2>3. \A i \in 1..t : 1 + i - 1 = i
        BY <2>1
    <2>4. QED BY <1>1, <2>1, <2>2, <2>3, Slice
<1> HIDE DEF added, kept, trimmed, t
<1>5. Distinct(added)
    <2> SUFFICES ASSUME NEW i \in 1..Len(added), NEW j \in 1..Len(added),
                        added[i] = added[j]
                 PROVE  i = j
        BY DEF Distinct
    <2>1. CASE i \in 1..Len(s) /\ j \in 1..Len(s)
        BY <1>1, <2>1 DEF Distinct
    <2>2. CASE i = Len(s) + 1 /\ j \in 1..Len(s)
        BY <1>1, <2>2 DEF Entries
    <2>3. CASE i \in 1..Len(s) /\ j = Len(s) + 1
        BY <1>1, <2>3 DEF Entries
    <2>4. QED BY <1>1, <2>1, <2>2, <2>3
<1>6. Entries(added) = Entries(s) \cup {m}
    <2>1. ASSUME NEW x \in Entries(added) PROVE x \in Entries(s) \cup {m}
        BY <1>1 DEF Entries
    <2>2. ASSUME NEW x \in Entries(s) \cup {m} PROVE x \in Entries(added)
        <3>1. CASE x = m
            BY <1>1, <3>1 DEF Entries
        <3>2. CASE x \in Entries(s)
            <4>1. PICK i \in 1..Len(s) : x = s[i]
                BY <3>2 DEF Entries
            <4>2. i \in 1..Len(added) /\ x = added[i]
                BY <1>1, <4>1
            <4>3. QED BY <4>2 DEF Entries
        <3>3. QED BY <2>2, <3>1, <3>2
    <2>3. QED BY <2>1, <2>2
<1>7. Distinct(kept)
    <2> SUFFICES ASSUME NEW i \in 1..Len(kept), NEW j \in 1..Len(kept),
                        kept[i] = kept[j]
                 PROVE  i = j
        BY DEF Distinct
    <2>1. t + i \in 1..Len(added) /\ t + j \in 1..Len(added)
        BY <1>1, <1>2, <1>3
    <2>1a. added[t + i] = added[t + j]
        BY <1>3
    <2>2. t + i = t + j
        BY <2>1, <2>1a, <1>5 DEF Distinct
    <2>3. QED BY <2>2, <1>2, <1>3
<1>8. Entries(kept) \cup Entries(trimmed) = Entries(added)
    <2>1. ASSUME NEW x \in Entries(kept) PROVE x \in Entries(added)
        <3>1. PICK i \in 1..n : x = kept[i]
            BY <1>3 DEF Entries
        <3>2. t + i \in 1..Len(added)
            BY <1>1, <1>2
        <3>3. QED BY <1>3, <3>1, <3>2 DEF Entries
    <2>2. ASSUME NEW x \in Entries(trimmed) PROVE x \in Entries(added)
        <3>1. PICK i \in 1..Len(trimmed) : x = trimmed[i]
            BY DEF Entries
        <3>2. i \in 1..Len(added) /\ x = added[i]
            BY <1>1, <1>2, <1>4, <3>1
        <3>3. QED BY <3>2 DEF Entries
    <2>3. ASSUME NEW x \in Entries(added) PROVE x \in Entries(kept) \cup Entries(trimmed)
        <3>1. PICK i \in 1..Len(added) : x = added[i]
            BY DEF Entries
        <3>2. CASE i <= t
            <4>1. i \in 1..t /\ x = trimmed[i]
                BY <1>1, <1>2, <1>4, <3>1, <3>2
            <4>2. QED BY <4>1, <1>4 DEF Entries
        <3>3. CASE i > t
            <4>1. i - t \in 1..n /\ t + (i - t) = i
                BY <1>1, <1>2, <3>1, <3>3, Len(added) \in Nat
            <4>2. x = kept[i - t]
                BY <1>3, <3>1, <4>1
            <4>3. QED BY <4>1, <4>2, <1>3 DEF Entries
        <3>4. QED BY <1>1, <1>2, <3>1, <3>2, <3>3
    <2>4. QED BY <2>1, <2>2, <2>3
<1>9. Entries(kept) \cap Entries(trimmed) = {}
    <2> SUFFICES ASSUME NEW i \in 1..n, NEW j \in 1..t, kept[i] = trimmed[j]
                 PROVE  FALSE
        BY <1>3, <1>4 DEF Entries
    <2>1. /\ t + i \in 1..Len(added) /\ j \in 1..Len(added)
          /\ added[t + i] = added[j] /\ t + i # j
        BY <1>1, <1>2, <1>3, <1>4
    <2>2. QED BY <2>1, <1>5 DEF Distinct
<1>10. m \in Entries(kept)
    <2>1. n \in 1..Len(kept) /\ kept[n] = m
        BY <1>1, <1>2, <1>3
    <2>2. QED BY <2>1 DEF Entries
<1>11. QED BY <1>3, <1>6, <1>7, <1>8, <1>9, <1>10 DEF added, kept, trimmed

-----------------------------------------------------------------------------
(* Lemmas about the backlog *)

\* Membership in the backlog, before and after a step.
LEMMA WaitingMember ==
    ASSUME NEW x
    PROVE  /\ x \in Waiting <=> \E k \in Lanes : x \in Entries(backlog[k])
           /\ x \in Waiting' <=> \E k \in Lanes : x \in Entries(backlog'[k])
BY Zenon DEF Waiting, Entries

\* A served read removes one message from the backlog, the head of its lane.
LEMMA WaitingAfterRead ==
    ASSUME backlog \in [Lanes -> Seq(Msgs)], LanesWellFormed,
           NEW l \in Lanes, backlog[l] # <<>>, backlog' = Taken(l)
    PROVE  /\ backlog' \in [Lanes -> Seq(Msgs)]
           /\ LanesWellFormed'
           /\ Head(backlog[l]) \in Msgs
           /\ Head(backlog[l]) \in Waiting
           /\ Waiting' = Waiting \ {Head(backlog[l])}
<1> DEFINE h == Head(backlog[l])
<1>1. backlog[l] \in Seq(Msgs) /\ Distinct(backlog[l])
    BY DEF LanesWellFormed
<1>2. /\ h \in Entries(backlog[l])
      /\ Tail(backlog[l]) \in Seq(Msgs)
      /\ Distinct(Tail(backlog[l]))
      /\ Entries(Tail(backlog[l])) = Entries(backlog[l]) \ {h}
    BY <1>1, TailEntries
<1>3. h \in Msgs
    BY <1>1
<1>4. /\ backlog'[l] = Tail(backlog[l])
      /\ \A k \in Lanes : k # l => backlog'[k] = backlog[k]
    BY DEF Taken
<1>5. backlog' \in [Lanes -> Seq(Msgs)]
    BY <1>2 DEF Taken
<1>6. LaneOf[h] = l /\ \A k \in Lanes : h \in Entries(backlog[k]) => k = l
    BY <1>2 DEF LanesWellFormed
<1> HIDE DEF h
<1>7. LanesWellFormed'
    <2> SUFFICES ASSUME NEW k \in Lanes
                 PROVE  /\ Distinct(backlog'[k])
                        /\ \A m \in Entries(backlog'[k]) : LaneOf[m] = k
        BY DEF LanesWellFormed
    <2>1. CASE k = l
        BY <2>1, <1>2, <1>4 DEF LanesWellFormed
    <2>2. CASE k # l
        BY <2>2, <1>4 DEF LanesWellFormed
    <2>3. QED BY <2>1, <2>2
<1>8. Waiting' = Waiting \ {h}
    <2>1. \A k \in Lanes : Entries(backlog'[k]) = Entries(backlog[k]) \ {h}
        BY <1>2, <1>4, <1>6
    <2>2. \A k \in Lanes : \A x :
            x \in Entries(backlog'[k]) <=> x \in Entries(backlog[k]) /\ x # h
        BY <2>1
    <2>3. ASSUME NEW x PROVE x \in Waiting' <=> x \in Waiting /\ x # h
        BY <2>2, WaitingMember, Zenon
    <2>4. QED BY <2>3
<1>9. h \in Waiting
    BY <1>2 DEF Waiting
<1>10. QED BY <1>3, <1>5, <1>7, <1>8, <1>9 DEF h

\* An accepted message joins the backlog; what XADD trims leaves it.
LEMMA WaitingAfterEnqueue ==
    ASSUME backlog \in [Lanes -> Seq(Msgs)], LanesWellFormed,
           NEW m \in Msgs, m \notin Waiting,
           NEW n \in 1..Len(Append(backlog[LaneOf[m]], m)),
           backlog' = [backlog EXCEPT ![LaneOf[m]] =
                          Newest(Append(backlog[LaneOf[m]], m), n)]
    PROVE  /\ backlog' \in [Lanes -> Seq(Msgs)]
           /\ LanesWellFormed'
           /\ LET gone == Entries(AllButNewest(Append(backlog[LaneOf[m]], m), n))
              IN  /\ gone \subseteq Waiting \cup {m}
                  /\ Waiting' = (Waiting \cup {m}) \ gone
                  /\ m \notin gone
<1> DEFINE l == LaneOf[m]
           kept == Newest(Append(backlog[l], m), n)
           gone == Entries(AllButNewest(Append(backlog[l], m), n))
<1>1. l \in Lanes
    BY QueueAssumption
<1>2. /\ backlog[l] \in Seq(Msgs) /\ Distinct(backlog[l])
      /\ m \notin Entries(backlog[l])
    BY <1>1 DEF LanesWellFormed, Waiting
<1>3. /\ kept \in Seq(Msgs)
      /\ Distinct(kept)
      /\ Entries(kept) \cup gone = Entries(backlog[l]) \cup {m}
      /\ Entries(kept) \cap gone = {}
      /\ m \in Entries(kept)
    BY <1>2, TrimEntries
<1>4. /\ backlog'[l] = kept
      /\ \A k \in Lanes : k # l => backlog'[k] = backlog[k]
    BY <1>1
<1>5. backlog' \in [Lanes -> Seq(Msgs)]
    BY <1>3
<1>6. \A x \in Entries(backlog[l]) \cup {m} : LaneOf[x] = l
    BY <1>1 DEF LanesWellFormed
<1> HIDE DEF l, kept, gone
<1>7. LanesWellFormed'
    <2> SUFFICES ASSUME NEW k \in Lanes
                 PROVE  /\ Distinct(backlog'[k])
                        /\ \A x \in Entries(backlog'[k]) : LaneOf[x] = k
        BY DEF LanesWellFormed
    <2>1. CASE k = l
        BY <2>1, <1>3, <1>4, <1>6
    <2>2. CASE k # l
        BY <2>2, <1>4 DEF LanesWellFormed
    <2>3. QED BY <2>1, <2>2
<1>8. gone \subseteq Waiting \cup {m}
    BY <1>1, <1>3 DEF Waiting
<1>9. Waiting' = (Waiting \cup {m}) \ gone
    <2>2. ASSUME NEW k \in Lanes, k # l, NEW x \in Entries(backlog[k])
          PROVE  x \notin gone
        <3>1. LaneOf[x] = k
            BY <2>2 DEF LanesWellFormed
        <3>2. QED BY <3>1, <2>2, <1>3, <1>6
    <2>3. Entries(backlog'[l]) = (Entries(backlog[l]) \cup {m}) \ gone
        BY <1>3, <1>4
    <2>4. \A k \in Lanes : k # l =>
            Entries(backlog'[k]) = Entries(backlog[k]) \ gone
        BY <2>2, <1>4
    <2>5. ASSUME NEW k \in Lanes, NEW x
          PROVE  x \in Entries(backlog'[k]) <=>
                     x \notin gone /\ (x \in Entries(backlog[k]) \/ (k = l /\ x = m))
        <3>1. CASE k = l
            <4>1. x \in Entries(backlog'[l]) <=>
                    x \notin gone /\ (x \in Entries(backlog[l]) \/ x = m)
                BY <2>3
            <4>2. QED BY <3>1, <4>1, Zenon
        <3>2. CASE k # l
            <4>1. x \in Entries(backlog'[k]) <=>
                    x \notin gone /\ x \in Entries(backlog[k])
                BY <2>4, <3>2
            <4>2. QED BY <3>2, <4>1, Zenon
        <3>3. QED BY <3>1, <3>2
    <2>6. ASSUME NEW x PROVE x \in Waiting' <=> x \in (Waiting \cup {m}) \ gone
        <3>1. x \in Waiting' <=> \E k \in Lanes : x \in Entries(backlog'[k])
            BY WaitingMember, Zenon
        <3>2. x \in Waiting <=> \E k \in Lanes : x \in Entries(backlog[k])
            BY WaitingMember, Zenon
        <3>3. x \in Waiting' <=> x \notin gone /\ (x \in Waiting \/ x = m)
            BY <1>1, <2>5, <3>1, <3>2, Zenon
        <3>4. QED BY <3>3
    <2>7. QED BY <2>6
<1>10. m \notin gone
    BY <1>3
<1>11. QED BY <1>5, <1>7, <1>8, <1>9, <1>10 DEF l, gone

-----------------------------------------------------------------------------
(* The inductive invariant *)

\* The names of places differ.
LEMMA PlacesDiffer ==
    /\ {"handling", "store", "load", "gate", "reset", "admitted"} \cap Lanes = {}
    /\ "otp" \in Lanes /\ "transactional" \in Lanes /\ "marketing" \in Lanes
    /\ Lanes \subseteq Places
    /\ {"handling", "store", "load", "gate", "reset", "admitted"} \subseteq Places
BY DEF Lanes, Places

\* The initial state satisfies it.
LEMMA InitIInv == Init => IInv
<1> SUFFICES ASSUME Init PROVE IInv
    OBVIOUS
<1>1. \A l \in Lanes : backlog[l] = <<>>
    BY DEF Init
<1>2. \A l \in Lanes : Entries(backlog[l]) = {}
    BY <1>1 DEF Entries
<1>3. Waiting = {}
    BY <1>2 DEF Waiting
<1>4. TypeOK
    <2>1. <<>> \in Seq(Msgs) /\ 0 \in 0..MaxSkips /\ 0 \in 0..MaxCrashes
        BY QueueAssumption
    <2>2. QED BY <2>1, PlacesDiffer DEF Init, TypeOK
<1>5. Accounted /\ OneHandler
    BY <1>3 DEF Init, Accounted, OneHandler
<1>6. LanesWellFormed
    BY <1>1, <1>2 DEF LanesWellFormed, Distinct
<1>7. ConsumersWellFormed
    BY DEF Init, ConsumersWellFormed, Lanes
<1>8. QED BY <1>4, <1>5, <1>6, <1>7 DEF IInv

\* The backlog part of the invariant depends on backlog alone.
LEMMA BacklogUnchanged ==
    ASSUME UNCHANGED backlog, LanesWellFormed
    PROVE  Waiting' = Waiting /\ LanesWellFormed'
BY DEF Waiting, LanesWellFormed, Entries

\* What Enqueue does to the backlog, as the rest of the module sees it.
LEMMA EnqueueBacklog ==
    ASSUME IInv, NEW m \in Msgs, Enqueue(m)
    PROVE  /\ UNCHANGED <<pel, acked, dead, failed, at, held, skips, loaded, raised, crashes>>
           /\ m \notin enqueued /\ enqueued' = enqueued \cup {m}
           /\ backlog' \in [Lanes -> Seq(Msgs)]
           /\ LanesWellFormed'
           /\ m \in Waiting'
           /\ Waiting \cup {m} = Waiting' \cup (dropped' \ dropped)
           /\ Waiting' \cap dropped' = {}
           /\ dropped \subseteq dropped'
<1> DEFINE added == Append(backlog[LaneOf[m]], m)
<1>1. PICK n \in 1..Len(added) :
        /\ backlog' = [backlog EXCEPT ![LaneOf[m]] = Newest(added, n)]
        /\ dropped' = dropped \cup Entries(AllButNewest(added, n))
    BY DEF Enqueue
<1> DEFINE gone == Entries(AllButNewest(added, n))
<1>2. /\ m \notin enqueued /\ enqueued' = enqueued \cup {m}
      /\ UNCHANGED <<pel, acked, dead, failed, at, held, skips, loaded, raised, crashes>>
    BY DEF Enqueue, consumerVars
<1>3. m \notin Waiting \cup pel \cup acked \cup dropped /\ Waiting \cap dropped = {}
    BY <1>2 DEF IInv, Accounted
<1>4. /\ backlog' \in [Lanes -> Seq(Msgs)]
      /\ LanesWellFormed'
      /\ gone \subseteq Waiting \cup {m}
      /\ Waiting' = (Waiting \cup {m}) \ gone
      /\ m \notin gone
    BY <1>1, <1>3, WaitingAfterEnqueue DEF IInv, TypeOK
<1>5. dropped' = dropped \cup gone
    BY <1>1
<1> HIDE DEF gone
<1>6. QED BY <1>2, <1>3, <1>4, <1>5

\* An accepted message is new to every place; trimmed ones move to dropped.
LEMMA EnqueueIInv ==
    ASSUME IInv, NEW m \in Msgs, Enqueue(m) PROVE IInv'
<1>1. /\ UNCHANGED <<pel, acked, dead, failed, at, held, skips, loaded, raised, crashes>>
      /\ m \notin enqueued /\ enqueued' = enqueued \cup {m}
      /\ backlog' \in [Lanes -> Seq(Msgs)]
      /\ LanesWellFormed'
      /\ m \in Waiting'
      /\ Waiting \cup {m} = Waiting' \cup (dropped' \ dropped)
      /\ Waiting' \cap dropped' = {}
      /\ dropped \subseteq dropped'
    BY EnqueueBacklog
<1>2. enqueued \subseteq Msgs /\ Waiting \subseteq Msgs /\ dropped \subseteq Msgs
    BY DEF IInv, TypeOK, Accounted
<1>3. m \notin Waiting \cup pel \cup acked \cup dropped
    BY <1>1 DEF IInv, Accounted
<1>4. TypeOK'
    BY <1>1, <1>2 DEF IInv, TypeOK
<1>5. Accounted'
    BY <1>1, <1>3 DEF IInv, Accounted
<1>6. OneHandler' /\ ConsumersWellFormed'
    BY <1>1 DEF IInv, OneHandler, ConsumersWellFormed
<1>7. QED BY <1>1, <1>4, <1>5, <1>6 DEF IInv

\* A read moves the head of a lane to the pending entries, for c or for nobody.
LEMMA ReadIInv ==
    ASSUME IInv, NEW c \in Consumers, Read(c) PROVE IInv'
<1> DEFINE h == Head(backlog[at[c]])
<1>1. /\ at[c] \in Lanes /\ backlog[at[c]] # <<>>
      /\ backlog' = Taken(at[c])
      /\ pel' = pel \cup {h}
      /\ held' = [held EXCEPT ![c] = h]
      /\ at' = [at EXCEPT ![c] = "handling"]
      /\ UNCHANGED <<acked, dead, failed, dropped, enqueued, skips, loaded, raised, crashes>>
    BY DEF Read
<1>2. /\ backlog' \in [Lanes -> Seq(Msgs)]
      /\ LanesWellFormed'
      /\ h \in Msgs
      /\ h \in Waiting
      /\ Waiting' = Waiting \ {h}
    BY <1>1, WaitingAfterRead DEF IInv, TypeOK
<1> HIDE DEF h
<1>3. h \notin pel /\ h \notin failed /\ h # None
    BY <1>2, QueueAssumption DEF IInv, Accounted
<1>4. TypeOK'
    BY <1>1, <1>2, PlacesDiffer DEF IInv, TypeOK
<1>5. Accounted'
    BY <1>1, <1>2 DEF IInv, Accounted
<1>6. OneHandler'
    BY <1>1, <1>3 DEF IInv, OneHandler, TypeOK
<1>7. ConsumersWellFormed'
    BY <1>1, <1>3 DEF IInv, ConsumersWellFormed, TypeOK
<1>8. QED BY <1>2, <1>4, <1>5, <1>6, <1>7 DEF IInv

\* A failed read changes nothing, or strands the head of the lane.
LEMMA ReadFailsIInv ==
    ASSUME IInv, NEW c \in Consumers, ReadFails(c) PROVE IInv'
<1> DEFINE h == Head(backlog[at[c]])
<1>1. /\ at[c] \in Lanes
      /\ at' \in {at, [at EXCEPT ![c] = "otp"]}
      /\ UNCHANGED <<acked, dead, failed, dropped, enqueued, held, skips, loaded, raised, crashes>>
    BY DEF ReadFails
<1>2. ConsumersWellFormed'
    BY <1>1, PlacesDiffer DEF IInv, ConsumersWellFormed, TypeOK
<1>3. CASE UNCHANGED <<backlog, pel>>
    <2>1. Waiting' = Waiting /\ LanesWellFormed'
        BY <1>3, BacklogUnchanged DEF IInv
    <2>2. TypeOK'
        BY <1>1, <1>3, PlacesDiffer DEF IInv, TypeOK
    <2>3. Accounted' /\ OneHandler'
        BY <1>1, <1>3, <2>1 DEF IInv, Accounted, OneHandler
    <2>4. QED BY <1>2, <2>1, <2>2, <2>3 DEF IInv
<1>4. CASE /\ backlog[at[c]] # <<>>
           /\ backlog' = Taken(at[c])
           /\ pel' = pel \cup {h}
    <2>1. /\ backlog' \in [Lanes -> Seq(Msgs)]
          /\ LanesWellFormed'
          /\ h \in Msgs
          /\ h \in Waiting
          /\ Waiting' = Waiting \ {h}
        BY <1>1, <1>4, WaitingAfterRead DEF IInv, TypeOK
    <2> HIDE DEF h
    <2>2. TypeOK'
        BY <1>1, <1>4, <2>1, PlacesDiffer DEF IInv, TypeOK
    <2>3. Accounted'
        BY <1>1, <1>4, <2>1 DEF IInv, Accounted
    <2>4. OneHandler'
        BY <1>1, <1>4 DEF IInv, OneHandler
    <2>5. QED BY <1>2, <2>1, <2>2, <2>3, <2>4 DEF IInv
<1>5. QED BY <1>3, <1>4 DEF ReadFails

\* The steps of the loop that touch no entry.
LEMMA IdleIInv ==
    ASSUME IInv, NEW c \in Consumers,
           \/ ReadTimesOut(c) \/ ResetSkips(c) \/ GateMarketing(c)
           \/ LoadSkips(c) \/ StoreSkips(c)
    PROVE  IInv'
<1>1. /\ UNCHANGED <<backlog, pel, acked, dead, failed, dropped, enqueued, held, crashes>>
      /\ at[c] # "handling"
    BY PlacesDiffer
    DEF ReadTimesOut, ResetSkips, GateMarketing, LoadSkips, StoreSkips, queueVars
<1>2. Waiting' = Waiting /\ LanesWellFormed'
    BY <1>1, BacklogUnchanged DEF IInv
<1>3. Accounted' /\ OneHandler'
    BY <1>1, <1>2 DEF IInv, Accounted, OneHandler
<1>4. /\ at' = [at EXCEPT ![c] = at'[c]]
      /\ at'[c] \in Places \ {"handling"}
    <2>1. CASE ReadTimesOut(c)
        BY <2>1, PlacesDiffer DEF ReadTimesOut, AfterLane, Lanes, IInv, TypeOK
    <2>2. CASE ResetSkips(c) \/ GateMarketing(c) \/ LoadSkips(c) \/ StoreSkips(c)
        BY <2>2, PlacesDiffer
        DEF ResetSkips, GateMarketing, LoadSkips, StoreSkips, Lanes, IInv, TypeOK
    <2>3. QED BY <2>1, <2>2
<1>5. skips' \in 0..MaxSkips /\ loaded' \in [Consumers -> 0..MaxSkips] /\ raised' \subseteq Consumers
    <2>1. skips \in 0..MaxSkips /\ loaded \in [Consumers -> 0..MaxSkips] /\ raised \subseteq Consumers
        BY DEF IInv, TypeOK
    <2>2. CASE ReadTimesOut(c) \/ ResetSkips(c) \/ GateMarketing(c) \/ LoadSkips(c)
        BY <2>1, <2>2, QueueAssumption DEF ReadTimesOut, ResetSkips, GateMarketing, LoadSkips
    <2>3. CASE StoreSkips(c)
        BY <2>1, <2>3, QueueAssumption DEF StoreSkips
    <2>4. QED BY <2>2, <2>3
<1>6. TypeOK'
    BY <1>1, <1>4, <1>5 DEF IInv, TypeOK
<1>7. ConsumersWellFormed'
    BY <1>1, <1>4 DEF IInv, ConsumersWellFormed, TypeOK
<1>8. QED BY <1>2, <1>3, <1>6, <1>7 DEF IInv

\* A handled message is acknowledged, or stays pending when the XACK fails.
LEMMA HandlerSucceedsIInv ==
    ASSUME IInv, NEW c \in Consumers, HandlerSucceeds(c) PROVE IInv'
<1> DEFINE m == held[c]
<1>1. /\ at[c] = "handling"
      /\ held' = [held EXCEPT ![c] = None]
      /\ at' = [at EXCEPT ![c] = "otp"]
      /\ UNCHANGED <<backlog, dead, failed, dropped, enqueued, skips, loaded, raised, crashes>>
      /\ \/ pel' = pel \ {m} /\ acked' = acked \cup {m}
         \/ UNCHANGED <<pel, acked>>
    BY DEF HandlerSucceeds, Release
<1>2. m # None /\ m \in pel /\ m \notin failed
    BY <1>1 DEF IInv, OneHandler, ConsumersWellFormed
<1>3. \A d \in Consumers : d # c => held[d] # m
    BY <1>2 DEF IInv, OneHandler
<1> HIDE DEF m
<1>4. Waiting' = Waiting /\ LanesWellFormed'
    BY <1>1, BacklogUnchanged DEF IInv
<1>5. TypeOK'
    BY <1>1, <1>2, PlacesDiffer DEF IInv, TypeOK
<1>6. Accounted'
    BY <1>1, <1>2, <1>4 DEF IInv, Accounted
<1>7. OneHandler'
    BY <1>1, <1>3 DEF IInv, OneHandler, TypeOK
<1>8. ConsumersWellFormed'
    <2>1. None \notin failed
        BY QueueAssumption DEF IInv, TypeOK
    <2>2. QED BY <1>1, <2>1, PlacesDiffer DEF IInv, ConsumersWellFormed, TypeOK
<1>9. QED BY <1>4, <1>5, <1>6, <1>7, <1>8 DEF IInv

\* A failed message stays pending, dead-lettered or not.
LEMMA HandlerFailsIInv ==
    ASSUME IInv, NEW c \in Consumers, HandlerFails(c) PROVE IInv'
<1> DEFINE m == held[c]
<1>1. /\ at[c] = "handling"
      /\ held' = [held EXCEPT ![c] = None]
      /\ at' = [at EXCEPT ![c] = "otp"]
      /\ failed' = failed \cup {m}
      /\ dead' = dead \cup {m} \/ dead' = dead
      /\ UNCHANGED <<backlog, pel, acked, dropped, enqueued, skips, loaded, raised, crashes>>
    BY DEF HandlerFails, Release
<1>2. m # None /\ m \in pel
    BY <1>1 DEF IInv, OneHandler, ConsumersWellFormed
<1>3. \A d \in Consumers : d # c => held[d] # m
    BY <1>2 DEF IInv, OneHandler
<1> HIDE DEF m
<1>4. Waiting' = Waiting /\ LanesWellFormed'
    BY <1>1, BacklogUnchanged DEF IInv
<1>5. TypeOK'
    BY <1>1, <1>2, PlacesDiffer DEF IInv, TypeOK
<1>6. Accounted'
    BY <1>1, <1>2, <1>4 DEF IInv, Accounted
<1>7. OneHandler'
    BY <1>1 DEF IInv, OneHandler, TypeOK
<1>8. None \notin failed'
    BY <1>5, QueueAssumption DEF TypeOK
<1>9. ConsumersWellFormed'
    BY <1>1, <1>3, <1>8, PlacesDiffer DEF IInv, ConsumersWellFormed, TypeOK
<1>10. QED BY <1>4, <1>5, <1>6, <1>7, <1>9 DEF IInv

\* A crash forgets who held what.
LEMMA CrashIInv == IInv /\ Crash => IInv'
<1> SUFFICES ASSUME IInv, Crash PROVE IInv'
    OBVIOUS
<1>1. /\ crashes < MaxCrashes /\ crashes' = crashes + 1
      /\ at' = [c \in Consumers |-> "otp"]
      /\ held' = [c \in Consumers |-> None]
      /\ skips' = 0
      /\ loaded' = [c \in Consumers |-> 0]
      /\ raised' = {}
      /\ UNCHANGED <<backlog, pel, acked, dead, failed, dropped, enqueued>>
    BY DEF Crash, queueVars
<1>2. Waiting' = Waiting /\ LanesWellFormed'
    BY <1>1, BacklogUnchanged DEF IInv
<1>3. TypeOK'
    BY <1>1, PlacesDiffer, QueueAssumption DEF IInv, TypeOK
<1>4. None \notin failed'
    BY <1>3, QueueAssumption DEF TypeOK
<1>5. Accounted'
    BY <1>1, <1>2 DEF IInv, Accounted
<1>6. OneHandler'
    BY <1>1 DEF OneHandler
<1>7. ConsumersWellFormed'
    BY <1>1, <1>4, PlacesDiffer DEF ConsumersWellFormed
<1>8. QED BY <1>2, <1>3, <1>5, <1>6, <1>7 DEF IInv

\* Every step preserves it.
LEMMA NextIInv == IInv /\ [Next]_vars => IInv'
<1> SUFFICES ASSUME IInv, [Next]_vars PROVE IInv'
    OBVIOUS
<1>1. CASE UNCHANGED vars
    <2>1. Waiting' = Waiting /\ LanesWellFormed'
        BY <1>1, BacklogUnchanged DEF IInv, vars, queueVars
    <2>2. QED BY <1>1, <2>1
        DEF IInv, TypeOK, Accounted, OneHandler, ConsumersWellFormed,
            vars, queueVars, consumerVars
<1>2. ASSUME NEW m \in Msgs, Enqueue(m) PROVE IInv'
    BY <1>2, EnqueueIInv
<1>3. ASSUME NEW c \in Consumers, Read(c) PROVE IInv'
    BY <1>3, ReadIInv
<1>4. ASSUME NEW c \in Consumers, ReadFails(c) PROVE IInv'
    BY <1>4, ReadFailsIInv
<1>5. ASSUME NEW c \in Consumers, Loop(c) PROVE IInv'
    BY <1>5, IdleIInv, HandlerSucceedsIInv, HandlerFailsIInv DEF Loop
<1>6. CASE Crash
    BY <1>6, CrashIInv
<1>7. QED BY <1>1, <1>2, <1>3, <1>4, <1>5, <1>6 DEF Next

\* Hence it holds throughout.
LEMMA AlwaysIInv == Spec => []IInv
<1>1. QED BY InitIInv, NextIInv, PTL DEF Spec

-----------------------------------------------------------------------------
(* Theorems *)

\* Whatever is trimmed, lost or crashes, every accepted entry is in exactly
\* one place.
THEOREM AccountedHolds == Spec => []Accounted
<1>1. IInv => Accounted
    BY DEF IInv
<1>2. QED BY <1>1, AlwaysIInv, PTL

\* No two consumers ever handle the same entry.
THEOREM OneHandlerHolds == Spec => []OneHandler
<1>1. IInv => OneHandler
    BY DEF IInv
<1>2. QED BY <1>1, AlwaysIInv, PTL

-----------------------------------------------------------------------------
(* Refinement of AtMostOnce *)

Running(m) == \E c \in Consumers : held[c] = m

\* The status of a message, place by place.
LEMMA StatusCases ==
    ASSUME IInv, NEW m \in Msgs
    PROVE  /\ m \notin enqueued => StatusOf(m) = "absent"
           /\ m \in Waiting => StatusOf(m) = "queued"
           /\ m \in dropped => StatusOf(m) = "dropped"
           /\ m \in acked => StatusOf(m) = "done"
           /\ m \in pel /\ Running(m) => StatusOf(m) = "running"
           /\ m \in pel /\ ~Running(m) => StatusOf(m) = "stranded"
           /\ m \in enqueued => m \in Waiting \cup dropped \cup acked \cup pel
BY DEF IInv, Accounted, StatusOf, Running

\* Every step makes a legal move, or none, for every message.
LEMMA StatusStep ==
    ASSUME IInv, IInv', [Next]_vars, NEW m \in Msgs
    PROVE  \/ StatusOf(m)' = StatusOf(m)
           \/ <<StatusOf(m), StatusOf(m)'>> \in Abstract!Moves
<1> DEFINE Legal == \/ StatusOf(m)' = StatusOf(m)
                    \/ <<StatusOf(m), StatusOf(m)'>> \in Abstract!Moves
<1>1. /\ m \notin enqueued => StatusOf(m) = "absent"
      /\ m \in Waiting => StatusOf(m) = "queued"
      /\ m \in dropped => StatusOf(m) = "dropped"
      /\ m \in acked => StatusOf(m) = "done"
      /\ m \in pel /\ Running(m) => StatusOf(m) = "running"
      /\ m \in pel /\ ~Running(m) => StatusOf(m) = "stranded"
      /\ m \in enqueued => m \in Waiting \cup dropped \cup acked \cup pel
    BY StatusCases
<1>2. /\ m \notin enqueued' => StatusOf(m)' = "absent"
      /\ m \in Waiting' => StatusOf(m)' = "queued"
      /\ m \in dropped' => StatusOf(m)' = "dropped"
      /\ m \in acked' => StatusOf(m)' = "done"
      /\ m \in pel' /\ Running(m)' => StatusOf(m)' = "running"
      /\ m \in pel' /\ ~Running(m)' => StatusOf(m)' = "stranded"
      /\ m \in enqueued' => m \in Waiting' \cup dropped' \cup acked' \cup pel'
    BY DEF IInv, Accounted, StatusOf, Running
<1>3. ASSUME UNCHANGED <<enqueued, dropped, acked, pel, held>>, Waiting' = Waiting
      PROVE  Legal
    BY <1>3 DEF StatusOf
<1>4. CASE UNCHANGED vars
    BY <1>3, <1>4, BacklogUnchanged DEF IInv, vars, queueVars, consumerVars
<1>5. ASSUME NEW x \in Msgs, Enqueue(x) PROVE Legal
    <2>1. /\ UNCHANGED <<pel, acked, held>>
          /\ x \notin enqueued /\ enqueued' = enqueued \cup {x}
          /\ x \in Waiting'
          /\ Waiting \cup {x} = Waiting' \cup (dropped' \ dropped)
          /\ dropped \subseteq dropped'
        BY <1>5, EnqueueBacklog
    <2>2. Running(m)' = Running(m)
        BY <2>1 DEF Running
    <2>3. CASE m = x
        <3>1. StatusOf(m) = "absent" /\ StatusOf(m)' = "queued"
            BY <1>1, <1>2, <2>1, <2>3
        <3>2. QED BY <3>1 DEF Abstract!Moves
    <2>4. CASE m # x /\ m \in Waiting
        <3>1. StatusOf(m) = "queued" /\ StatusOf(m)' \in {"queued", "dropped"}
            BY <1>1, <1>2, <2>1, <2>4
        <3>2. QED BY <3>1 DEF Abstract!Moves
    <2>5. CASE m # x /\ m \notin Waiting
        <3>1. /\ m \in enqueued' <=> m \in enqueued
              /\ m \in dropped' <=> m \in dropped
            BY <2>1, <2>5
        <3>2. StatusOf(m)' = StatusOf(m)
            BY <1>1, <1>2, <2>1, <2>2, <2>5, <3>1
        <3>3. QED BY <3>2
    <2>6. QED BY <2>3, <2>4, <2>5
<1>6. ASSUME NEW c \in Consumers, Read(c) \/ ReadFails(c) PROVE Legal
    <2> DEFINE h == Head(backlog[at[c]])
    <2>1. UNCHANGED <<enqueued, dropped, acked>>
        BY <1>6 DEF Read, ReadFails
    <2>2. \/ /\ at[c] \in Lanes /\ backlog[at[c]] # <<>>
             /\ backlog' = Taken(at[c])
             /\ pel' = pel \cup {h}
             /\ \/ held' = [held EXCEPT ![c] = h] /\ at[c] # "handling"
                \/ held' = held
          \/ UNCHANGED <<backlog, pel, held>>
        BY <1>6, PlacesDiffer DEF Read, ReadFails
    <2>3. CASE UNCHANGED <<backlog, pel, held>>
        BY <1>3, <2>1, <2>3, BacklogUnchanged DEF IInv
    <2>4. CASE /\ at[c] \in Lanes /\ backlog[at[c]] # <<>>
               /\ backlog' = Taken(at[c])
               /\ pel' = pel \cup {h}
               /\ \/ held' = [held EXCEPT ![c] = h] /\ at[c] # "handling"
                  \/ held' = held
        <3>1. h \in Waiting /\ Waiting' = Waiting \ {h}
            BY <2>4, WaitingAfterRead DEF IInv, TypeOK
        <3> HIDE DEF h
        <3>2. CASE m = h
            <4>1. StatusOf(m) = "queued" /\ StatusOf(m)' \in {"running", "stranded"}
                BY <1>1, <1>2, <2>4, <3>1, <3>2
            <4>2. QED BY <4>1 DEF Abstract!Moves
        <3>3. CASE m # h
            <4>1. at[c] # "handling" => held[c] = None
                BY <1>6 DEF IInv, ConsumersWellFormed
            <4>2. Running(m)' <=> Running(m)
                BY <2>4, <3>3, <4>1, QueueAssumption DEF Running, IInv, TypeOK
            <4>3. /\ m \in pel' <=> m \in pel
                  /\ m \in Waiting' <=> m \in Waiting
                BY <2>4, <3>1, <3>3
            <4>4. StatusOf(m)' = StatusOf(m)
                BY <1>1, <1>2, <2>1, <4>2, <4>3
            <4>5. QED BY <4>4
        <3>4. QED BY <3>2, <3>3
    <2>5. QED BY <2>2, <2>3, <2>4
<1>7. ASSUME NEW c \in Consumers,
             \/ ReadTimesOut(c) \/ ResetSkips(c) \/ GateMarketing(c)
             \/ LoadSkips(c) \/ StoreSkips(c)
      PROVE  Legal
    <2>1. UNCHANGED <<backlog, pel, acked, dropped, enqueued, held>>
        BY <1>7 DEF ReadTimesOut, ResetSkips, GateMarketing, LoadSkips, StoreSkips, queueVars
    <2>2. QED BY <1>3, <2>1, BacklogUnchanged DEF IInv
<1>8. ASSUME NEW c \in Consumers, HandlerSucceeds(c) \/ HandlerFails(c) PROVE Legal
    <2>1. /\ at[c] = "handling"
          /\ held' = [held EXCEPT ![c] = None]
          /\ UNCHANGED <<backlog, dropped, enqueued>>
          /\ \/ pel' = pel \ {held[c]} /\ acked' = acked \cup {held[c]}
             \/ UNCHANGED <<pel, acked>>
        BY <1>8 DEF HandlerSucceeds, HandlerFails, Release
    <2>2. Waiting' = Waiting
        BY <2>1, BacklogUnchanged DEF IInv
    <2>3. held[c] # None /\ held[c] \in pel
        BY <2>1 DEF IInv, OneHandler, ConsumersWellFormed
    <2>4. CASE m = held[c]
        <3>1. StatusOf(m) = "running"
            BY <1>1, <2>3, <2>4 DEF Running
        <3>2. m \in acked' \/ m \in pel'
            BY <2>1, <2>3, <2>4
        <3>3. StatusOf(m)' \in {"running", "done", "stranded"}
            BY <1>2, <3>2
        <3>4. QED BY <3>1, <3>3 DEF Abstract!Moves
    <2>5. CASE m # held[c]
        <3>1. Running(m)' <=> Running(m)
            BY <2>1, <2>5, QueueAssumption DEF Running, IInv, TypeOK
        <3>2. (m \in pel' <=> m \in pel) /\ (m \in acked' <=> m \in acked)
            BY <2>1, <2>5
        <3>3. StatusOf(m)' = StatusOf(m)
            BY <1>1, <1>2, <2>1, <2>2, <3>1, <3>2
        <3>4. QED BY <3>3
    <2>6. QED BY <2>4, <2>5
<1>9. CASE Crash
    <2>1. /\ UNCHANGED <<backlog, pel, acked, dropped, enqueued>>
          /\ \A c \in Consumers : held'[c] = None
        BY <1>9 DEF Crash, queueVars
    <2>2. Waiting' = Waiting
        BY <2>1, BacklogUnchanged DEF IInv
    <2>3. ~Running(m)'
        BY <2>1, QueueAssumption DEF Running
    <2>4. CASE m \in pel
        <3>1. StatusOf(m) \in {"running", "stranded"} /\ StatusOf(m)' = "stranded"
            BY <1>1, <1>2, <2>1, <2>3, <2>4
        <3>2. QED BY <3>1 DEF Abstract!Moves
    <2>5. CASE m \notin pel
        <3>1. StatusOf(m)' = StatusOf(m)
            BY <1>1, <1>2, <2>1, <2>2, <2>5
        <3>2. QED BY <3>1
    <2>6. QED BY <2>4, <2>5
<1>10. QED BY <1>4, <1>5, <1>6, <1>7, <1>8, <1>9 DEF Next, Loop

\* The queue implements AtMostOnce: every entry is handed to a consumer at
\* most once and never returns to the queue.
THEOREM ImplementsAtMostOnce == Spec => HandedOutAtMostOnce
<1> DEFINE st == [m \in Msgs |-> StatusOf(m)]
<1>1. Init => Abstract!Init
    <2> SUFFICES ASSUME Init PROVE st = [m \in Msgs |-> "absent"]
        BY DEF Abstract!Init
    <2>1. enqueued = {}
        BY DEF Init
    <2>2. QED BY <2>1 DEF StatusOf
<1>2. IInv /\ IInv' /\ [Next]_vars => [Abstract!Next]_st
    <2> SUFFICES ASSUME IInv, IInv', [Next]_vars PROVE Abstract!Next
        OBVIOUS
    <2>1. \A m \in Msgs : StatusOf(m)' \in Abstract!Statuses
        BY DEF StatusOf, Abstract!Statuses
    <2>2. st' \in [Msgs -> Abstract!Statuses]
        BY <2>1
    <2>3. ASSUME NEW m \in Msgs
          PROVE  st'[m] = st[m] \/ <<st[m], st'[m]>> \in Abstract!Moves
        BY StatusStep
    <2>4. QED BY <2>2, <2>3 DEF Abstract!Next
<1>3. QED BY <1>1, <1>2, AlwaysIInv, PTL DEF Spec, HandedOutAtMostOnce, Abstract!Spec

-----------------------------------------------------------------------------
(* The anti-starvation counter *)

\* Between its own reset and the guard a consumer finds the counter at zero
\* unless another one has stored it.
CounterInv ==
    \A c \in Consumers : c \notin raised =>
        /\ at[c] \in {"transactional", "gate"} => skips = 0
        /\ AntiStarvationRatio > 0 => at[c] \notin {"admitted", "marketing"}

\* Only another consumer's store makes the counter positive under a consumer
\* that has reset it: every other step keeps the counter, or sets it to zero.
LEMMA CounterStep ==
    ASSUME IInv, CounterInv, [Next]_vars
    PROVE  CounterInv'
<1>0. at \in [Consumers -> Places] /\ skips \in Nat /\ raised \subseteq Consumers
    BY DEF IInv, TypeOK
<1>1. ASSUME UNCHANGED <<at, skips, raised>> PROVE CounterInv'
    BY <1>1 DEF CounterInv
<1>2. ASSUME NEW c \in Consumers, UNCHANGED <<skips, raised>>,
             at' \in {at, [at EXCEPT ![c] = "otp"], [at EXCEPT ![c] = "handling"]}
      PROVE  CounterInv'
    BY <1>0, <1>2 DEF CounterInv
<1>3. ASSUME NEW c \in Consumers, Loop(c) PROVE CounterInv'
    <2>1. CASE ReadTimesOut(c)
        <3>1. /\ at[c] \in Lanes /\ UNCHANGED <<skips, raised>>
              /\ at' = [at EXCEPT ![c] = AfterLane[at[c]]]
            BY <2>1 DEF ReadTimesOut
        <3>2. CASE at[c] = "transactional"
            BY <1>0, <3>1, <3>2 DEF CounterInv, AfterLane
        <3>3. CASE at[c] \in {"otp", "marketing"}
            BY <1>0, <3>1, <3>3 DEF CounterInv, AfterLane
        <3>4. QED BY <3>1, <3>2, <3>3 DEF Lanes
    <2>2. CASE ResetSkips(c)
        BY <1>0, <2>2 DEF ResetSkips, CounterInv
    <2>3. CASE GateMarketing(c)
        <3>1. /\ at[c] = "gate" /\ UNCHANGED <<skips, raised>>
              /\ at' = [at EXCEPT ![c] =
                           IF skips < AntiStarvationRatio THEN "load" ELSE "admitted"]
            BY <2>3 DEF GateMarketing
        <3>2. CASE skips < AntiStarvationRatio
            BY <1>0, <3>1, <3>2 DEF CounterInv
        <3>3. CASE ~(skips < AntiStarvationRatio)
            <4>1. AntiStarvationRatio > 0 => c \in raised
                BY <1>0, <3>1, <3>3, QueueAssumption DEF CounterInv
            <4>2. QED BY <1>0, <3>1, <3>3, <4>1 DEF CounterInv
        <3>4. QED BY <3>2, <3>3
    <2>4. CASE LoadSkips(c)
        BY <1>0, <2>4 DEF LoadSkips, CounterInv
    <2>5. CASE StoreSkips(c)
        <3>1. /\ raised' = raised \cup (Consumers \ {c})
              /\ at' = [at EXCEPT ![c] = "otp"]
            BY <2>5 DEF StoreSkips
        <3>2. QED BY <1>0, <3>1 DEF CounterInv
    <2>6. CASE HandlerSucceeds(c) \/ HandlerFails(c)
        BY <2>6, <1>2 DEF HandlerSucceeds, HandlerFails, Release
    <2>7. QED BY <1>3, <2>1, <2>2, <2>3, <2>4, <2>5, <2>6 DEF Loop
<1>4. ASSUME NEW c \in Consumers, Read(c) \/ ReadFails(c) PROVE CounterInv'
    BY <1>4, <1>2 DEF Read, ReadFails
<1>5. ASSUME NEW m \in Msgs, Enqueue(m) PROVE CounterInv'
    BY <1>5, <1>1 DEF Enqueue, consumerVars
<1>6. CASE Crash
    BY <1>6 DEF Crash, CounterInv
<1>7. CASE UNCHANGED vars
    BY <1>7, <1>1 DEF vars, consumerVars
<1>8. QED BY <1>3, <1>4, <1>5, <1>6, <1>7 DEF Next

\* Throughout.
LEMMA AlwaysCounterInv == Spec => []CounterInv
<1>1. Init => CounterInv
    BY DEF Init, CounterInv
<1>2. QED BY <1>1, CounterStep, AlwaysIInv, PTL DEF Spec

\* For any number of consumers and any positive ratio, a consumer gets past the
\* guard of the marketing lane only on a store of another one made after its
\* own last reset, although guard, load, store and resets are unlocked.
THEOREM OwnSkipsNeverAdmitHolds == Spec => []OwnSkipsNeverAdmit
<1>1. CounterInv => OwnSkipsNeverAdmit
    BY DEF CounterInv, OwnSkipsNeverAdmit
<1>2. QED BY <1>1, AlwaysCounterInv, PTL

-----------------------------------------------------------------------------
(* A single worker *)

\* With one worker nobody else ever stores, and no marketing entry is read.
StarvedBy(w) == raised = {} /\ SingleWorkerStarvesMarketing

\* The worker cannot leave that region.
LEMMA StarvedStep ==
    ASSUME NEW w, Consumers = {w}, AntiStarvationRatio > 0,
           IInv, CounterInv, StarvedBy(w), [Next]_vars
    PROVE  StarvedBy(w)'
<1> USE DEF StarvedBy, SingleWorkerStarvesMarketing
<1>1. CASE UNCHANGED vars
    BY <1>1 DEF vars, queueVars, consumerVars
<1>2. ASSUME NEW m \in Msgs, Enqueue(m) PROVE StarvedBy(w)'
    BY <1>2, EnqueueBacklog
<1>3. ASSUME Read(w) \/ ReadFails(w) PROVE StarvedBy(w)'
    <2> DEFINE h == Head(backlog[at[w]])
    <2>1. /\ at[w] \in Lanes
          /\ UNCHANGED <<acked, raised>>
          /\ \/ UNCHANGED pel
             \/ backlog[at[w]] # <<>> /\ pel' = pel \cup {h}
        BY <1>3 DEF Read, ReadFails
    <2>2. CASE UNCHANGED pel
        BY <2>1, <2>2
    <2>3. CASE backlog[at[w]] # <<>> /\ pel' = pel \cup {h}
        <3>1. backlog[at[w]] \in Seq(Msgs) /\ Distinct(backlog[at[w]])
            BY <2>1 DEF IInv, TypeOK, LanesWellFormed
        <3>2. h \in Entries(backlog[at[w]])
            BY <2>3, <3>1, TailEntries
        <3>3. LaneOf[h] = at[w]
            BY <2>1, <3>2 DEF IInv, LanesWellFormed
        <3>4. at[w] # "marketing"
            BY DEF CounterInv
        <3> HIDE DEF h
        <3>5. QED BY <2>1, <2>3, <3>3, <3>4
    <2>4. QED BY <2>1, <2>2, <2>3
<1>4. ASSUME Loop(w) PROVE StarvedBy(w)'
    <2>1. CASE \/ ReadTimesOut(w) \/ ResetSkips(w) \/ GateMarketing(w)
               \/ LoadSkips(w) \/ StoreSkips(w)
        BY <2>1 DEF ReadTimesOut, ResetSkips, GateMarketing, LoadSkips, StoreSkips, queueVars
    <2>2. CASE HandlerSucceeds(w) \/ HandlerFails(w)
        <3>1. /\ pel' \cup acked' \subseteq pel \cup acked \cup {held[w]}
              /\ held[w] \in pel /\ UNCHANGED raised
            BY <2>2 DEF HandlerSucceeds, HandlerFails, Release,
                        IInv, OneHandler, ConsumersWellFormed
        <3>2. QED BY <3>1
    <2>3. QED BY <1>4, <2>1, <2>2 DEF Loop
<1>5. CASE Crash
    BY <1>5 DEF Crash, queueVars
<1>6. QED BY <1>1, <1>2, <1>3, <1>4, <1>5 DEF Next

\* With one worker and any positive ratio, no marketing entry is ever read.
THEOREM SingleWorkerNeverReadsMarketing ==
    ASSUME NEW w, Consumers = {w}, AntiStarvationRatio > 0
    PROVE  Spec => []SingleWorkerStarvesMarketing
<1>1. Init => StarvedBy(w)
    BY DEF Init, StarvedBy, SingleWorkerStarvesMarketing
<1>2. IInv /\ CounterInv /\ StarvedBy(w) /\ [Next]_vars => StarvedBy(w)'
    BY StarvedStep
<1>3. StarvedBy(w) => SingleWorkerStarvesMarketing
    BY DEF StarvedBy
<1>4. QED BY <1>1, <1>2, <1>3, AlwaysIInv, AlwaysCounterInv, PTL DEF Spec
=============================================================================
