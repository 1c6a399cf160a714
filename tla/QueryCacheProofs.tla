-------------------------- MODULE QueryCacheProofs --------------------------
(***************************************************************************)
(* Machine-checked proofs about QueryCache: for every set of pages whose   *)
(* mutations invalidate the queries they change on their own page, every   *)
(* number of views, retries, mutations and changes by others.              *)
(***************************************************************************)
EXTENDS QueryCache, TLAPS

\* Idle data of an entry that is on screen, or would be shown without a load when
\* it comes there, hold what this tab was told of; so does what a load has read.
EntryKept(k) ==
    /\ k \notin overtaken /\ ~load[k].on /\ cache[k].data # None /\ ~cache[k].error
       /\ (k \in OnScreen \/ ~cache[k].stale)
       => cache[k].data >= acked[k[1]]
    /\ k \notin overtaken /\ load[k].on /\ load[k].read # None => load[k].read >= acked[k[1]]

\* Fresh entries have data and no error; an entry on screen was or is being loaded.
EntryShape(k) ==
    /\ ~cache[k].stale => cache[k].data # None /\ ~cache[k].error
    /\ k \in OnScreen /\ ~load[k].on => cache[k].data # None \/ cache[k].error

\* A mutation in flight was sent by a control of the page it names.
CallFromPage(c) ==
    /\ \E d \in Pages[c.on].controls : c.does = d.sends
    /\ c.ran => \A q \in Queries : c.made[q] <= db[q]

AckedInv == \A q \in Queries : acked[q] <= db[q]

IInv ==
    /\ TypeOK
    /\ \A k \in Keys : EntryKept(k) /\ EntryShape(k)
    /\ \A c \in calls : CallFromPage(c)
    /\ AckedInv

-----------------------------------------------------------------------------
(* Types.                                                                  *)

\* The states in which entries and loads begin are of their types.
LEMMA Beginnings ==
    /\ Empty \in Entry /\ Idle \in LoadState /\ Started \in LoadState
    /\ Started.on = TRUE /\ Started.read = None /\ Idle.on = FALSE
    /\ Empty.data = None /\ Empty.stale = TRUE
BY QueryAssumption DEF Empty, Idle, Started, Entry, LoadState, None

\* What is mounted reads queries, whose entries are keys.
LEMMA KeyParts ==
    ASSUME NEW k \in Keys
    PROVE  k[1] \in Queries
BY DEF Keys

\* A call whose page is left stays a call.
LEMMA LeftType ==
    ASSUME NEW c \in CallState
    PROVE  [c EXCEPT !.here = FALSE] \in CallState
BY DEF CallState

\* Changes raise versions.
LEMMA ChangedType ==
    ASSUME db \in [Queries -> Nat], NEW qs
    PROVE  /\ Changed(qs) \in [Queries -> Nat]
           /\ \A q \in Queries : db[q] <= Changed(qs)[q]
BY DEF Changed

\* The first states are typed.
LEMMA InitType == Init => TypeOK
<1> SUFFICES ASSUME Init PROVE TypeOK
    OBVIOUS
<1>1. page \in site /\ view \in Views
    BY QueryAssumption DEF Init
<1>2. cache \in [Keys -> Entry] /\ load \in [Keys -> LoadState]
    BY Beginnings DEF Init
<1>3. QED BY <1>1, <1>2, QueryAssumption DEF Init, TypeOK

\* Showing other entries starts loads and nothing else.
LEMMA ShowType ==
    ASSUME TypeOK, NEW p \in site, NEW v \in Views, Show(p, v)
    PROVE  /\ page' \in site /\ view' \in Views
           /\ load' \in [Keys -> LoadState] /\ overtaken' \subseteq Keys
BY Beginnings DEF TypeOK, Show, Loads

\* Every step keeps the types.
LEMMA StepType == TypeOK /\ [Next]_vars => TypeOK'
<1> SUFFICES ASSUME TypeOK, [Next]_vars PROVE TypeOK'
    OBVIOUS
<1> USE QueryAssumption DEF TypeOK
<1>1. CASE UNCHANGED vars
    BY <1>1 DEF vars, screen, server
<1>2. ASSUME NEW p \in DOMAIN Pages, Mount(p) PROVE TypeOK'
    <2>1. p \in site /\ Show(p, 1)
        BY <1>2 DEF Mount
    <2>2. \A c \in calls : [c EXCEPT !.here = FALSE] \in CallState
        BY LeftType
    <2>3. \A c \in calls' : c \in CallState
        BY <1>2, <2>2 DEF Mount
    <2>4. QED BY <1>2, <2>1, <2>3, ShowType DEF Mount, server
<1>3. ASSUME NEW c \in Pages[page].controls, Click(c) PROVE TypeOK'
    <2>1. page \in DOMAIN Pages /\ c.sends \in Mutations
        BY DEF Controls
    <2>2. called \in 0..MaxCalls /\ called' \in 0..MaxCalls
        BY <1>3 DEF Click
    <2>3. [id |-> called, does |-> c.sends, on |-> page, here |-> TRUE, ran |-> FALSE,
           made |-> [q \in Queries |-> 0]] \in CallState
        BY <2>1, <2>2 DEF CallState
    <2>4. \A d \in calls' : d \in CallState
        BY <1>3, <2>3 DEF Click
    <2>5. QED BY <1>3, <2>2, <2>4 DEF Click, screen, server
<1>4. ASSUME NEW v \in Views, Turn(v) PROVE TypeOK'
    <2>1. Show(page, v)
        BY <1>4 DEF Turn
    <2>2. QED BY <1>4, <2>1, ShowType DEF Turn, server
<1>5. ASSUME NEW c \in calls, Execute(c) PROVE TypeOK'
    <2>1. db' \in [Queries -> Nat]
        BY <1>5, ChangedType DEF Execute
    <2>2. [c EXCEPT !.ran = TRUE, !.made = db'] \in CallState
        BY <2>1 DEF CallState
    <2>3. \A d \in calls' : d \in CallState
        BY <1>5, <2>2 DEF Execute
    <2>4. QED BY <1>5, <2>1, <2>3 DEF Execute, screen
<1>6. ASSUME NEW c \in calls, Acknowledge(c) PROVE TypeOK'
    <2>1. load' \in [Keys -> LoadState]
        BY <1>6, Beginnings DEF Acknowledge, InvalidatedLoads
    <2>2. \A k \in Keys : [cache[k] EXCEPT !.stale = TRUE] \in Entry
        BY DEF Entry
    <2>3. cache' \in [Keys -> Entry]
        BY <1>6, <2>2 DEF Acknowledge, InvalidatedCache
    <2>4. c.made \in [Queries -> Nat]
        BY DEF CallState
    <2>5. acked' \in [Queries -> Nat]
        BY <1>6, <2>4 DEF Acknowledge
    <2>6. overtaken' \subseteq Keys /\ calls' \subseteq calls
        BY <1>6 DEF Acknowledge
    <2>7. QED BY <1>6, <2>1, <2>3, <2>5, <2>6 DEF Acknowledge, screen, server
<1>7. ASSUME NEW c \in calls, CallFails(c) PROVE TypeOK'
    BY <1>7 DEF CallFails, screen, server
<1>8. ASSUME NEW k \in Keys, Read(k) PROVE TypeOK'
    <2>1. db[k[1]] \in Nat
        BY KeyParts
    <2>2. [load[k] EXCEPT !.read = db[k[1]]] \in LoadState
        BY <2>1 DEF LoadState
    <2>3. load' \in [Keys -> LoadState]
        BY <1>8, <2>2 DEF Read
    <2>4. QED BY <1>8, <2>3 DEF Read, screen, server
<1>9. ASSUME NEW k \in Keys, Loaded(k) PROVE TypeOK'
    <2>1. [data |-> load[k].read, stale |-> FALSE, error |-> FALSE] \in Entry
        BY <1>9 DEF Loaded, Entry, LoadState
    <2>2. cache' \in [Keys -> Entry] /\ load' \in [Keys -> LoadState]
        BY <1>9, <2>1, Beginnings DEF Loaded
    <2>3. QED BY <1>9, <2>2 DEF Loaded, screen, server
<1>10. ASSUME NEW k \in Keys, LoadFails(k) PROVE TypeOK'
    <2>1. load[k].fails < Retries => [load[k] EXCEPT !.read = None, !.fails = @ + 1] \in LoadState
        <3>1. load[k] \in LoadState
            OBVIOUS
        <3>2. load[k].fails \in Nat /\ load[k].fails <= Retries
            BY <3>1 DEF LoadState
        <3>3. load[k].fails < Retries => load[k].fails + 1 \in 0..Retries
            BY <3>2
        <3>4. None \in Nat \cup {None}
            OBVIOUS
        <3>5. QED BY <3>1, <3>3, <3>4 DEF LoadState
    <2>2. AfterFailure(k) \in LoadState
        BY <2>1, Beginnings DEF AfterFailure
    <2>3. load' \in [Keys -> LoadState]
        BY <1>10, <2>2 DEF LoadFails
    <2>4. [cache[k] EXCEPT !.stale = TRUE, !.error = TRUE] \in Entry
        BY DEF Entry
    <2>5. [cache EXCEPT ![k].stale = TRUE, ![k].error = TRUE] \in [Keys -> Entry]
        BY <2>4 DEF Entry
    <2>6. cache' \in [Keys -> Entry]
        BY <1>10, <2>5 DEF LoadFails
    <2>7. QED BY <1>10, <2>3, <2>6 DEF LoadFails, screen, server
<1>11. ASSUME NEW k \in Keys, Poll(k) PROVE TypeOK'
    <2>1. load' \in [Keys -> LoadState] /\ overtaken' \subseteq Keys
        BY <1>11, Beginnings DEF Poll
    <2>2. QED BY <1>11, <2>1 DEF Poll, screen, server
<1>12. ASSUME NEW k \in Keys, Age(k) PROVE TypeOK'
    <2>1. [cache[k] EXCEPT !.stale = TRUE] \in Entry
        BY DEF Entry
    <2>2. cache' \in [Keys -> Entry]
        BY <1>12, <2>1 DEF Age
    <2>3. QED BY <1>12, <2>2 DEF Age, screen, server
<1>13. ASSUME NEW k \in Keys, Collect(k) PROVE TypeOK'
    <2>1. cache' \in [Keys -> Entry]
        BY <1>13, Beginnings DEF Collect
    <2>2. QED BY <1>13, <2>1 DEF Collect, screen, server
<1>14. ASSUME NEW q \in Queries, OtherChanges(q) PROVE TypeOK'
    <2>1. db' \in [Queries -> Nat] /\ others' \in 0..MaxOthers
        BY <1>14, ChangedType DEF OtherChanges
    <2>2. QED BY <1>14, <2>1 DEF OtherChanges, screen
<1>15. QED
    BY <1>1, <1>2, <1>3, <1>4, <1>5, <1>6, <1>7, <1>8, <1>9, <1>10, <1>11, <1>12, <1>13, <1>14 DEF Next

\* The types of TypeOK hold throughout, for every choice of the constants.
THEOREM TypeCorrect == Spec => []TypeOK
BY InitType, StepType, PTL DEF Spec

-----------------------------------------------------------------------------
(* The tab reads what it wrote.                                            *)

\* Nothing has been written and everything on screen is being loaded.
LEMMA InitKept == Init => IInv
<1> SUFFICES ASSUME Init PROVE IInv
    OBVIOUS
<1>1. TypeOK
    BY InitType
<1>2. ASSUME NEW k \in Keys PROVE EntryKept(k) /\ EntryShape(k)
    BY Beginnings DEF Init, EntryKept, EntryShape, OnScreen
<1>3. AckedInv
    BY DEF Init, AckedInv
<1>4. QED BY <1>1, <1>2, <1>3 DEF Init, IInv

\* Coming on screen starts the load of a stale entry, so nothing stale is shown
\* as if it were up to date.
LEMMA ShowKept ==
    ASSUME IInv, NEW p, NEW v, Show(p, v), UNCHANGED <<cache, acked>>,
           NEW k \in Keys
    PROVE  EntryKept(k)' /\ EntryShape(k)'
<1>1. OnScreen' = Active(p, v)
    BY DEF Show, OnScreen, Active
<1>2. EntryKept(k) /\ EntryShape(k) /\ load \in [Keys -> LoadState] /\ cache \in [Keys -> Entry]
    BY DEF IInv, TypeOK
<1>3. load'[k] = IF k \in Active(p, v) \ OnScreen /\ cache[k].stale /\ ~load[k].on
                 THEN Started ELSE load[k]
    BY DEF Show, Loads
<1>4. CASE k \in Active(p, v) \ OnScreen /\ cache[k].stale /\ ~load[k].on
    BY <1>1, <1>2, <1>3, <1>4, Beginnings DEF EntryKept, EntryShape
<1>5. CASE ~(k \in Active(p, v) \ OnScreen /\ cache[k].stale /\ ~load[k].on)
    <2>1. load'[k] = load[k]
        BY <1>3, <1>5
    <2>2. k \in overtaken' <=> k \in overtaken
        BY <2>1 DEF Show
    <2>3. k \in OnScreen' /\ ~load[k].on => k \in OnScreen \/ ~cache[k].stale
        BY <1>1, <1>5
    <2>4. QED BY <1>2, <2>1, <2>2, <2>3 DEF EntryKept, EntryShape
<1>6. QED BY <1>4, <1>5

\* When a mutation is acknowledged, every entry of the queries it changed on its
\* page is loaded again, is stale off screen, or counts as overtaken.
LEMMA AcknowledgeKept ==
    ASSUME IInv, NEW c \in calls, Acknowledge(c), NEW k \in Keys
    PROVE  EntryKept(k)' /\ EntryShape(k)'
<1> DEFINE qs == c.does.invalidates
<1>1. /\ load \in [Keys -> LoadState] /\ cache \in [Keys -> Entry] /\ acked \in [Queries -> Nat]
      /\ k[1] \in Queries /\ EntryKept(k) /\ EntryShape(k) /\ c.on \in DOMAIN Pages
    BY KeyParts DEF IInv, TypeOK, CallState
<1>2. OnScreen' = OnScreen
    BY DEF Acknowledge, screen, OnScreen, Active
<1>3. /\ load'[k] = IF k \in Reloaded(qs) THEN Started ELSE load[k]
      /\ cache'[k] = IF k[1] \in qs THEN [cache[k] EXCEPT !.stale = TRUE] ELSE cache[k]
      /\ k \in overtaken' <=> (k \in overtaken \/ (k[1] \in qs /\ load[k].on)) /\ k \notin Reloaded(qs)
    BY DEF Acknowledge, InvalidatedLoads, InvalidatedCache
<1>4. k \in Reloaded(qs) <=> k \in OnScreen /\ k[1] \in qs /\ ~(load[k].on /\ cache[k].data = None)
    BY DEF Reloaded, OnScreen, Active
<1>5. CASE k[1] \in qs
    <2>1. /\ cache'[k].stale /\ cache'[k].data = cache[k].data /\ cache'[k].error = cache[k].error
        BY <1>1, <1>3, <1>5 DEF Entry
    <2>2. CASE k \in Reloaded(qs)
        BY <1>2, <1>3, <2>1, <2>2, Beginnings DEF EntryKept, EntryShape
    <2>3. CASE k \notin Reloaded(qs)
        BY <1>1, <1>2, <1>3, <1>4, <1>5, <2>1, <2>3 DEF EntryKept, EntryShape
    <2>4. QED BY <2>2, <2>3
<1>6. CASE k[1] \notin qs
    <2>1. PICK d \in Pages[c.on].controls : c.does = d.sends
        BY DEF IInv, CallFromPage
    <2>2. k[1] \notin c.does.writes \cap Pages[c.on].reads
        BY <1>1, <1>6, <2>1, CoversAssumption
    <2>3. acked'[k[1]] = acked[k[1]]
        BY <1>1, <2>2 DEF Acknowledge
    <2>4. load'[k] = load[k] /\ cache'[k] = cache[k] /\ (k \in overtaken' <=> k \in overtaken)
        BY <1>3, <1>4, <1>6
    <2>5. QED BY <1>1, <1>2, <2>3, <2>4 DEF EntryKept, EntryShape
<1>7. QED BY <1>5, <1>6

\* A step that leaves an entry, its load and its place on screen alone keeps
\* what is said of it.
LEMMA SameKept ==
    ASSUME NEW k, EntryKept(k), EntryShape(k),
           load'[k] = load[k], cache'[k] = cache[k], UNCHANGED <<screen, acked>>,
           k \in overtaken' <=> k \in overtaken
    PROVE  EntryKept(k)' /\ EntryShape(k)'
BY DEF EntryKept, EntryShape, OnScreen, Active, screen

\* Every step keeps every entry.
LEMMA StepEntries ==
    ASSUME IInv, [Next]_vars, NEW k \in Keys
    PROVE  EntryKept(k)' /\ EntryShape(k)'
<1> USE DEF IInv
<1>a. /\ TypeOK /\ EntryKept(k) /\ EntryShape(k)
      /\ load \in [Keys -> LoadState] /\ cache \in [Keys -> Entry]
      /\ acked \in [Queries -> Nat] /\ db \in [Queries -> Nat] /\ k[1] \in Queries
    BY KeyParts DEF TypeOK
<1>1. CASE UNCHANGED vars
    BY <1>a, <1>1, SameKept DEF vars
<1>2. ASSUME NEW p \in DOMAIN Pages, Mount(p) PROVE EntryKept(k)' /\ EntryShape(k)'
    BY <1>2, ShowKept DEF Mount
<1>3. ASSUME NEW c \in Pages[page].controls, Click(c) PROVE EntryKept(k)' /\ EntryShape(k)'
    BY <1>a, <1>3, SameKept DEF Click
<1>4. ASSUME NEW v \in Views, Turn(v) PROVE EntryKept(k)' /\ EntryShape(k)'
    BY <1>4, ShowKept DEF Turn
<1>5. ASSUME NEW c \in calls, Execute(c) PROVE EntryKept(k)' /\ EntryShape(k)'
    BY <1>a, <1>5, SameKept DEF Execute
<1>6. ASSUME NEW c \in calls, Acknowledge(c) PROVE EntryKept(k)' /\ EntryShape(k)'
    BY <1>6, AcknowledgeKept
<1>7. ASSUME NEW c \in calls, CallFails(c) PROVE EntryKept(k)' /\ EntryShape(k)'
    BY <1>a, <1>7, SameKept DEF CallFails
<1>8. ASSUME NEW j \in Keys, Read(j) PROVE EntryKept(k)' /\ EntryShape(k)'
    <2>1. CASE j # k
        BY <1>a, <1>8, <2>1, SameKept DEF Read
    <2>2. CASE j = k
        <3>1. load'[k].read = db[k[1]] /\ load'[k].on
            BY <1>a, <1>8, <2>2 DEF Read, LoadState
        <3>2. acked[k[1]] <= db[k[1]]
            BY <1>a DEF AckedInv
        <3>3. QED BY <1>a, <1>8, <3>1, <3>2 DEF Read, EntryKept, EntryShape, OnScreen, Active, screen
    <2>3. QED BY <2>1, <2>2
<1>9. ASSUME NEW j \in Keys, Loaded(j) PROVE EntryKept(k)' /\ EntryShape(k)'
    <2>1. CASE j # k
        BY <1>a, <1>9, <2>1, SameKept DEF Loaded
    <2>2. CASE j = k
        <3>1. /\ ~load'[k].on /\ cache'[k].data = load[k].read
              /\ ~cache'[k].stale /\ ~cache'[k].error
              /\ UNCHANGED <<overtaken, acked>>
            BY <1>a, <1>9, <2>2, Beginnings DEF Loaded
        <3>2. load[k].on /\ load[k].read # None
            BY <1>9, <2>2 DEF Loaded
        <3>3. QED BY <1>a, <3>1, <3>2 DEF EntryKept, EntryShape
    <2>3. QED BY <2>1, <2>2
<1>10. ASSUME NEW j \in Keys, LoadFails(j) PROVE EntryKept(k)' /\ EntryShape(k)'
    <2>1. CASE j # k
        BY <1>a, <1>10, <2>1, SameKept DEF LoadFails
    <2>2. CASE j = k /\ load[k].fails < Retries
        <3>1. load'[k].on /\ load'[k].read = None /\ cache' = cache
            BY <1>a, <1>10, <2>2 DEF LoadFails, AfterFailure, LoadState
        <3>2. QED BY <1>a, <3>1 DEF EntryKept, EntryShape
    <2>3. CASE j = k /\ ~(load[k].fails < Retries)
        <3>1. ~load'[k].on /\ cache'[k].stale /\ cache'[k].error
            BY <1>a, <1>10, <2>3, Beginnings DEF LoadFails, AfterFailure, Entry
        <3>2. QED BY <3>1 DEF EntryKept, EntryShape
    <2>4. QED BY <2>1, <2>2, <2>3
<1>11. ASSUME NEW j \in Keys, Poll(j) PROVE EntryKept(k)' /\ EntryShape(k)'
    <2>1. CASE j # k
        BY <1>a, <1>11, <2>1, SameKept DEF Poll
    <2>2. CASE j = k
        <3>1. load'[k].on /\ load'[k].read = None /\ cache' = cache
            BY <1>a, <1>11, <2>2, Beginnings DEF Poll
        <3>2. QED BY <1>a, <3>1 DEF EntryKept, EntryShape
    <2>3. QED BY <2>1, <2>2
<1>12. ASSUME NEW j \in Keys, Age(j) PROVE EntryKept(k)' /\ EntryShape(k)'
    <2>1. CASE j # k
        BY <1>a, <1>12, <2>1, SameKept DEF Age
    <2>2. CASE j = k
        <3>1. /\ cache'[k].stale /\ cache'[k].data = cache[k].data /\ cache'[k].error = cache[k].error
              /\ ~cache[k].stale /\ UNCHANGED <<load, acked, overtaken>>
            BY <1>a, <1>12, <2>2 DEF Age, Entry
        <3>2. QED BY <1>a, <3>1 DEF EntryKept, EntryShape
    <2>3. QED BY <2>1, <2>2
<1>13. ASSUME NEW j \in Keys, Collect(j) PROVE EntryKept(k)' /\ EntryShape(k)'
    <2>1. CASE j # k
        BY <1>a, <1>13, <2>1, SameKept DEF Collect
    <2>2. CASE j = k
        <3>1. /\ cache'[k].stale /\ cache'[k].data = None /\ UNCHANGED <<load, screen>>
              /\ ~load[k].on /\ k \notin OnScreen
            BY <1>a, <1>13, <2>2, Beginnings DEF Collect
        <3>2. k \notin OnScreen'
            BY <3>1 DEF OnScreen, Active, screen
        <3>3. QED BY <3>1, <3>2 DEF EntryKept, EntryShape
    <2>3. QED BY <2>1, <2>2
<1>14. ASSUME NEW q \in Queries, OtherChanges(q) PROVE EntryKept(k)' /\ EntryShape(k)'
    BY <1>a, <1>14, SameKept DEF OtherChanges
<1>15. QED
    BY <1>1, <1>2, <1>3, <1>4, <1>5, <1>6, <1>7, <1>8, <1>9, <1>10, <1>11, <1>12, <1>13, <1>14 DEF Next

\* Calls come from controls, and what they made is in the database.
LEMMA StepCalls ==
    ASSUME IInv, [Next]_vars
    PROVE  (\A c \in calls : CallFromPage(c))' /\ AckedInv'
<1> USE DEF IInv
<1>a. /\ db \in [Queries -> Nat] /\ acked \in [Queries -> Nat] /\ page \in DOMAIN Pages
      /\ \A c \in calls : c \in CallState
    BY QueryAssumption DEF TypeOK
<1>1. ASSUME UNCHANGED <<calls, db, acked>>
      PROVE  (\A c \in calls : CallFromPage(c))' /\ AckedInv'
    BY <1>1 DEF CallFromPage, AckedInv
<1>2. ASSUME NEW p \in DOMAIN Pages, Mount(p)
      PROVE  (\A c \in calls : CallFromPage(c))' /\ AckedInv'
    <2>1. \A c \in calls : [c EXCEPT !.here = FALSE].on = c.on
                          /\ [c EXCEPT !.here = FALSE].does = c.does
                          /\ [c EXCEPT !.here = FALSE].ran = c.ran
                          /\ [c EXCEPT !.here = FALSE].made = c.made
        BY <1>a DEF CallState
    <2>2. UNCHANGED <<db, acked>>
        BY <1>2 DEF Mount, server
    <2>3. ASSUME NEW c \in calls' PROVE CallFromPage(c)'
        <3>1. PICK d \in calls : c = [d EXCEPT !.here = FALSE]
            BY <1>2 DEF Mount
        <3>2. CallFromPage(d)
            OBVIOUS
        <3>3. QED BY <2>1, <2>2, <3>1, <3>2 DEF CallFromPage
    <2>4. AckedInv'
        BY <2>2 DEF AckedInv
    <2>5. QED BY <2>3, <2>4
<1>3. ASSUME NEW d \in Pages[page].controls, Click(d)
      PROVE  (\A c \in calls : CallFromPage(c))' /\ AckedInv'
    <2>1. UNCHANGED <<db, acked>>
        BY <1>3 DEF Click, server
    <2>2. QED BY <1>3, <2>1 DEF Click, CallFromPage, AckedInv
<1>4. ASSUME NEW v \in Views, Turn(v)
      PROVE  (\A c \in calls : CallFromPage(c))' /\ AckedInv'
    BY <1>1, <1>4 DEF Turn, server
<1>5. ASSUME NEW d \in calls, Execute(d)
      PROVE  (\A c \in calls : CallFromPage(c))' /\ AckedInv'
    <2>1. db' \in [Queries -> Nat] /\ \A q \in Queries : db[q] <= db'[q]
        BY <1>a, <1>5, ChangedType DEF Execute
    <2>2. AckedInv'
        BY <1>a, <1>5, <2>1 DEF Execute, AckedInv
    <2>3. ASSUME NEW c \in calls PROVE CallFromPage(c)'
        <3>1. c.made \in [Queries -> Nat]
            BY <1>a DEF CallState
        <3>2. QED BY <1>a, <2>1, <3>1 DEF CallFromPage
    <2>4. ASSUME NEW c, c = [d EXCEPT !.ran = TRUE, !.made = db'] PROVE CallFromPage(c)'
        <3>1. c.made = db' /\ c.on = d.on /\ c.does = d.does
            BY <1>a, <2>4 DEF CallState
        <3>2. CallFromPage(d)
            OBVIOUS
        <3>3. QED BY <2>1, <3>1, <3>2 DEF CallFromPage
    <2>5. \A c \in calls' : c \in calls \/ c = [d EXCEPT !.ran = TRUE, !.made = db']
        BY <1>5 DEF Execute
    <2>6. QED BY <2>2, <2>3, <2>4, <2>5
<1>6. ASSUME NEW d \in calls, Acknowledge(d)
      PROVE  (\A c \in calls : CallFromPage(c))' /\ AckedInv'
    <2>1. UNCHANGED db /\ calls' \subseteq calls /\ d.ran
        BY <1>6 DEF Acknowledge, server
    <2>2. ASSUME NEW q \in Queries PROVE acked'[q] <= db'[q]
        BY <1>a, <1>6, <2>1 DEF Acknowledge, AckedInv, CallFromPage
    <2>3. QED BY <2>1, <2>2 DEF AckedInv, CallFromPage
<1>7. ASSUME NEW d \in calls, CallFails(d)
      PROVE  (\A c \in calls : CallFromPage(c))' /\ AckedInv'
    BY <1>7 DEF CallFails, server, CallFromPage, AckedInv
<1>8. ASSUME NEW j \in Keys, Read(j) \/ Loaded(j) \/ LoadFails(j) \/ Poll(j) \/ Age(j) \/ Collect(j)
      PROVE  (\A c \in calls : CallFromPage(c))' /\ AckedInv'
    BY <1>1, <1>8 DEF Read, Loaded, LoadFails, Poll, Age, Collect, server
<1>9. ASSUME NEW q \in Queries, OtherChanges(q)
      PROVE  (\A c \in calls : CallFromPage(c))' /\ AckedInv'
    <2>1. db' \in [Queries -> Nat] /\ \A r \in Queries : db[r] <= db'[r]
        BY <1>a, <1>9, ChangedType DEF OtherChanges
    <2>2. ASSUME NEW r \in Queries PROVE acked'[r] <= db'[r]
        <3>1. acked' = acked /\ acked[r] <= db[r] /\ db[r] <= db'[r]
            BY <1>9, <2>1 DEF OtherChanges, AckedInv
        <3>2. QED BY <1>a, <2>1, <3>1
    <2>3. ASSUME NEW c \in calls PROVE CallFromPage(c)'
        <3>1. c.made \in [Queries -> Nat]
            BY <1>a DEF CallState
        <3>2. QED BY <1>a, <2>1, <3>1 DEF CallFromPage
    <2>4. QED BY <1>9, <2>2, <2>3 DEF OtherChanges, AckedInv
<1>10. CASE UNCHANGED vars
    BY <1>1, <1>10 DEF vars, server
<1>11. QED
    BY <1>2, <1>3, <1>4, <1>5, <1>6, <1>7, <1>8, <1>9, <1>10 DEF Next

\* The strengthened invariant is inductive.
LEMMA StepInductive == IInv /\ [Next]_vars => IInv'
BY StepType, StepEntries, StepCalls DEF IInv

\* An entry on screen that is at rest, without error and not overtaken has data,
\* and they hold every change the tab was told of.
LEMMA KeptShown == IInv => ReadYourWrites
BY DEF IInv, EntryKept, EntryShape, ReadYourWrites, OnScreen, Active

\* No page shows, as loaded, less than what this tab was told it had changed: for
\* all pages whose onSuccess handlers invalidate what their mutations change.
THEOREM TabReadsItsWrites == Spec => []ReadYourWrites
<1>1. Spec => []IInv
    BY InitKept, StepInductive, PTL DEF Spec
<1>2. QED BY <1>1, KeptShown, PTL

=============================================================================
