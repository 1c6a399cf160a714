----------------------------- MODULE QueryCache -----------------------------
(***************************************************************************)
(* The pages of one browser tab and the query cache they share             *)
(* (app/providers.tsx: one QueryClient, staleTime 30 s, two retries, no    *)
(* refetch on focus).  A page reads queries and offers controls; a control *)
(* sends a mutation; the mutation's onSuccess invalidates queries by the   *)
(* first element of their key.  The library is modelled from that use.     *)
(*                                                                         *)
(* Data are versions: the server counts the changes of the rows behind     *)
(* each query.  A query of a table has one cache entry per view (page      *)
(* number, search, filter).                                                *)
(***************************************************************************)
EXTENDS Integers, FiniteSets

CONSTANTS
    Queries,     \* first elements of the query keys
    Tables,      \* those whose key holds a view
    Views,       \* the views, 1 among them
    Pages,       \* for each page: the queries it reads and its controls
    Sites,       \* sets of pages; a behaviour keeps to one (bound)
    Polled,      \* queries with a refetchInterval, read by the sidebar
    Retries,     \* 2 in the code
    MaxCalls,    \* bound: mutations sent
    MaxOthers    \* bound: changes made by others

Mutations == [name : STRING, writes : SUBSET Queries, invalidates : SUBSET Queries]
Controls == [sends : Mutations, waits : SUBSET Mutations]

ASSUME QueryAssumption ==
    /\ Tables \subseteq Queries /\ Polled \subseteq Queries \ Tables
    /\ Views \subseteq Nat /\ 1 \in Views
    /\ \A p \in DOMAIN Pages :
          /\ Pages[p].reads \subseteq Queries
          /\ Pages[p].controls \subseteq Controls
    /\ \A s \in Sites : s # {} /\ s \subseteq DOMAIN Pages
    /\ Retries \in Nat /\ MaxCalls \in Nat /\ MaxOthers \in Nat

\* Every mutation a page sends invalidates the queries of that page it changes.
ASSUME CoversAssumption ==
    \A p \in DOMAIN Pages : \A c \in Pages[p].controls :
        c.sends.writes \cap Pages[p].reads \subseteq c.sends.invalidates

\* only a table has an entry for each view
Keys == {k \in Queries \X Views : k[1] \in Tables \/ k[2] = 1}
None == -1

VARIABLES
    site,     \* the pages of this behaviour
    page,     \* the mounted page
    view,     \* the view of its table
    db,       \* the version of the rows behind each query
    cache,    \* each entry: its data, whether they are stale, whether the last
              \* load failed
    load,     \* each entry: whether a load is on, what it has read (None: nothing),
              \* how often it failed
    calls,    \* mutations in flight
    called, others,
    acked,    \* history: version made by the last write this tab was told of
    overtaken \* history: entries invalidated during a load that was not cancelled

server == <<db, others>>
screen == <<site, page, view>>
vars == <<screen, server, cache, load, calls, called, acked, overtaken>>

Empty == [data |-> None, stale |-> TRUE, error |-> FALSE]
Idle == [on |-> FALSE, read |-> None, fails |-> 0]
Started == [on |-> TRUE, read |-> None, fails |-> 0]

\* the entries that mounted components read
Active(p, v) ==
    {k \in Keys : /\ k[1] \in Pages[p].reads \cup Polled
                  /\ k[2] = IF k[1] \in Tables THEN v ELSE 1}
OnScreen == Active(page, view)

\* An entry that comes on screen is loaded when it is stale and no load is on.
Loads(ks) == [k \in Keys |-> IF k \in ks /\ cache[k].stale /\ ~load[k].on
                                THEN Started ELSE load[k]]

Init ==
    /\ site \in Sites /\ page \in site /\ view = 1
    /\ db = [q \in Queries |-> 0] /\ others = 0
    /\ cache = [k \in Keys |-> Empty]
    /\ load = [k \in Keys |-> IF k \in Active(page, 1) THEN Started ELSE Idle]
    /\ calls = {} /\ called = 0
    /\ acked = [q \in Queries |-> 0]
    /\ overtaken = {}

-----------------------------------------------------------------------------
(* The user.                                                               *)

Show(p, v) ==
    LET new == Active(p, v) \ OnScreen
    IN  /\ page' = p /\ view' = v
        /\ load' = Loads(new)
        /\ overtaken' = overtaken \ {k \in new : load'[k] # load[k]}

\* A page that is left forgets which of its mutations are pending.
Mount(p) ==
    /\ p \in site /\ p # page
    /\ Show(p, 1)
    /\ calls' = {[c EXCEPT !.here = FALSE] : c \in calls}
    /\ UNCHANGED <<site, server, cache, called, acked>>

\* pagination, search and filters
Turn(v) ==
    /\ Pages[page].reads \cap Tables # {} /\ v # view
    /\ Show(page, v)
    /\ UNCHANGED <<site, server, cache, calls, called, acked>>

\* A control is disabled while a mutation it waits for is pending.
Click(c) ==
    /\ \E k \in OnScreen : cache[k].data # None
    /\ ~\E d \in calls : d.here /\ d.does \in c.waits
    /\ called < MaxCalls
    /\ called' = called + 1
    /\ calls' = calls \cup {[id |-> called, does |-> c.sends, on |-> page,
                             here |-> TRUE, ran |-> FALSE, made |-> [q \in Queries |-> 0]]}
    /\ UNCHANGED <<screen, server, cache, load, acked, overtaken>>

-----------------------------------------------------------------------------
(* Mutations.                                                              *)

Changed(qs) == [q \in Queries |-> IF q \in qs THEN db[q] + 1 ELSE db[q]]

Execute(c) ==
    /\ ~c.ran
    /\ db' = Changed(c.does.writes)
    /\ calls' = (calls \ {c}) \cup {[c EXCEPT !.ran = TRUE, !.made = db']}
    /\ UNCHANGED <<screen, others, cache, load, called, acked, overtaken>>

\* the entries that are loaded again; a first load that is on is not cancelled
Reloaded(qs) == {k \in OnScreen : k[1] \in qs /\ ~(load[k].on /\ cache[k].data = None)}

\* Mistake: any load that is on is left to finish.
InvalidatedLoadsKept(qs) ==
    [k \in Keys |-> IF k \in Reloaded(qs) /\ ~load[k].on THEN Started ELSE load[k]]
\* invalidateQueries: entries on screen load again
InvalidatedLoads(qs) == [k \in Keys |-> IF k \in Reloaded(qs) THEN Started ELSE load[k]]

\* and all of these queries become stale
InvalidatedCache(qs) == [k \in Keys |-> IF k[1] \in qs THEN [cache[k] EXCEPT !.stale = TRUE]
                                        ELSE cache[k]]

\* The reply; onSuccess runs even if the page that sent it is gone.
Acknowledge(c) ==
    /\ c.ran
    /\ calls' = calls \ {c}
    /\ load' = InvalidatedLoads(c.does.invalidates)
    /\ cache' = InvalidatedCache(c.does.invalidates)
    /\ overtaken' = (overtaken \cup {k \in Keys : k[1] \in c.does.invalidates /\ load[k].on})
                    \ Reloaded(c.does.invalidates)
    /\ acked' = [q \in Queries |->
                    IF q \in c.does.writes \cap Pages[c.on].reads /\ c.made[q] > acked[q]
                    THEN c.made[q] ELSE acked[q]]
    /\ UNCHANGED <<screen, server, called>>

\* The call fails before or after the server ran it; mutations are not retried.
CallFails(c) ==
    /\ calls' = calls \ {c}
    /\ UNCHANGED <<screen, server, cache, load, called, acked, overtaken>>

-----------------------------------------------------------------------------
(* Loads.                                                                  *)

Read(k) ==
    /\ load[k].on /\ load[k].read = None
    /\ load' = [load EXCEPT ![k].read = db[k[1]]]
    /\ UNCHANGED <<screen, server, cache, calls, called, acked, overtaken>>

Loaded(k) ==
    /\ load[k].on /\ load[k].read # None
    /\ cache' = [cache EXCEPT ![k] = [data |-> load[k].read, stale |-> FALSE, error |-> FALSE]]
    /\ load' = [load EXCEPT ![k] = Idle]
    /\ UNCHANGED <<screen, server, calls, called, acked, overtaken>>

\* Mistake: retries are not counted.
AfterFailureEndless(k) == [load[k] EXCEPT !.read = None]
AfterFailure(k) == IF load[k].fails < Retries
                   THEN [load[k] EXCEPT !.read = None, !.fails = @ + 1] ELSE Idle

LoadFails(k) ==
    /\ load[k].on
    /\ load' = [load EXCEPT ![k] = AfterFailure(k)]
    /\ cache' = IF load[k].fails < Retries THEN cache
                ELSE [cache EXCEPT ![k].stale = TRUE, ![k].error = TRUE]
    /\ UNCHANGED <<screen, server, calls, called, acked, overtaken>>

\* refetchInterval of the sidebar
Poll(k) ==
    /\ k[1] \in Polled /\ k \in OnScreen /\ ~load[k].on
    /\ load' = [load EXCEPT ![k] = Started]
    /\ overtaken' = overtaken \ {k}
    /\ UNCHANGED <<screen, server, cache, calls, called, acked>>

\* staleTime passes
Age(k) ==
    /\ cache[k].data # None /\ ~cache[k].stale
    /\ cache' = [cache EXCEPT ![k].stale = TRUE]
    /\ UNCHANGED <<screen, server, load, calls, called, acked, overtaken>>

\* gcTime passes for an entry nothing reads
Collect(k) ==
    /\ ~load[k].on /\ cache[k] # Empty /\ k \notin OnScreen
    /\ cache' = [cache EXCEPT ![k] = Empty]
    /\ UNCHANGED <<screen, server, load, calls, called, acked, overtaken>>

\* another user, a device or a job changes rows
OtherChanges(q) ==
    /\ q \in Pages[page].reads \cup Polled
    /\ others < MaxOthers
    /\ others' = others + 1
    /\ db' = Changed({q})
    /\ UNCHANGED <<screen, cache, load, calls, called, acked, overtaken>>

Next ==
    \/ \E p \in DOMAIN Pages : Mount(p)
    \/ \E c \in Pages[page].controls : Click(c)
    \/ \E v \in Views : Turn(v)
    \/ \E c \in calls : Execute(c) \/ Acknowledge(c) \/ CallFails(c)
    \/ \E k \in Keys : Read(k) \/ Loaded(k) \/ LoadFails(k) \/ Poll(k) \/ Age(k) \/ Collect(k)
    \/ \E q \in Queries : OtherChanges(q)

Spec == Init /\ [][Next]_vars
\* a request that is on is served and answered, or fails
FairSpec == Spec /\ \A k \in Keys : WF_vars(Read(k)) /\ WF_vars(Loaded(k))

-----------------------------------------------------------------------------
(* Properties.                                                             *)

Entry == [data : Nat \cup {None}, stale : BOOLEAN, error : BOOLEAN]
LoadState == [on : BOOLEAN, read : Nat \cup {None}, fails : 0..Retries]
CallState == [id : 0..MaxCalls, does : Mutations, on : DOMAIN Pages, here : BOOLEAN,
              ran : BOOLEAN, made : [Queries -> Nat]]

\* Types.
TypeOK ==
    /\ site \in Sites /\ page \in site /\ view \in Views
    /\ db \in [Queries -> Nat] /\ others \in 0..MaxOthers
    /\ cache \in [Keys -> Entry]
    /\ load \in [Keys -> LoadState]
    /\ \A c \in calls : c \in CallState
    /\ called \in 0..MaxCalls
    /\ acked \in [Queries -> Nat]
    /\ overtaken \subseteq Keys

\* What a page shows, when nothing is being loaded and the last load did not
\* fail, includes every change this tab made on a page of that query and was
\* told of: no reply that was read before the change is kept, whatever order
\* replies come in and whichever pages were visited between.  Not covered: an
\* entry invalidated during a load that goes on, its first load or one that
\* began on a page since left; that load's data count as fresh.
ReadYourWrites ==
    \A k \in OnScreen :
        /\ ~load[k].on /\ ~cache[k].error /\ k \notin overtaken
        => cache[k].data >= acked[k[1]]

\* Every load ends, with data or with an error: no page stays on its skeleton.
LoadsEnd == \A k \in Keys : load[k].on ~> ~load[k].on

=============================================================================
