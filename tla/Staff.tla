------------------------------- MODULE Staff -------------------------------
(***************************************************************************)
(* The staff users page (UsersPage.tsx): a table that asks the server for  *)
(* one page of the users that match the search and the filters, again      *)
(* after every change of either and after every change of a user.  Each    *)
(* request keeps the page, search and filters of the render that made it.  *)
(* A behaviour is one visit; a page that broke offers a new one.           *)
(***************************************************************************)
EXTENDS Integers, FiniteSets

CONSTANTS
    MaxUsers,  \* bound: users at a time
    Named,     \* the users that the search text matches
    PageSize,
    Filters,   \* the roles that the filter is set to
    MaxCalls   \* bound: requests, other than the loads that follow a change

Users == 1..MaxUsers     \* in the order of the table
NewUser == 0             \* the modal opened by "Add user"
Roles == {"admin", "staff"}
Calls == 1..(2 * MaxCalls)
Saves == {"create", "update"}
Edits == Saves \cup {"delete", "bulkDelete"}

ASSUME StaffAssumption ==
    /\ MaxUsers \in Nat \ {0} /\ PageSize \in Nat \ {0} /\ MaxCalls \in Nat \ {0}
    /\ Named \subseteq Users /\ Filters \subseteq Roles

VARIABLES
    users,     \* role of each user on the server, "none" if there is no such user
    ui,        \* the state of the page and of its modal; "broken": the error
               \* boundary has replaced the page
    calls,     \* requests in flight
    called,
    unsure     \* history: see TableAgrees

staffVars == <<users, ui, calls, called, unsure>>

ViewOf(u) == [page |-> u.page, role |-> u.role, text |-> u.text]

Matching(v) ==
    {u \in Users : /\ users[u] # "none"
                   /\ v.role \in {"all", users[u]}
                   /\ v.text => u \in Named}

Rank(u, s) == Cardinality({w \in s : w <= u})
OnPage(v) ==
    {u \in Matching(v) : Rank(u, Matching(v)) \in ((v.page - 1) * PageSize + 1)..(v.page * PageSize)}
Page(v) == [u \in OnPage(v) |-> users[u]]

\* "mine": the modal that sent it is still open; "counted": the load has its
\* total; "fresh": no change ran since, and all rows were read
Call(i, op, on, role, v) ==
    [id |-> i, op |-> op, on |-> on, role |-> role, view |-> v, counted |-> FALSE,
     ran |-> FALSE, rows |-> <<>>, total |-> 0, mine |-> TRUE, fresh |-> TRUE]

Load(i, v) == Call(i, "load", {}, "none", v)

\* whoever opens the page is a user
StaffInit ==
    /\ users \in [Users -> Roles \cup {"none"}] /\ \E u \in Users : users[u] # "none"
    /\ ui = [page |-> 1, role |-> "all", text |-> FALSE, typed |-> FALSE, rows |-> <<>>,
             total |-> 0, loading |-> TRUE, selected |-> {}, form |-> {}, saving |-> FALSE,
             deleting |-> 0, bulkDeleting |-> FALSE, broken |-> FALSE]
    /\ called = 1
    /\ calls = {Load(1, ViewOf(ui))}
    /\ unsure = TRUE

-----------------------------------------------------------------------------
(* The user and the timer of the search.                                   *)

\* The effect on loadUsers loads when the page, a filter or the search differs.
Show(u) ==
    /\ IF ViewOf(u) = ViewOf(ui)
       THEN ui' = u /\ UNCHANGED <<calls, called>>
       ELSE /\ called < MaxCalls /\ called' = called + 1
            /\ ui' = [u EXCEPT !.loading = TRUE]
            /\ calls' = calls \cup {Load(called', ViewOf(u))}
    /\ UNCHANGED <<users, unsure>>

Type(t) == t # ui.typed /\ Show([ui EXCEPT !.typed = t, !.page = 1])
Debounced == ui.typed # ui.text /\ Show([ui EXCEPT !.text = ui.typed])
Filter(r) == r # ui.role /\ Show([ui EXCEPT !.role = r, !.page = 1])

\* The table is a skeleton while it loads.
TableRows == IF ui.loading THEN {} ELSE DOMAIN ui.rows

TotalPages == (ui.total + PageSize - 1) \div PageSize

\* The buttons are below the rows: a page without rows has none.
Turn(p) == TableRows # {} /\ p <= TotalPages /\ p # ui.page /\ Show([ui EXCEPT !.page = p])

handleSelectRow(u) ==
    /\ u \in TableRows
    /\ ui' = [ui EXCEPT !.selected = (@ \ {u}) \cup ({u} \ @)]
    /\ UNCHANGED <<users, calls, called, unsure>>

handleSelectAll ==
    /\ TableRows # {}
    /\ ui' = [ui EXCEPT !.selected = IF TableRows \subseteq @ THEN {} ELSE TableRows]
    /\ UNCHANGED <<users, calls, called, unsure>>

SendCall(op, on, role) ==
    /\ called < MaxCalls /\ called' = called + 1
    /\ calls' = calls \cup {Call(called', op, on, role, ViewOf(ui))}
    /\ UNCHANGED <<users, unsure>>

handleDelete(u) ==
    /\ u \in TableRows /\ ui.deleting # u
    /\ ui' = [ui EXCEPT !.deleting = u]
    /\ SendCall("delete", {u}, "none")

handleBulkDelete ==
    /\ ui.selected # {} /\ ~ui.bulkDeleting
    /\ ui' = [ui EXCEPT !.bulkDeleting = TRUE]
    /\ SendCall("bulkDelete", ui.selected, "none")

OpenUser(u) ==
    /\ ui.form = {} /\ u \in TableRows \cup {NewUser}
    /\ ui' = [ui EXCEPT !.form = {u}]
    /\ UNCHANGED <<users, calls, called, unsure>>

\* Cancel is disabled while saving, but not the modal's own ways out.
Left(cs) == {[c EXCEPT !.mine = FALSE] : c \in cs}
CloseUser ==
    /\ ui.form # {}
    /\ ui' = [ui EXCEPT !.form = {}, !.saving = FALSE]
    /\ calls' = Left(calls)
    /\ UNCHANGED <<users, called, unsure>>

\* The return key submits the form of an existing user even while it saves.
handleSubmit(u, role) ==
    /\ ui.form = {u}
    /\ u = NewUser => ~ui.saving
    /\ ui' = [ui EXCEPT !.saving = TRUE]
    /\ SendCall(IF u = NewUser THEN "create" ELSE "update", {u} \ {NewUser}, role)

-----------------------------------------------------------------------------
(* The server.                                                             *)

Stored(c) ==
    CASE c.op = "create" -> {[users EXCEPT ![u] = c.role] : u \in {w \in Users : users[w] = "none"}}
      [] c.op = "update" -> {[u \in Users |-> IF u \in c.on THEN c.role ELSE users[u]]}
      [] OTHER -> {[u \in Users |-> IF u \in c.on THEN "none" ELSE users[u]]}

\* A user that is gone can be neither updated nor deleted.
Gone(c) == c.op \in {"update", "delete"} /\ \E u \in c.on : users[u] = "none"

Run(c) ==
    /\ c.op \in Edits /\ ~c.ran /\ ~Gone(c)
    /\ users' \in Stored(c)
    /\ calls' = {[d EXCEPT !.fresh = ~d.counted /\ @] : d \in calls \ {c}}
                \cup {[c EXCEPT !.ran = TRUE]}
    /\ UNCHANGED <<ui, called, unsure>>

\* A load runs two statements, outside a transaction.
Count(c) ==
    /\ c.op = "load" /\ ~c.counted
    /\ calls' = (calls \ {c}) \cup
                {[c EXCEPT !.counted = TRUE, !.total = Cardinality(Matching(c.view))]}
    /\ UNCHANGED <<users, ui, called, unsure>>

\* Rows that break off end the page early: rows.Err is never asked.
Heads(s) == {h \in SUBSET s : \A u \in h, w \in s \ h : u < w}
Select(c) ==
    /\ c.op = "load" /\ c.counted /\ ~c.ran
    /\ \E h \in Heads(OnPage(c.view)) :
          calls' = (calls \ {c}) \cup
                   {[c EXCEPT !.ran = TRUE, !.rows = [u \in h |-> users[u]],
                              !.fresh = @ /\ h = OnPage(c.view)]}
    /\ UNCHANGED <<users, ui, called, unsure>>

-----------------------------------------------------------------------------
(* Replies.                                                                *)

\* The flag of the operation falls; any deletion clears deletingId.
Settled(c) == [ui EXCEPT !.deleting = IF c.op = "delete" THEN 0 ELSE @,
                         !.bulkDeleting = @ /\ c.op # "bulkDelete",
                         !.saving = @ /\ ~(c.op \in Saves /\ c.mine)]

\* Mistake: a deletion is not followed by a load.
FollowedSaves(c) == IF c.op \in Saves THEN {Load(called + 1, c.view)} ELSE {}
\* The load that follows a change asks what the render before the change asked.
Followed(c) == {Load(called + 1, c.view)}

\* A save closes whichever modal is open; a bulk deletion clears the selection.
Saved(c) ==
    /\ c.op \in Edits /\ c.ran
    /\ ui' = [Settled(c) EXCEPT !.loading = TRUE,
                                !.selected = IF c.op = "bulkDelete" THEN {} ELSE @,
                                !.form = IF c.op \in Saves THEN {} ELSE @,
                                !.saving = @ /\ c.op \notin Saves]
    /\ called' = called + 1
    /\ calls' = (IF c.op \in Saves THEN Left(calls \ {c}) ELSE calls \ {c}) \cup Followed(c)
    /\ UNCHANGED <<users, unsure>>

\* A page without rows comes as null, and the table reads its length.
Loaded(c) ==
    /\ c.op = "load" /\ c.ran
    /\ ui' = [ui EXCEPT !.rows = c.rows, !.total = c.total, !.loading = FALSE,
                        !.broken = (DOMAIN c.rows = {})]
    /\ calls' = calls \ {c}
    /\ unsure' = (~c.fresh \/ c.view # ViewOf(ui))
    /\ UNCHANGED <<users, called>>

\* A request fails before or after the server ran it.
CallFails(c) ==
    /\ ui' = [Settled(c) EXCEPT !.loading = @ /\ c.op # "load"]
    /\ calls' = calls \ {c}
    /\ unsure' = (unsure \/ c.op = "load" \/ c.ran)
    /\ UNCHANGED <<users, called>>

Reply(c) ==
    /\ ~ui.broken
    /\ Run(c) \/ Count(c) \/ Select(c) \/ Saved(c) \/ Loaded(c) \/ CallFails(c)

Uses ==
    \/ \E t \in BOOLEAN : Type(t)
    \/ Debounced
    \/ \E r \in Filters \cup {"all"} : Filter(r)
    \/ \E p \in 1..MaxUsers : Turn(p)
    \/ \E u \in Users : handleSelectRow(u) \/ handleDelete(u)
    \/ handleSelectAll \/ handleBulkDelete
    \/ \E u \in Users \cup {NewUser} : OpenUser(u)
    \/ \E u \in Users \cup {NewUser}, r \in Roles : handleSubmit(u, r)
    \/ CloseUser

StaffNext == (~ui.broken /\ Uses) \/ \E c \in calls : Reply(c)

\* every request is answered or fails; as the requests are finitely many, none of
\* them is passed over for ever
StaffFairness == WF_staffVars(\E c \in calls : Reply(c))
StaffSpec == StaffInit /\ [][StaffNext]_staffVars /\ StaffFairness

-----------------------------------------------------------------------------
(* Properties.                                                             *)

Views == [page : 1..MaxUsers, role : Roles \cup {"all"}, text : BOOLEAN]
Tables == UNION {[s -> Roles] : s \in SUBSET Users}

\* Types.
StaffTypeOK ==
    /\ users \in [Users -> Roles \cup {"none"}]
    /\ ViewOf(ui) \in Views /\ ui.rows \in Tables /\ ui.total \in 0..MaxUsers
    /\ {ui.typed, ui.loading, ui.saving, ui.bulkDeleting, ui.broken} \subseteq BOOLEAN
    /\ ui.selected \subseteq Users /\ ui.deleting \in Users \cup {0}
    /\ ui.form \in {{}} \cup {{u} : u \in Users \cup {NewUser}}
    /\ called \in Calls
    /\ \A c \in calls : c.id \in Calls /\ c.op \in Edits \cup {"load"} /\ c.view \in Views

\* A table at rest shows the page of users that its search, filters and page
\* number ask for, whatever was typed, filtered, turned, saved and deleted before
\* and in whatever order the replies came.  Excepted is a page that broke, and what
\* the page leaves open until its next load: the last load to arrive failed, was
\* asked for under an earlier search, filter or page, counted before a change ran
\* or broke off; or a change ran and its reply was lost.
TableAgrees ==
    calls = {} /\ ~unsure /\ ~ui.broken =>
        ui.rows = Page(ViewOf(ui)) /\ ui.total = Cardinality(Matching(ViewOf(ui)))

\* When no user matches, the page stays and its table says so: "No staff users match
\* your filters." (UsersPage.tsx:192).
EmptyIsShown == ui.total = 0 => ~ui.broken

\* A spinner of the page is on.
Spins == ~ui.broken /\ (ui.loading \/ ui.bulkDeleting \/ ui.deleting # 0)

=============================================================================
