------------------------------ MODULE Settings ------------------------------
(***************************************************************************)
(* The cards of the settings page that keep server data in their own       *)
(* state (SettingsPage.tsx): two-factor authentication, API keys, active   *)
(* sessions, identity verification, notification switches, password.       *)
(* They share no state; a behaviour is one visit and follows one card.     *)
(*                                                                         *)
(* What a card shows is a set of rows: listed keys or sessions, switches   *)
(* that are on, or just Own (2FA is on; a verification is with the         *)
(* reviewers).  Request i creates the row Others + i.                      *)
(***************************************************************************)
EXTENDS Integers, FiniteSets

CONSTANTS
    Others,    \* how many further rows there may be from the start
    PageLimit, \* sessions and keys of a page, 20 in the code; the card asks for the first page only
    MaxSent    \* bound: requests of one visit

ASSUME SettingsAssumption == Others \in Nat /\ PageLimit \in Nat \ {0} /\ MaxSent \in Nat \ {0}

Cards == {"twofa", "keys", "sessions", "kyc", "prefs", "password"}
Lists == {"keys", "sessions"}
Own == 0     \* the row of this session, the switch that is on by default; the other
             \* rows are numbered by age
Old == 0..Others
Ids == 1..(2 * MaxSent)      \* a change is followed by at most one load
Rows == 0..(Others + 2 * MaxSent)
Changes == {"setup", "verify", "disable", "create", "revoke", "revokeOthers",
            "submit", "save", "change"}
\* operations that raise the busy flag of their card and fall with it
Exclusive == Changes \ {"revoke", "revokeOthers"}
Loads == {"load", "reload"}  \* "reload" is awaited by handleCreateApiKey
Forms == {"setup", "disable", "create", "submit"}

VARIABLES
    card,
    server,    \* the rows on the server
    shown,     \* the rows of the card
    loading,   \* the list is a skeleton
    busy,      \* twoFALoading, createKeyLoading, kycLoading, notifLoading, passwordLoading
    forms,     \* open modals
    reqs,      \* requests in flight
    sent,
    dirty,     \* history: switches were moved and not saved since
    doubt,     \* history: see AtRestAgrees
    partial    \* history: the load that wrote the card had not read all rows

settingsVars == <<card, server, shown, loading, busy, forms, reqs, sent, dirty, doubt, partial>>

\* "rows" is what a change carries or what a load has read; "whole" that the load
\* read all rows; "fresh" that no change ran since
Request(i, op, rows) ==
    [id |-> i, op |-> op, rows |-> rows, ran |-> FALSE, whole |-> TRUE, fresh |-> TRUE]

\* What the server may hold when the page is opened.
Held(c) ==
    CASE c \in {"twofa", "kyc"} -> {{}, {Own}}
      [] c = "sessions" -> {s \in SUBSET Old : Own \in s}
      [] c \in {"keys", "prefs"} -> SUBSET Old
      [] OTHER -> {{}}

\* The effect of the first render sends the loads.
SettingsInit ==
    /\ card \in Cards
    /\ server \in Held(card)
    /\ shown = IF card = "prefs" THEN {Own} ELSE {}
    /\ loading = (card \in Lists)
    /\ busy = FALSE /\ forms = {} /\ dirty = FALSE /\ partial = FALSE
    /\ doubt = (card # "password")
    /\ sent = 1
    /\ reqs = IF card = "password" THEN {} ELSE {Request(1, "load", {})}

-----------------------------------------------------------------------------
(* The user.                                                               *)

Send(op, rows) ==
    /\ sent < MaxSent
    /\ sent' = sent + 1
    /\ reqs' = reqs \cup {Request(sent', op, rows)}

\* What the cards and the modals offer.
SetupOffered == card = "twofa" /\ shown = {}
DisableOffered == card = "twofa" /\ shown # {} /\ ~busy
SubmitOffered == card = "kyc" /\ shown = {}
VerifyOffered == "setup" \in forms
DisableConfirmOffered == "disable" \in forms
KycFormOffered == "submit" \in forms
KeyFormOffered == "create" \in forms
PasswordOffered == card = "password"
SwitchesOffered == IF card = "prefs" THEN Old ELSE {}
\* rows are hidden while the list loads; their buttons are never disabled
SessionsOffered == IF card = "sessions" /\ ~loading THEN shown ELSE {}
KeysOffered == IF card = "keys" /\ ~loading THEN shown ELSE {}

OpenForm(f) ==
    /\ \/ DisableOffered /\ f = "disable"
       \/ SubmitOffered /\ f = "submit"
       \/ card = "keys" /\ f = "create"
    /\ forms' = forms \cup {f}
    /\ UNCHANGED <<card, server, shown, loading, busy, reqs, sent, dirty, doubt, partial>>

CloseForm(f) ==
    /\ f \in forms
    /\ forms' = forms \ {f}
    /\ UNCHANGED <<card, server, shown, loading, busy, reqs, sent, dirty, doubt, partial>>

\* Mistake: a second request may be sent while one is on.
ExclusiveAnyway(op) == busy' = TRUE /\ Send(op, {})
\* A Button is disabled while its loading flag is up.
SendExclusive(op) == ~busy /\ busy' = TRUE /\ Send(op, {})

handleSetup2FA ==
    /\ SetupOffered
    /\ SendExclusive("setup")
    /\ UNCHANGED <<card, server, shown, loading, forms, dirty, doubt, partial>>

handleVerify2FA ==
    /\ VerifyOffered
    /\ SendExclusive("verify")
    /\ UNCHANGED <<card, server, shown, loading, forms, dirty, doubt, partial>>

handleDisable2FA ==
    /\ DisableConfirmOffered
    /\ SendExclusive("disable")
    /\ UNCHANGED <<card, server, shown, loading, forms, dirty, doubt, partial>>

handleCreateApiKey ==
    /\ KeyFormOffered
    /\ SendExclusive("create")
    /\ UNCHANGED <<card, server, shown, loading, forms, dirty, doubt, partial>>

handleKYCSubmit ==
    /\ KycFormOffered
    /\ SendExclusive("submit")
    /\ UNCHANGED <<card, server, shown, loading, forms, dirty, doubt, partial>>

handlePasswordChange ==
    /\ PasswordOffered
    /\ SendExclusive("change")
    /\ UNCHANGED <<card, server, shown, loading, forms, dirty, doubt, partial>>

handleRevokeSession(x) ==
    /\ x \in SessionsOffered
    /\ Send("revoke", {x})
    /\ UNCHANGED <<card, server, shown, loading, busy, forms, dirty, doubt, partial>>

handleRevokeApiKey(x) ==
    /\ x \in KeysOffered
    /\ Send("revoke", {x})
    /\ UNCHANGED <<card, server, shown, loading, busy, forms, dirty, doubt, partial>>

\* stays on offer while the list loads
handleRevokeAllSessions ==
    /\ card = "sessions" /\ Cardinality(shown) > 1
    /\ Send("revokeOthers", {})
    /\ UNCHANGED <<card, server, shown, loading, busy, forms, dirty, doubt, partial>>

MoveSwitch(x) ==
    /\ x \in SwitchesOffered
    /\ shown' = (shown \ {x}) \cup ({x} \ shown)
    /\ dirty' = TRUE
    /\ UNCHANGED <<card, server, loading, busy, forms, reqs, sent, doubt, partial>>

handleSaveNotifications ==
    /\ card = "prefs" /\ ~busy
    /\ busy' = TRUE
    /\ Send("save", shown)
    /\ dirty' = FALSE
    /\ UNCHANGED <<card, server, shown, loading, forms, doubt, partial>>

-----------------------------------------------------------------------------
(* The server.                                                             *)

Effect(r) ==
    CASE r.op \in {"verify", "submit"} -> {Own}
      [] r.op = "disable" -> {}
      [] r.op = "save" -> r.rows
      [] r.op = "create" -> server \cup {Others + r.id}
      [] r.op = "revoke" -> server \ r.rows
      [] r.op = "revokeOthers" -> server \cap {Own}
      [] OTHER -> server

\* A session that is already revoked is reported as not found.
Refused(r) == card = "sessions" /\ r.op = "revoke" /\ r.rows \cap server = {}

\* What a load may read.  Lists are cut to the first page: of the keys the newest,
\* the revoked ones, which the card drops, taking up places too; of the sessions
\* the last active.  Fewer come when the rows break off: rows.Err is never asked.
\* The status of 2FA is "off" when the database fails.
Told ==
    CASE card = "keys" ->
            {s \in SUBSET server : Cardinality(s) <= PageLimit /\ \A x \in s, y \in server \ s : x > y}
      [] card = "sessions" -> {s \in SUBSET server : Cardinality(s) <= PageLimit}
      [] card = "twofa" -> {server, {}}
      [] OTHER -> {server}

\* A load once the server has read "rows" for it.
Read(r, rows) == [r EXCEPT !.ran = TRUE, !.rows = rows, !.whole = (rows = server)]

Serve(r) ==
    /\ ~r.ran /\ ~Refused(r)
    /\ server' = Effect(r)
    /\ IF r.op \in Changes
       THEN reqs' = {[q EXCEPT !.fresh = ~q.ran /\ @] : q \in reqs \ {r}} \cup {[r EXCEPT !.ran = TRUE]}
       ELSE \E rows \in Told : reqs' = (reqs \ {r}) \cup {Read(r, rows)}
    /\ UNCHANGED <<card, shown, loading, busy, forms, sent, dirty, doubt, partial>>

-----------------------------------------------------------------------------
(* Replies.                                                                *)

\* what the card shows when a change has been accepted
Accepted(r) ==
    CASE r.op \in {"verify", "submit"} -> {Own}
      [] r.op = "disable" -> {}
      [] r.op = "revoke" -> shown \ r.rows
      [] OTHER -> shown

FormsAfter(r) ==
    CASE r.op = "setup" -> forms \cup {"setup"}
      [] r.op = "verify" -> forms \ {"setup"}
      [] OTHER -> forms \ {r.op}

\* A change is accepted.  A new key and the end of all other sessions are
\* followed by a load of the list; a new key stays busy until that load ends.
Accept(r) ==
    /\ r.op \in Changes /\ r.ran
    /\ shown' = Accepted(r)
    /\ forms' = FormsAfter(r)
    /\ busy' = (busy /\ (r.op \notin Exclusive \/ r.op = "create"))
    /\ IF r.op \in {"create", "revokeOthers"}
       THEN /\ loading' = TRUE /\ sent' = sent + 1
            /\ reqs' = (reqs \ {r}) \cup
                       {Request(sent', IF r.op = "create" THEN "reload" ELSE "load", {})}
       ELSE reqs' = reqs \ {r} /\ UNCHANGED <<loading, sent>>
    /\ doubt' = (doubt /\ r.op \notin {"verify", "disable", "submit"})
    /\ partial' = (partial /\ r.op \notin {"verify", "disable", "submit"})
    /\ UNCHANGED <<card, server, dirty>>

\* Loads overwrite what is shown.
Deliver(r) ==
    /\ r.op \in Loads /\ r.ran
    /\ shown' = r.rows
    /\ loading' = FALSE
    /\ busy' = (busy /\ r.op # "reload")
    /\ reqs' = reqs \ {r}
    /\ dirty' = FALSE
    /\ doubt' = (~r.fresh \/ \E q \in reqs : q.op = "save" /\ ~q.ran)
    /\ partial' = ~r.whole
    /\ UNCHANGED <<card, server, forms, sent>>

\* Mistake: the flag falls only when the call succeeds.
BusyAfterStuck(r) == busy
\* the "finally" of the handlers
BusyAfter(r) == busy /\ r.op \notin Exclusive \cup {"reload"}

\* A request fails before or after the server ran it.
Fail(r) ==
    /\ busy' = BusyAfter(r)
    /\ loading' = (loading /\ r.op \notin Loads)
    /\ reqs' = reqs \ {r}
    /\ dirty' = (dirty \/ r.op = "save")
    /\ doubt' = (doubt \/ r.op \in Loads \/ r.ran)
    /\ UNCHANGED <<card, server, shown, forms, sent, partial>>

Answer(r) == Serve(r) \/ Accept(r) \/ Deliver(r) \/ Fail(r)

SettingsNext ==
    \/ \E f \in Forms : OpenForm(f) \/ CloseForm(f)
    \/ handleSetup2FA \/ handleVerify2FA \/ handleDisable2FA
    \/ handleCreateApiKey \/ handleKYCSubmit \/ handlePasswordChange
    \/ \E x \in Rows : handleRevokeSession(x) \/ handleRevokeApiKey(x)
    \/ handleRevokeAllSessions
    \/ \E x \in Old : MoveSwitch(x)
    \/ handleSaveNotifications
    \/ \E r \in reqs : Answer(r)

\* every request is answered or fails; as the requests are finitely many, none of
\* them is passed over for ever
SettingsFairness == WF_settingsVars(\E r \in reqs : Answer(r))
SettingsSpec == SettingsInit /\ [][SettingsNext]_settingsVars /\ SettingsFairness

-----------------------------------------------------------------------------
(* Properties.                                                             *)

\* Types.
SettingsTypeOK ==
    /\ card \in Cards /\ server \subseteq Rows /\ shown \subseteq Rows
    /\ {loading, busy, dirty, doubt, partial} \subseteq BOOLEAN
    /\ forms \subseteq Forms /\ sent \in Ids
    /\ reqs \subseteq [id : Ids, op : Changes \cup Loads, rows : SUBSET Rows,
                       ran : BOOLEAN, whole : BOOLEAN, fresh : BOOLEAN]

\* A card at rest shows only rows that the server holds, and all of them unless the
\* load that wrote it had read a part: replies of changes, of the first load and of
\* the loads that follow a change may come in any order and some may fail.  Excepted
\* are the ways out that the page leaves open, until a later load or 2FA or
\* verification change settles the card: a load that failed, or that read before a
\* change ran; a change that ran and whose reply was lost; switches moved since they
\* were saved.
AtRestAgrees ==
    reqs = {} /\ ~dirty /\ ~doubt => shown \subseteq server /\ (~partial => shown = server)

\* A button is disabled or a list is a skeleton.
Waits == busy \/ loading

=============================================================================
