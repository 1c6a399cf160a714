------------------------------ MODULE Session ------------------------------
(***************************************************************************)
(* The session of one browser tab of the console: the zustand store of     *)
(* store/authStore.ts, its copy in sessionStorage, the route guards, the   *)
(* sign-in and registration forms, the event stream of the layout and the  *)
(* interceptors of services/api.ts.                                        *)
(*                                                                         *)
(* React renders a change of the store before the next event, so what is   *)
(* on the screen is a function of the rendered location and the store;     *)
(* effects and navigations complete later, and replies arrive at any time  *)
(* and act even when the page that sent the request is gone.  A token is   *)
(* the id of the request whose reply issued it.                            *)
(***************************************************************************)
EXTENDS Naturals

CONSTANTS
    Users,
    Members,      \* those whose role is 'member'
    TwoFactor,    \* those with two-factor sign-in
    None,
    MaxRequests   \* bound: requests sent and pages loaded

ASSUME SessionAssumption ==
    /\ Members \subseteq Users /\ TwoFactor \subseteq Users
    /\ None \notin Users
    /\ MaxRequests \in Nat

VARIABLES
    storage,  \* sessionStorage: the token and user of the session, or None
    apiKey,   \* whether localStorage holds an 'api_key'; the console never writes it
    store,    \* user, isAuthenticated, isLoading
    pending,  \* pending2FA...: the user whose second factor is awaited
    at,       \* the location that is rendered
    next,     \* a navigation that has begun, or None
    effects,  \* effects of mounted components that have not run
    stream,   \* the token of the open EventSource
    form,     \* the mounted form: its step, and the request it waits for (0: none)
    reqs,     \* requests in flight
    sent,
    landing,  \* history: this tab signed in from its form and did nothing since
    renamed,  \* history: setUser ran since the store was last read from storage
    refused   \* history: the token that was stored when a 401 was handled

browser == <<storage, apiKey>>
screen == <<at, next, effects, stream, form>>
network == <<reqs, sent>>
past == <<landing, renamed, refused>>
vars == <<browser, store, pending, screen, network, past>>

-----------------------------------------------------------------------------
(* The routes of app/router.tsx.  "/" stands for every page without a      *)
(* session, "/dashboard" for the admin pages, "/settings" for the shared.  *)

Forms == {"/login", "/register"}
Public == {"/"} \cup Forms
AdminOnly == {"/dashboard"}
Protected == AdminOnly \cup {"/settings", "/member"}
Paths == Public \cup Protected

Tokens == [id : 1..MaxRequests, user : Users]

ASSUME NoneAssumption == None \notin Paths \cup Tokens \cup (1..MaxRequests)

Home(u) == IF u \in Members THEN "/member" ELSE "/dashboard"

\* AdminRoute lets every role but 'member' through
AdminRejects(s) == s.user = None \/ s.user \in Members

\* What is on the screen at location a: a page, or the element of a guard.
\* (MemberRoute asks for isAuthenticated only, as ProtectedRoute above it.)
View(a, s) ==
    CASE a \in Public -> a
      [] a \notin Public /\ s.loading -> "spinner"
      [] a \notin Public /\ ~s.loading /\ ~s.auth -> "toLogin"
      [] a \in AdminOnly /\ ~s.loading /\ s.auth /\ AdminRejects(s) -> "toMember"
      [] OTHER -> a

Guarded(v) == v \notin Public             \* ProtectedRoute is mounted
InApp(v) == v \in Protected \cup {"toMember"}  \* AppLayout is mounted

EffectNames == {"hydrate", "stream", "bounce", "toLogin", "toMember"}

\* Effects that a render from view v to view w leaves to be run.
Mounting(v, w, s) ==
    {e \in EffectNames :
        \/ e = "hydrate" /\ Guarded(w) /\ ~Guarded(v)
        \/ e = "stream" /\ InApp(w) /\ ~InApp(v)
        \/ e = "bounce" /\ w \in Forms /\ s.auth /\ (w # v \/ ~store.auth)
        \/ e = w /\ w # v}

\* React runs the effects of one render before the next.  A guard's redirect
\* has run, a stream that opens just before the layout goes is closed with it,
\* and the handler's navigation may replace a form before its effect has run.
Ready == effects \cap {"toLogin", "toMember"} = {}
Surviving(v, w) ==
    {e \in effects :
        \/ e = "hydrate"
        \/ e = "stream" /\ InApp(w)
        \/ e = "bounce" /\ w = v}

NewForm(p) == [step |-> IF p = None THEN "credentials" ELSE "2fa", busy |-> 0]

\* Location a is rendered with store s, after view v.  Leaving the layout
\* closes the stream; a form starts empty, the sign-in form at the second
\* factor when one is pending.
Render(v, a, s) ==
    LET w == View(a, s)
    IN  /\ Ready
        /\ at' = a
        /\ store' = s
        /\ effects' = Surviving(v, w) \cup Mounting(v, w, s)
        /\ stream' = IF InApp(w) THEN stream ELSE None
        /\ form' = IF w # v THEN NewForm(IF w = "/login" THEN pending' ELSE None)
                   ELSE IF w = "/login" /\ pending' # None /\ pending' # pending
                   THEN [form EXCEPT !.step = "2fa"]
                   ELSE form

Shown == View(at, store)
Update(s) == Render(Shown, at, s)
Settled == effects = {} /\ next = None

Blank == [user |-> None, auth |-> FALSE, loading |-> TRUE]

Init ==
    /\ storage = None /\ apiKey \in BOOLEAN
    /\ store = Blank /\ pending = None
    /\ at \in Paths /\ next = None /\ effects = {"hydrate"} /\ stream = None
    /\ form = NewForm(None)
    /\ reqs = {} /\ sent = 0
    /\ landing = FALSE /\ renamed = FALSE /\ refused = 0

-----------------------------------------------------------------------------
(* The store.                                                              *)

SignedIn(u) == [user |-> u, auth |-> TRUE, loading |-> FALSE]

login(r) ==
    /\ storage' = [id |-> r.id, user |-> r.user]
    /\ renamed' = FALSE
    /\ Update(SignedIn(r.user))

complete2FA(r) == pending' = None /\ login(r)

\* Mistake: the stored copy outlives the session.
LogoutKeepsCopy ==
    /\ pending' = None /\ renamed' = FALSE /\ UNCHANGED storage
    /\ Update([Blank EXCEPT !.loading = FALSE])
logout ==
    /\ pending' = None /\ renamed' = FALSE /\ storage' = None
    /\ Update([Blank EXCEPT !.loading = FALSE])

\* Mistake: the whole stored session becomes the user.
HydratedWhole == IF storage # None THEN SignedIn(storage)
                 ELSE [store EXCEPT !.auth = FALSE, !.loading = FALSE]
\* Mistake: a session in the store is trusted.
HydratedTrusting == IF store.auth THEN store
                    ELSE IF storage # None THEN SignedIn(storage.user)
                    ELSE [store EXCEPT !.loading = FALSE]
Hydrated == IF storage # None THEN SignedIn(storage.user)
            ELSE [store EXCEPT !.auth = FALSE, !.loading = FALSE]

-----------------------------------------------------------------------------
(* Effects and navigation.                                                 *)

\* Run one effect that leaves the screen as it is.
Run(e) == e \in effects /\ effects' = effects \ {e}

\* App runs it at load, ProtectedRoute each time it is mounted.
hydrate ==
    /\ "hydrate" \in effects /\ Ready
    /\ LET w == View(at, Hydrated)
       IN  /\ store' = Hydrated
           /\ effects' = (Surviving(Shown, w) \cup Mounting(Shown, w, Hydrated)) \ {"hydrate"}
           /\ stream' = IF InApp(w) THEN stream ELSE None
           /\ form' = IF w # Shown THEN NewForm(None) ELSE form
    /\ renamed' = FALSE
    /\ UNCHANGED <<browser, pending, at, next, network, landing, refused>>

\* AppLayout: the stream is opened with the token in sessionStorage.
OpenStream ==
    /\ Run("stream")
    /\ stream' = IF storage = None THEN None ELSE storage.id
    /\ UNCHANGED <<browser, store, pending, at, next, form, network, past>>

\* Mistake: a member is sent to sign in again.
TargetLogin(e) ==
    CASE e \in {"toLogin", "toMember"} -> "/login"
      [] e = "bounce" -> IF Shown = "/login" THEN "/dashboard" ELSE "/member"
\* Mistake: both forms send a tab to the member portal.
TargetMember(e) == IF e = "toLogin" THEN "/login" ELSE "/member"
\* where a guard's <Navigate>, or the effect of a form, sends a tab
Target(e) ==
    CASE e = "toLogin" -> "/login"
      [] e = "toMember" -> "/member"
      [] e = "bounce" -> IF Shown = "/login" THEN "/dashboard" ELSE "/member"

Redirect ==
    \E e \in {"toLogin", "toMember", "bounce"} :
        /\ Run(e)
        /\ next' = Target(e)
        /\ UNCHANGED <<browser, store, pending, at, stream, form, network, past>>

Arrive ==
    /\ next # None
    /\ next' = None
    /\ UNCHANGED pending /\ Render(Shown, next, store)
    /\ UNCHANGED <<browser, network, past>>

\* a link, the sidebar, Back and Forward
Navigate(p) ==
    /\ Settled /\ p # at
    /\ next' = p
    /\ landing' = FALSE
    /\ UNCHANGED <<browser, store, pending, at, effects, stream, form, network, renamed, refused>>

\* The page is loaded again: memory and requests are gone, storage is not.
Reload ==
    /\ sent < MaxRequests /\ sent' = sent + 1
    /\ store' = Blank /\ pending' = None
    /\ next' = None /\ effects' = {"hydrate"} /\ stream' = None
    /\ form' = NewForm(None)
    /\ reqs' = {}
    /\ landing' = FALSE /\ renamed' = FALSE
    /\ UNCHANGED <<browser, at, refused>>

-----------------------------------------------------------------------------
(* Requests.                                                               *)

Send(kind, u) ==
    /\ sent < MaxRequests
    /\ sent' = sent + 1
    /\ reqs' = reqs \cup {[id |-> sent + 1, kind |-> kind, user |-> u]}
    /\ landing' = FALSE

\* The buttons of the forms are disabled while a reply is awaited.
Submit(kind, u) ==
    /\ Settled /\ form.busy = 0
    /\ Send(kind, u)
    /\ form' = [form EXCEPT !.busy = sent + 1]
    /\ UNCHANGED <<browser, store, pending, at, next, effects, stream, renamed, refused>>

SubmitLogin(u) == Shown = "/login" /\ form.step = "credentials" /\ Submit("login", u)

\* the token of the pending sign-in; '' after a late sign-out cleared it
Submit2FA == Shown = "/login" /\ form.step = "2fa" /\ Submit("verify", pending)

\* the passwords match and are long enough; new accounts are members
SubmitRegister(u) == Shown = "/register" /\ u \in Members /\ Submit("register", u)

Back ==
    /\ Settled /\ Shown = "/login" /\ form.step = "2fa"
    /\ pending' = None
    /\ form' = [form EXCEPT !.step = "credentials"]
    /\ landing' = FALSE
    /\ UNCHANGED <<browser, store, at, next, effects, stream, network, renamed, refused>>

SubmitLogout ==
    /\ Settled /\ InApp(Shown)
    /\ Send("logout", None)
    /\ UNCHANGED <<browser, store, pending, screen, renamed, refused>>

\* the profile form of the settings page; it keeps the user it was rendered with
SubmitProfile ==
    /\ Settled /\ Shown = "/settings"
    /\ Send("profile", store.user)
    /\ UNCHANGED <<browser, store, pending, screen, renamed, refused>>

-----------------------------------------------------------------------------
(* Replies.                                                                *)

Answered(r) == reqs' = reqs \ {r} /\ UNCHANGED sent

\* the form that sent the request, if it is still there, is free again
Release(r, f) == IF f.busy = r.id THEN [f EXCEPT !.busy = 0] ELSE f

FormFails(r) ==
    /\ r.kind \in {"login", "verify", "register"}
    /\ Answered(r)
    /\ form' = Release(r, form)
    /\ UNCHANGED <<browser, store, pending, at, next, effects, stream, past>>

\* handleSubmit, first reply of a two-factor sign-in.  The effect on
\* pending2FA turns whichever sign-in form is mounted.
Start2FA(r) ==
    /\ r.kind = "login" /\ r.user \in TwoFactor
    /\ Answered(r)
    /\ pending' = r.user
    /\ form' = [Release(r, form) EXCEPT !.step = IF Shown = "/login" THEN "2fa" ELSE @]
    /\ UNCHANGED <<browser, store, at, next, effects, stream, past>>

\* A session was issued: the store changes, then the handler navigates.
Issued(r, to) ==
    /\ Answered(r)
    /\ next' = to
    /\ landing' = (form.busy = r.id)
    /\ UNCHANGED <<apiKey, refused>>

LoginServed(r) ==
    /\ r.kind = "login" /\ r.user \notin TwoFactor
    /\ Issued(r, Home(r.user))
    /\ UNCHANGED pending /\ login(r)

VerifyServed(r) ==
    /\ r.kind = "verify" /\ r.user # None
    /\ Issued(r, Home(r.user))
    /\ complete2FA(r)

RegisterServed(r) ==
    /\ r.kind = "register"
    /\ Issued(r, "/member")
    /\ UNCHANGED pending /\ login(r)

\* handleLogout: the reply, or its failure, ends whatever session there is
SignsOut(r) ==
    /\ r.kind = "logout"
    /\ Answered(r)
    /\ next' = "/login"
    /\ landing' = FALSE
    /\ logout
    /\ UNCHANGED <<apiKey, refused>>

\* The request interceptor looks for store.token, which does not exist, and
\* falls back to the API key: only with one does the server serve a request.
Carried == IF apiKey THEN "key" ELSE None

\* setUser
ProfileServed(r) ==
    /\ r.kind = "profile" /\ Carried # None /\ r.user # None
    /\ Answered(r)
    /\ landing' = FALSE /\ renamed' = TRUE
    /\ UNCHANGED pending
    /\ Update([user |-> r.user, auth |-> TRUE, loading |-> store.loading])
    /\ UNCHANGED <<browser, next, refused>>

\* The response interceptor calls clearAuth, which the store does not have:
\* it throws, and the caller sees one error instead of another.
ProfileUnauthorized(r) ==
    /\ r.kind = "profile" /\ Carried = None
    /\ Answered(r)
    /\ refused' = IF storage = None THEN refused ELSE storage.id
    /\ UNCHANGED <<browser, store, pending, screen, landing, renamed>>

Effect == hydrate \/ OpenStream \/ Redirect \/ Arrive
User ==
    \/ \E p \in Paths : Navigate(p)
    \/ \E u \in Users : SubmitLogin(u) \/ SubmitRegister(u)
    \/ Submit2FA \/ Back \/ SubmitLogout \/ SubmitProfile \/ Reload
Reply ==
    \E r \in reqs :
        \/ FormFails(r) \/ Start2FA(r) \/ LoginServed(r) \/ VerifyServed(r)
        \/ RegisterServed(r) \/ SignsOut(r)
        \/ ProfileServed(r) \/ ProfileUnauthorized(r)

Next == Effect \/ User \/ Reply

Spec == Init /\ [][Next]_vars
\* the browser runs what it has queued
FairSpec == Spec /\ WF_vars(Effect)

-----------------------------------------------------------------------------
(* Properties.                                                             *)

Requests == [id : 1..MaxRequests, kind : {"login", "verify", "register", "logout", "profile"},
             user : Users \cup {None}]
Stores == [user : Users \cup {None}, auth : BOOLEAN, loading : BOOLEAN]
FormStates == [step : {"credentials", "2fa"}, busy : 0..MaxRequests]

\* Types.
TypeOK ==
    /\ storage \in Tokens \cup {None} /\ apiKey \in BOOLEAN
    /\ store \in Stores
    /\ pending \in Users \cup {None}
    /\ at \in Paths /\ next \in Paths \cup {None}
    /\ effects \subseteq EffectNames
    /\ stream \in 1..MaxRequests \cup {None}
    /\ form \in FormStates
    /\ reqs \subseteq Requests /\ sent \in 0..MaxRequests
    /\ landing \in BOOLEAN /\ renamed \in BOOLEAN /\ refused \in 0..MaxRequests

\* The store and its copy in sessionStorage agree once the store has been read:
\* somebody is signed in exactly when a token is stored, and it is that user,
\* until a profile reply writes the store alone (setUser).
StoreMirrorsStorage ==
    ~store.loading /\ ~renamed =>
        /\ store.auth <=> storage # None
        /\ store.auth => store.user = storage.user

\* A tab that has come to rest shows a page, never the spinner or the blank
\* element of a guard whose redirect has been spent, and without a stored token
\* it shows no protected page and holds no event stream (unless a profile reply
\* that came after sign-out set isAuthenticated again).
RestsOnPage ==
    Settled => /\ Shown \in Paths
               /\ storage = None /\ ~renamed => Shown \in Public /\ stream = None

\* Somebody who signs in from a form that is still there comes to rest on the
\* page of his role, whichever of the two navigations (handler, effect) wins.
LandsAtHome == Settled /\ landing => Shown = Home(storage.user)

\* Redirects end: no guard and no effect sends a tab in circles.
ComesToRest == ~Settled ~> Settled

\* A 401 of a request other than sign-in ends the session that was stored.
UnauthorizedSignsOut == refused = 0 \/ storage = None \/ storage.id # refused

=============================================================================
