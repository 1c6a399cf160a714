---------------------------- MODULE SessionProofs ----------------------------
(***************************************************************************)
(* Machine-checked proofs about Session, for every set of users and every  *)
(* number of requests and page loads.                                      *)
(* The last parts are about Shell, the frame of every page: its toasts and *)
(* their timers, the history that keeps them and the bell that shows it.   *)
(***************************************************************************)
EXTENDS Session, Shell, SequenceTheorems, FiniteSetTheorems, FunctionTheorems, TLAPS

\* Requests that can sign somebody in name a user.
NamesUser(r) == r.kind \in {"login", "register"} => r.user \in Users

\* What is on the screen and what is still to happen to it: a spinner waits for
\* hydrate, the element of a guard for its redirect, only the layout has a stream
\* or is about to open one, and redirects are those of what is shown.
ScreenInv ==
    /\ store.loading => "hydrate" \in effects
    /\ Shown = "toLogin" => "toLogin" \in effects \/ next = "/login"
    /\ Shown = "toMember" => "toMember" \in effects \/ next = "/member"
    /\ "stream" \in effects \/ stream # None => InApp(Shown)
    /\ \A e \in {"toLogin", "toMember"} : e \in effects => Shown = e
    /\ "bounce" \in effects => Shown \in Forms

IInv ==
    /\ TypeOK
    /\ \A r \in reqs : NamesUser(r)
    /\ StoreMirrorsStorage
    /\ ScreenInv

-----------------------------------------------------------------------------
(* Views and renders.                                                      *)

\* What a location shows, by the state of the store.
LEMMA ViewCases ==
    ASSUME NEW a \in Paths, NEW s \in Stores
    PROVE  /\ a \in Public => View(a, s) = a
           /\ View(a, s) \in Paths \cup {"spinner", "toLogin", "toMember"}
           /\ View(a, s) = "spinner" => s.loading
           /\ View(a, s) = "toLogin" => ~s.loading /\ ~s.auth
           /\ View(a, s) = "toMember" => a \in AdminOnly /\ s.auth /\ AdminRejects(s)
           /\ ~s.auth => View(a, s) \in Public \cup {"spinner", "toLogin"}
<1> USE DEF Paths, Public, Forms, Protected, AdminOnly
<1>1. CASE a \in Public
    BY <1>1 DEF View
<1>2. CASE a \notin Public /\ s.loading
    BY <1>2 DEF View
<1>3. CASE a \notin Public /\ ~s.loading /\ ~s.auth
    BY <1>3 DEF View
<1>4. CASE a \in AdminOnly /\ ~s.loading /\ s.auth /\ AdminRejects(s)
    BY <1>4 DEF View
<1>5. CASE a \notin Public /\ ~s.loading /\ s.auth /\ ~(a \in AdminOnly /\ AdminRejects(s))
    BY <1>5 DEF View
<1>6. s.loading \in BOOLEAN /\ s.auth \in BOOLEAN
    BY DEF Stores
<1>7. QED BY <1>1, <1>2, <1>3, <1>4, <1>5, <1>6

\* The stores that the actions of authStore.ts leave are stores.
LEMMA StoreValues ==
    ASSUME TypeOK
    PROVE  /\ Blank \in Stores /\ [Blank EXCEPT !.loading = FALSE] \in Stores
           /\ Hydrated \in Stores /\ Hydrated.loading = FALSE
           /\ \A u \in Users : SignedIn(u) \in Stores
           /\ \A u \in Users : [user |-> u, auth |-> TRUE, loading |-> store.loading] \in Stores
<1>1. storage # None => storage.user \in Users
    BY DEF TypeOK, Tokens
<1>2. QED BY <1>1 DEF TypeOK, Stores, Blank, Hydrated, SignedIn

\* A new form is a form.
LEMMA FormValues ==
    ASSUME SessionAssumption, NEW p
    PROVE  NewForm(p) \in FormStates
BY SessionAssumption DEF NewForm, FormStates

\* A render keeps the types of the screen.
LEMMA RenderType ==
    ASSUME TypeOK, NEW a \in Paths, NEW s \in Stores, Render(Shown, a, s)
    PROVE  /\ at' \in Paths /\ store' \in Stores /\ effects' \subseteq EffectNames
           /\ stream' \in 1..MaxRequests \cup {None} /\ form' \in FormStates
<1>1. effects' \subseteq EffectNames
    BY DEF TypeOK, Render, Surviving, Mounting
<1>2. [form EXCEPT !.step = "2fa"] \in FormStates
    BY DEF TypeOK, FormStates
<1>3. form' \in FormStates
    BY <1>2, FormValues, SessionAssumption DEF TypeOK, Render
<1>4. QED BY <1>1, <1>3 DEF TypeOK, Render

\* A render keeps ScreenInv, unless the element of a guard is rendered again and
\* no redirect is on its way.
LEMMA RenderScreen ==
    ASSUME TypeOK, ScreenInv, NEW a \in Paths, NEW s \in Stores, Render(Shown, a, s),
           s.loading => store.loading,
           View(a, s) = "toLogin" /\ Shown = "toLogin" => next' = "/login",
           View(a, s) = "toMember" /\ Shown = "toMember" => next' = "/member"
    PROVE  ScreenInv'
<1>1. Shown' = View(a, s) /\ store' = s
    BY DEF Render, Shown
<1>2. s.loading => "hydrate" \in effects'
    BY DEF ScreenInv, Render, Surviving
<1>3. View(a, s) = "toLogin" => "toLogin" \in effects' \/ next' = "/login"
    BY DEF Render, Mounting, EffectNames
<1>4. View(a, s) = "toMember" => "toMember" \in effects' \/ next' = "/member"
    BY DEF Render, Mounting, EffectNames
<1>5. "stream" \in effects' \/ stream' # None => InApp(View(a, s))
    <2>1. View(a, s) # "stream"
        BY ViewCases DEF Paths, Public, Forms, Protected, AdminOnly
    <2>2. QED BY <2>1 DEF Render, Surviving, Mounting
<1>6. InApp(Shown)' <=> InApp(View(a, s))
    BY <1>1 DEF InApp
<1>7. ASSUME NEW e \in {"toLogin", "toMember"}, e \in effects' PROVE View(a, s) = e
    BY <1>7 DEF Render, Surviving, Mounting
<1>8. "bounce" \in effects' => View(a, s) \in Forms
    <2>1. View(a, s) # "bounce"
        BY ViewCases DEF Paths, Public, Forms, Protected, AdminOnly
    <2>2. QED BY <2>1 DEF Render, Surviving, Mounting, ScreenInv
<1>9. QED BY <1>1, <1>2, <1>3, <1>4, <1>5, <1>6, <1>7, <1>8 DEF ScreenInv

-----------------------------------------------------------------------------
(* Types.                                                                  *)

TypeInv == TypeOK /\ \A r \in reqs : NamesUser(r)

\* The first states are typed.
LEMMA InitType == Init => TypeInv
<1> SUFFICES ASSUME Init PROVE TypeInv
    OBVIOUS
<1>1. form \in FormStates
    BY FormValues, SessionAssumption DEF Init
<1>2. store \in Stores
    BY DEF Init, Blank, Stores
<1>3. 0 \in 0..MaxRequests
    BY SessionAssumption
<1>4. effects \subseteq EffectNames /\ apiKey \in BOOLEAN /\ at \in Paths
    BY DEF Init, EffectNames
<1>5. reqs \subseteq Requests /\ \A r \in reqs : NamesUser(r)
    BY DEF Init
<1>6. TypeOK
    BY <1>1, <1>2, <1>3, <1>4, <1>5 DEF Init, TypeOK
<1>7. QED BY <1>5, <1>6 DEF TypeInv

\* A request that is sent is typed and names a user when it can sign one in.
LEMMA SendType ==
    ASSUME TypeInv, NEW kind \in {"login", "verify", "register", "logout", "profile"},
           NEW u \in Users \cup {None}, Send(kind, u),
           kind \in {"login", "register"} => u \in Users
    PROVE  /\ reqs' \subseteq Requests /\ sent' \in 0..MaxRequests /\ sent + 1 \in 0..MaxRequests
           /\ \A r \in reqs' : NamesUser(r)
<1>1. sent + 1 \in 1..MaxRequests /\ sent' = sent + 1
    BY SessionAssumption DEF TypeInv, TypeOK, Send
<1>2. reqs' = reqs \cup {[id |-> sent + 1, kind |-> kind, user |-> u]}
    BY DEF Send
<1>3. NamesUser([id |-> sent + 1, kind |-> kind, user |-> u])
    BY DEF NamesUser
<1>4. [id |-> sent + 1, kind |-> kind, user |-> u] \in Requests
    BY <1>1 DEF Requests
<1>5. QED BY <1>1, <1>2, <1>3, <1>4 DEF TypeInv, TypeOK

\* Every step keeps the types.
LEMMA StepType == TypeInv /\ [Next]_vars => TypeInv'
<1> SUFFICES ASSUME TypeInv, [Next]_vars PROVE TypeInv'
    OBVIOUS
<1>a. TypeOK /\ \A r \in reqs : r \in Requests /\ NamesUser(r)
    BY DEF TypeInv, TypeOK
<1>b. /\ storage \in Tokens \cup {None} /\ apiKey \in BOOLEAN /\ store \in Stores
      /\ pending \in Users \cup {None} /\ at \in Paths /\ next \in Paths \cup {None}
      /\ effects \subseteq EffectNames /\ stream \in 1..MaxRequests \cup {None}
      /\ form \in FormStates /\ reqs \subseteq Requests /\ sent \in 0..MaxRequests
      /\ landing \in BOOLEAN /\ renamed \in BOOLEAN /\ refused \in 0..MaxRequests
      /\ \A r \in reqs : NamesUser(r)
    BY DEF TypeInv, TypeOK
<1>c. /\ Shown \in Paths \cup {"spinner", "toLogin", "toMember"}
      /\ "/login" \in Paths /\ "/member" \in Paths /\ "/dashboard" \in Paths
    BY <1>b, ViewCases DEF Shown, Paths, Public, Forms, Protected, AdminOnly
<1>d. ASSUME NEW r \in reqs, Answered(r)
      PROVE  reqs' \subseteq Requests /\ sent' \in 0..MaxRequests /\ \A q \in reqs' : NamesUser(q)
    BY <1>b, <1>d DEF Answered
<1>e. \A n \in 0..MaxRequests : [form EXCEPT !.busy = n] \in FormStates
    BY <1>b DEF FormStates
<1>1. CASE UNCHANGED vars
    BY <1>b, <1>1 DEF vars, browser, screen, network, past, TypeInv, TypeOK
<1>2. CASE hydrate
    <2>1. store' \in Stores
        BY <1>a, <1>2, StoreValues DEF hydrate
    <2>2. effects' \subseteq EffectNames /\ stream' \in 1..MaxRequests \cup {None}
        BY <1>b, <1>2 DEF hydrate, Surviving, Mounting
    <2>3. form' \in FormStates
        BY <1>b, <1>2, FormValues, SessionAssumption DEF hydrate
    <2>4. QED BY <1>b, <1>2, <2>1, <2>2, <2>3 DEF hydrate, browser, network, TypeInv, TypeOK
<1>3. CASE OpenStream
    <2>1. stream' \in 1..MaxRequests \cup {None}
        BY <1>b, <1>3 DEF OpenStream, Tokens
    <2>2. QED BY <1>b, <1>3, <2>1 DEF OpenStream, Run, browser, network, past, TypeInv, TypeOK
<1>4. CASE Redirect
    <2>1. next' \in Paths
        BY <1>c, <1>4 DEF Redirect, Target
    <2>2. QED BY <1>b, <1>4, <2>1 DEF Redirect, Run, browser, network, past, TypeInv, TypeOK
<1>5. CASE Arrive
    <2>1. Render(Shown, next, store) /\ next \in Paths
        BY <1>b, <1>5 DEF Arrive
    <2>2. QED BY <1>a, <1>b, <1>5, <2>1, RenderType DEF Arrive, browser, network, past, TypeInv, TypeOK
<1>6. ASSUME NEW p \in Paths, Navigate(p) PROVE TypeInv'
    BY <1>b, <1>6 DEF Navigate, browser, network, TypeInv, TypeOK
<1>7. CASE Reload
    <2>1. sent' \in 0..MaxRequests
        BY <1>b, <1>7, SessionAssumption DEF Reload
    <2>2. store' \in Stores /\ form' \in FormStates
        BY <1>a, <1>7, StoreValues, FormValues, SessionAssumption DEF Reload
    <2>3. effects' \subseteq EffectNames
        BY <1>7 DEF Reload, EffectNames
    <2>4. QED BY <1>b, <1>7, <2>1, <2>2, <2>3 DEF Reload, browser, TypeInv, TypeOK
<1>8. ASSUME NEW kind \in {"login", "verify", "register"}, NEW u \in Users \cup {None},
             Submit(kind, u), kind \in {"login", "register"} => u \in Users
      PROVE  TypeInv'
    <2>1. /\ reqs' \subseteq Requests /\ sent' \in 0..MaxRequests /\ sent + 1 \in 0..MaxRequests
          /\ \A r \in reqs' : NamesUser(r)
        BY <1>8, SendType DEF Submit
    <2>2. form' \in FormStates /\ landing' = FALSE
        BY <1>e, <1>8, <2>1 DEF Submit, Send
    <2>3. QED BY <1>b, <1>8, <2>1, <2>2 DEF Submit, browser, TypeInv, TypeOK
<1>9. ASSUME NEW u \in Users, SubmitLogin(u) \/ SubmitRegister(u) PROVE TypeInv'
    BY <1>8, <1>9 DEF SubmitLogin, SubmitRegister
<1>10. CASE Submit2FA
    BY <1>8, <1>10, <1>b DEF Submit2FA
<1>11. CASE Back
    <2>1. form' \in FormStates
        BY <1>b, <1>11 DEF Back, FormStates
    <2>2. QED BY <1>b, <1>11, <2>1 DEF Back, browser, network, TypeInv, TypeOK
<1>12. CASE SubmitLogout
    <2>1. reqs' \subseteq Requests /\ sent' \in 0..MaxRequests /\ \A r \in reqs' : NamesUser(r)
        BY <1>12, SendType DEF SubmitLogout
    <2>2. landing' = FALSE
        BY <1>12 DEF SubmitLogout, Send
    <2>3. QED BY <1>b, <1>12, <2>1, <2>2 DEF SubmitLogout, browser, screen, TypeInv, TypeOK
<1>13. CASE SubmitProfile
    <2>1. store.user \in Users \cup {None}
        BY <1>b DEF Stores
    <2>2. reqs' \subseteq Requests /\ sent' \in 0..MaxRequests /\ \A r \in reqs' : NamesUser(r)
        BY <1>13, <2>1, SendType DEF SubmitProfile
    <2>3. landing' = FALSE
        BY <1>13 DEF SubmitProfile, Send
    <2>4. QED BY <1>b, <1>13, <2>2, <2>3 DEF SubmitProfile, browser, screen, TypeInv, TypeOK
<1>14. ASSUME NEW r \in reqs, FormFails(r) PROVE TypeInv'
    <2>1. form' \in FormStates
        BY <1>b, <1>e, <1>14, SessionAssumption DEF FormFails, Release
    <2>2. QED BY <1>b, <1>d, <1>14, <2>1 DEF FormFails, browser, past, TypeInv, TypeOK
<1>15. ASSUME NEW r \in reqs, Start2FA(r) PROVE TypeInv'
    <2>1. Release(r, form) \in FormStates
        BY <1>b, <1>e, SessionAssumption DEF Release
    <2>2. form' \in FormStates
        BY <1>15, <2>1 DEF Start2FA, FormStates
    <2>3. pending' \in Users
        BY <1>15, SessionAssumption DEF Start2FA
    <2>4. QED BY <1>b, <1>d, <1>15, <2>2, <2>3 DEF Start2FA, browser, past, TypeInv, TypeOK
<1>16. ASSUME NEW r \in reqs, NEW to \in Paths, r.user \in Users, Issued(r, to), login(r),
              pending' \in Users \cup {None}
       PROVE  TypeInv'
    <2>1. storage' \in Tokens
        BY <1>a, <1>16 DEF login, Tokens, Requests
    <2>2. Render(Shown, at, SignedIn(r.user)) /\ SignedIn(r.user) \in Stores
        BY <1>a, <1>16, StoreValues DEF login, Update
    <2>3. landing' \in BOOLEAN
        BY <1>16 DEF Issued
    <2>4. QED BY <1>a, <1>b, <1>d, <1>16, <2>1, <2>2, <2>3, RenderType DEF Issued, login, TypeInv, TypeOK
<1>17. ASSUME NEW r \in reqs, LoginServed(r) \/ VerifyServed(r) \/ RegisterServed(r) PROVE TypeInv'
    <2>1. r.user \in Users
        BY <1>a, <1>17 DEF LoginServed, VerifyServed, RegisterServed, NamesUser, Requests
    <2>2. Home(r.user) \in Paths
        BY <1>c DEF Home
    <2>3. QED BY <1>b, <1>c, <1>16, <1>17, <2>1, <2>2 DEF LoginServed, VerifyServed, RegisterServed, complete2FA
<1>18. ASSUME NEW r \in reqs, SignsOut(r) PROVE TypeInv'
    <2>1. Render(Shown, at, [Blank EXCEPT !.loading = FALSE])
        BY <1>18 DEF SignsOut, logout, Update
    <2>2. QED BY <1>a, <1>b, <1>c, <1>d, <1>18, <2>1, RenderType, StoreValues DEF SignsOut, logout, TypeInv, TypeOK
<1>19. ASSUME NEW r \in reqs, ProfileServed(r) PROVE TypeInv'
    <2>1. r.user \in Users
        BY <1>a, <1>19 DEF ProfileServed, Requests
    <2>2. /\ Render(Shown, at, [user |-> r.user, auth |-> TRUE, loading |-> store.loading])
          /\ [user |-> r.user, auth |-> TRUE, loading |-> store.loading] \in Stores
        BY <1>a, <1>19, <2>1, StoreValues DEF ProfileServed, Update
    <2>3. QED BY <1>a, <1>b, <1>d, <1>19, <2>2, RenderType DEF ProfileServed, browser, TypeInv, TypeOK
<1>20. ASSUME NEW r \in reqs, ProfileUnauthorized(r) PROVE TypeInv'
    <2>1. refused' \in 0..MaxRequests
        BY <1>b, <1>20 DEF ProfileUnauthorized, Tokens
    <2>2. QED BY <1>b, <1>d, <1>20, <2>1 DEF ProfileUnauthorized, browser, screen, TypeInv, TypeOK
<1>21. QED
    BY <1>1, <1>2, <1>3, <1>4, <1>5, <1>6, <1>7, <1>9, <1>10, <1>11, <1>12, <1>13, <1>14, <1>15,
       <1>17, <1>18, <1>19, <1>20 DEF Next, Effect, User, Reply

\* The types of TypeOK hold throughout: among them that the stored token, the user
\* in the store and the open stream stay what they should be whichever reply
\* comes after which.
THEOREM TypeCorrect == Spec => []TypeOK
<1>1. Spec => []TypeInv
    BY InitType, StepType, PTL DEF Spec
<1>2. TypeInv => TypeOK
    BY DEF TypeInv
<1>3. QED BY <1>1, <1>2, PTL

-----------------------------------------------------------------------------
(* The store, its copy and the screen.                                     *)

\* Nothing is stored and everything on the screen is still to come.
LEMMA InitInv == Init => IInv
<1> SUFFICES ASSUME Init PROVE IInv
    OBVIOUS
<1>1. TypeInv
    BY InitType
<1>2. store.loading = TRUE /\ effects = {"hydrate"} /\ stream = None
    BY DEF Init, Blank
<1>3. StoreMirrorsStorage
    BY <1>2 DEF StoreMirrorsStorage
<1>4. Shown # "toLogin" /\ Shown # "toMember"
    BY <1>1, <1>2, ViewCases DEF Shown, TypeInv, TypeOK, Init, Blank
<1>5. ScreenInv
    BY <1>2, <1>4 DEF ScreenInv
<1>6. QED BY <1>1, <1>3, <1>5 DEF IInv, TypeInv

\* A sign-in writes the store and its copy at once, and the tab is sent to a page
\* that its user may see.
LEMMA SignInKept ==
    ASSUME IInv, NEW r, r.user \in Users, r.id \in 1..MaxRequests, login(r),
           next' = Home(r.user) \/ next' = "/member"
    PROVE  StoreMirrorsStorage' /\ ScreenInv'
<1>1. /\ storage' = [id |-> r.id, user |-> r.user]
      /\ Render(Shown, at, SignedIn(r.user)) /\ store' = SignedIn(r.user)
    BY DEF login, Update, Render
<1>2. storage' # None /\ storage'.user = r.user
    BY <1>1, NoneAssumption DEF Tokens
<1>3. StoreMirrorsStorage'
    BY <1>1, <1>2 DEF StoreMirrorsStorage, SignedIn
<1>4. /\ at \in Paths /\ SignedIn(r.user) \in Stores
      /\ SignedIn(r.user).loading = FALSE /\ SignedIn(r.user).auth /\ SignedIn(r.user).user = r.user
    BY StoreValues DEF IInv, TypeOK, SignedIn
<1>5. View(at, SignedIn(r.user)) # "toLogin"
    BY <1>4, ViewCases
<1>6. View(at, SignedIn(r.user)) = "toMember" => r.user \in Members
    BY <1>4, ViewCases, SessionAssumption DEF AdminRejects
<1>7. View(at, SignedIn(r.user)) = "toMember" => next' = "/member"
    BY <1>6 DEF Home
<1>8. QED BY <1>1, <1>3, <1>4, <1>5, <1>7, RenderScreen DEF IInv

\* Every step keeps the invariant.
LEMMA StepInv == IInv /\ [Next]_vars => IInv'
<1> SUFFICES ASSUME IInv, [Next]_vars PROVE StoreMirrorsStorage' /\ ScreenInv'
    BY StepType DEF IInv, TypeInv
<1>a. /\ TypeOK /\ ScreenInv /\ StoreMirrorsStorage /\ at \in Paths /\ store \in Stores
      /\ \A r \in reqs : r \in Requests /\ NamesUser(r)
    BY DEF IInv, TypeOK
<1>b. Ready /\ Shown = "toLogin" => next = "/login"
    BY <1>a DEF Ready, ScreenInv
<1>c. Ready /\ Shown = "toMember" => next = "/member"
    BY <1>a DEF Ready, ScreenInv
<1>d. ASSUME UNCHANGED <<storage, store, renamed>> PROVE StoreMirrorsStorage'
    BY <1>a, <1>d DEF StoreMirrorsStorage
<1>e. ASSUME UNCHANGED <<store, at, next, effects, stream>> PROVE ScreenInv'
    BY <1>a, <1>e DEF ScreenInv, Shown
<1>f. ASSUME UNCHANGED <<storage, store, renamed, at, next, effects, stream>>
      PROVE  StoreMirrorsStorage' /\ ScreenInv'
    BY <1>d, <1>e, <1>f
<1>1. CASE UNCHANGED vars
    BY <1>f, <1>1 DEF vars, browser, screen, past
<1>2. CASE hydrate
    <2>1. store' = Hydrated /\ Hydrated \in Stores /\ Hydrated.loading = FALSE /\ UNCHANGED <<storage, at, next>>
        BY <1>a, <1>2, StoreValues DEF hydrate, browser
    <2>2. storage # None => storage.user \in Users
        BY <1>a DEF TypeOK, Tokens
    <2>3. StoreMirrorsStorage'
        BY <1>a, <2>1, <2>2 DEF StoreMirrorsStorage, Hydrated, SignedIn, Stores
    <2>4. Shown' = View(at, Hydrated) /\ Ready
        BY <1>2, <2>1 DEF Shown, hydrate
    <2>5. View(at, Hydrated) # "stream"
        BY <1>a, <2>1, ViewCases DEF Paths, Public, Forms, Protected, AdminOnly
    <2>6. "stream" \in effects' \/ stream' # None => InApp(View(at, Hydrated))
        BY <1>2, <2>5 DEF hydrate, Surviving, Mounting
    <2>7. View(at, Hydrated) = "toLogin" => "toLogin" \in effects' \/ next' = "/login"
        BY <1>2, <1>b, <2>1, <2>4 DEF hydrate, Mounting, EffectNames
    <2>8. View(at, Hydrated) = "toMember" => "toMember" \in effects' \/ next' = "/member"
        BY <1>2, <1>c, <2>1, <2>4 DEF hydrate, Mounting, EffectNames
    <2>9. InApp(Shown)' <=> InApp(View(at, Hydrated))
        BY <2>4 DEF InApp
    <2>10. ASSUME NEW e \in {"toLogin", "toMember"}, e \in effects' PROVE View(at, Hydrated) = e
        BY <1>2, <2>10 DEF hydrate, Surviving, Mounting
    <2>11. "bounce" \in effects' => View(at, Hydrated) \in Forms
        <3>1. View(at, Hydrated) # "bounce"
            BY <1>a, <2>1, ViewCases DEF Paths, Public, Forms, Protected, AdminOnly
        <3>2. QED BY <1>a, <1>2, <3>1 DEF hydrate, Surviving, Mounting, ScreenInv
    <2>12. ScreenInv'
        BY <2>1, <2>4, <2>6, <2>7, <2>8, <2>9, <2>10, <2>11 DEF ScreenInv
    <2>13. QED BY <2>3, <2>12
<1>3. CASE OpenStream
    <2>1. /\ "stream" \in effects /\ effects' = effects \ {"stream"}
          /\ UNCHANGED <<storage, store, renamed, at, next>>
        BY <1>3 DEF OpenStream, Run, browser, past
    <2>2. Shown' = Shown /\ (InApp(Shown)' <=> InApp(Shown)) /\ InApp(Shown)
        BY <1>a, <2>1 DEF Shown, InApp, ScreenInv
    <2>3. ScreenInv'
        BY <1>a, <2>1, <2>2 DEF ScreenInv
    <2>4. QED BY <1>d, <2>1, <2>3
<1>4. CASE Redirect
    <2>1. PICK e \in {"toLogin", "toMember", "bounce"} :
              /\ e \in effects /\ effects' = effects \ {e} /\ next' = Target(e)
              /\ UNCHANGED <<storage, store, renamed, at, stream>>
        BY <1>4 DEF Redirect, Run, browser, past
    <2>2. Shown' = Shown /\ (InApp(Shown)' <=> InApp(Shown))
        BY <2>1 DEF Shown, InApp
    <2>3. e = "toLogin" => next' = "/login"
        BY <2>1 DEF Target
    <2>4. e = "toMember" => next' = "/member"
        BY <2>1 DEF Target
    <2>5. e = "bounce" => Shown \in Forms
        BY <1>a, <2>1 DEF ScreenInv
    <2>6. e # "bounce" => Shown = e
        BY <1>a, <2>1 DEF ScreenInv
    <2>7. Shown = "toLogin" => next' = "/login"
        BY <2>1, <2>3, <2>5, <2>6 DEF Forms
    <2>8. Shown = "toMember" => next' = "/member"
        BY <2>1, <2>4, <2>5, <2>6 DEF Forms
    <2>9. ScreenInv'
        BY <1>a, <2>1, <2>2, <2>7, <2>8 DEF ScreenInv
    <2>10. QED BY <1>d, <2>1, <2>9
<1>5. CASE Arrive
    <2>1. /\ Render(Shown, next, store) /\ next \in Paths /\ Ready
          /\ UNCHANGED <<storage, store, renamed>>
        BY <1>a, <1>5 DEF Arrive, Render, browser, past, TypeOK
    <2>2. "/login" \in Public /\ "/login" \in Paths /\ "/member" \in Paths /\ "/member" \notin AdminOnly
        BY DEF Paths, Public, Forms, Protected, AdminOnly
    <2>3. Shown = "toLogin" => View(next, store) # "toLogin"
        BY <1>a, <1>b, <2>1, <2>2, ViewCases
    <2>4. Shown = "toMember" => View(next, store) # "toMember"
        BY <1>a, <1>c, <2>1, <2>2, ViewCases
    <2>5. ScreenInv'
        BY <1>a, <2>1, <2>3, <2>4, RenderScreen
    <2>6. QED BY <1>d, <2>1, <2>5
<1>6. ASSUME NEW p \in Paths, Navigate(p) PROVE StoreMirrorsStorage' /\ ScreenInv'
    <2>1. /\ effects = {} /\ next = None /\ UNCHANGED <<storage, store, renamed, at, effects, stream>>
        BY <1>6 DEF Navigate, Settled, browser
    <2>2. Shown # "toLogin" /\ Shown # "toMember"
        BY <1>a, <2>1, NoneAssumption DEF ScreenInv, Paths, Public, Forms, Protected, AdminOnly
    <2>3. Shown' = Shown /\ (InApp(Shown)' <=> InApp(Shown))
        BY <2>1 DEF Shown, InApp
    <2>4. ScreenInv'
        BY <1>a, <2>1, <2>2, <2>3 DEF ScreenInv
    <2>5. QED BY <1>d, <2>1, <2>4
<1>7. CASE Reload
    <2>1. /\ store' = Blank /\ effects' = {"hydrate"} /\ stream' = None /\ at' = at
        BY <1>7 DEF Reload
    <2>2. Blank \in Stores /\ Blank.loading = TRUE
        BY <1>a, StoreValues DEF Blank
    <2>3. Shown' = View(at, Blank)
        BY <2>1 DEF Shown
    <2>4. View(at, Blank) # "toLogin" /\ View(at, Blank) # "toMember"
        BY <1>a, <2>2, ViewCases DEF Blank
    <2>5. ScreenInv'
        BY <2>1, <2>2, <2>3, <2>4 DEF ScreenInv
    <2>6. QED BY <2>1, <2>2, <2>5 DEF StoreMirrorsStorage
<1>8. ASSUME NEW kind, NEW u, Submit(kind, u) PROVE StoreMirrorsStorage' /\ ScreenInv'
    BY <1>f, <1>8 DEF Submit, browser
<1>9. ASSUME NEW u \in Users, SubmitLogin(u) \/ SubmitRegister(u)
      PROVE  StoreMirrorsStorage' /\ ScreenInv'
    BY <1>8, <1>9 DEF SubmitLogin, SubmitRegister
<1>10. CASE Submit2FA
    BY <1>8, <1>10 DEF Submit2FA
<1>11. CASE Back
    BY <1>f, <1>11 DEF Back, browser
<1>12. CASE SubmitLogout \/ SubmitProfile
    BY <1>f, <1>12 DEF SubmitLogout, SubmitProfile, browser, screen
<1>13. ASSUME NEW r \in reqs, FormFails(r) \/ Start2FA(r) \/ ProfileUnauthorized(r)
       PROVE  StoreMirrorsStorage' /\ ScreenInv'
    BY <1>f, <1>13 DEF FormFails, Start2FA, ProfileUnauthorized, browser, screen, past
<1>14. ASSUME NEW r \in reqs, LoginServed(r) \/ VerifyServed(r) \/ RegisterServed(r)
       PROVE  StoreMirrorsStorage' /\ ScreenInv'
    <2>1. r.user \in Users /\ r.id \in 1..MaxRequests
        BY <1>a, <1>14 DEF LoginServed, VerifyServed, RegisterServed, NamesUser, Requests
    <2>2. login(r) /\ (next' = Home(r.user) \/ next' = "/member")
        BY <1>14 DEF LoginServed, VerifyServed, RegisterServed, complete2FA, Issued
    <2>3. QED BY <2>1, <2>2, SignInKept
<1>15. ASSUME NEW r \in reqs, SignsOut(r) PROVE StoreMirrorsStorage' /\ ScreenInv'
    <2>1. /\ Render(Shown, at, [Blank EXCEPT !.loading = FALSE]) /\ next' = "/login"
          /\ storage' = None /\ store' = [Blank EXCEPT !.loading = FALSE]
        BY <1>15 DEF SignsOut, logout, Update, Render
    <2>2. /\ [Blank EXCEPT !.loading = FALSE] \in Stores
          /\ [Blank EXCEPT !.loading = FALSE].loading = FALSE
          /\ [Blank EXCEPT !.loading = FALSE].auth = FALSE
        BY <1>a, StoreValues DEF Blank
    <2>3. View(at, [Blank EXCEPT !.loading = FALSE]) # "toMember"
        BY <1>a, <2>2, ViewCases
    <2>4. ScreenInv'
        BY <1>a, <2>1, <2>2, <2>3, RenderScreen
    <2>5. StoreMirrorsStorage'
        BY <2>1, <2>2 DEF StoreMirrorsStorage
    <2>6. QED BY <2>4, <2>5
<1>16. ASSUME NEW r \in reqs, ProfileServed(r) PROVE StoreMirrorsStorage' /\ ScreenInv'
    <2> DEFINE s == [user |-> r.user, auth |-> TRUE, loading |-> store.loading]
    <2>1. r.user \in Users
        BY <1>a, <1>16 DEF ProfileServed, Requests
    <2>2. s \in Stores /\ s.loading = store.loading /\ s.auth
        BY <1>a, <2>1, StoreValues
    <2>3. Render(Shown, at, s) /\ Ready /\ next' = next /\ renamed' = TRUE
        BY <1>16 DEF ProfileServed, Update, Render
    <2>4. View(at, s) # "toLogin"
        BY <1>a, <2>2, ViewCases
    <2>5. ScreenInv'
        BY <1>a, <1>c, <2>2, <2>3, <2>4, RenderScreen
    <2>6. QED BY <2>3, <2>5 DEF StoreMirrorsStorage
<1>17. QED
    BY <1>1, <1>2, <1>3, <1>4, <1>5, <1>6, <1>7, <1>9, <1>10, <1>11, <1>12, <1>13, <1>14, <1>15, <1>16
       DEF Next, Effect, User, Reply

\* The invariant holds throughout.
LEMMA Invariant == Spec => []IInv
BY InitInv, StepInv, PTL DEF Spec

\* The store says that somebody is signed in exactly when a token is stored, and
\* names its owner, whichever replies of earlier sign-ins and sign-outs arrive late.
THEOREM StoreMirrors == Spec => []StoreMirrorsStorage
<1>1. IInv => StoreMirrorsStorage
    BY DEF IInv
<1>2. QED BY <1>1, Invariant, PTL

\* At rest, nothing is left of the spinner and the guards, and without a stored
\* token neither a protected page nor the event stream.
LEMMA RestFromInv == IInv => RestsOnPage
<1> SUFFICES ASSUME IInv, Settled PROVE /\ Shown \in Paths
                                        /\ storage = None /\ ~renamed => Shown \in Public /\ stream = None
    BY DEF RestsOnPage
<1>1. effects = {} /\ next = None /\ at \in Paths /\ store \in Stores
    BY DEF Settled, IInv, TypeOK
<1>2. ~store.loading
    BY <1>1 DEF IInv, ScreenInv
<1>3. Shown # "toLogin" /\ Shown # "toMember"
    BY <1>1, NoneAssumption DEF IInv, ScreenInv, Paths, Public, Forms, Protected, AdminOnly
<1>4. Shown \in Paths
    BY <1>1, <1>2, <1>3, ViewCases DEF Shown
<1>5. ASSUME storage = None, ~renamed PROVE Shown \in Public /\ stream = None
    <2>1. ~store.auth
        BY <1>2, <1>5 DEF IInv, StoreMirrorsStorage
    <2>2. Shown \in Public
        BY <1>1, <1>2, <1>3, <2>1, ViewCases DEF Shown
    <2>3. ~InApp(Shown)
        BY <2>2 DEF InApp, Public, Forms, Protected, AdminOnly
    <2>4. QED BY <2>2, <2>3 DEF IInv, ScreenInv
<1>6. QED BY <1>4, <1>5

\* A tab at rest shows a page, and without a token a public one without a stream.
THEOREM TabRestsOnPage == Spec => []RestsOnPage
BY RestFromInv, Invariant, PTL

\* The form waits for a request only while it is on the screen, and for one of its
\* own; ids are never used twice, and new accounts are members.
FormInv ==
    /\ form.busy # 0 => Shown \in Forms
    /\ form.busy <= sent
    /\ \A r \in reqs :
          /\ r.id <= sent
          /\ r.kind = "register" => r.user \in Members
          /\ form.busy = r.id => (r.kind = "register" <=> Shown = "/register")

\* Where a tab that has just signed in is on its way: each screen has the
\* navigation that leads on, until the page of the role is there.
LandInv ==
    landing =>
        /\ storage # None /\ store = SignedIn(storage.user)
        /\ Shown = "/login" => next \in {Home(storage.user), "/dashboard"}
        /\ Shown = "/register" => storage.user \in Members /\ next = "/member"
        /\ Shown = "toMember" => next \in {None, "/member"}
        /\ Shown \notin Forms \cup {"toMember"} => Shown = Home(storage.user) /\ next = None

-----------------------------------------------------------------------------
(* Where a sign-in leads.                                                  *)

\* A render of another view starts a new form; the same view keeps its form.
LEMMA RenderForm ==
    ASSUME TypeOK, NEW a, NEW s, Render(Shown, a, s)
    PROVE  form'.busy = 0 \/ (form'.busy = form.busy /\ Shown' = Shown)
<1>1. Shown' = View(a, s)
    BY DEF Render, Shown
<1>2. form \in FormStates
    BY DEF TypeOK
<1>3. CASE View(a, s) # Shown
    BY <1>3 DEF Render, NewForm
<1>4. CASE View(a, s) = Shown
    BY <1>1, <1>2, <1>4 DEF Render, FormStates
<1> QED BY <1>3, <1>4

\* A step that sends nothing and keeps the form, or ends its waiting.
LEMMA FormKept ==
    ASSUME TypeOK, FormInv, reqs' \subseteq reqs, sent' = sent,
           form'.busy = 0 \/ (form'.busy = form.busy /\ Shown' = Shown)
    PROVE  FormInv'
<1>1. \A r \in reqs : r.id \in 1..MaxRequests
    BY DEF TypeOK, Requests
<1>2. sent \in 0..MaxRequests /\ MaxRequests \in Nat
    BY SessionAssumption DEF TypeOK
<1>3. CASE form'.busy = 0
    BY <1>1, <1>2, <1>3 DEF FormInv
<1>4. CASE form'.busy = form.busy /\ Shown' = Shown
    BY <1>4 DEF FormInv
<1> QED BY <1>3, <1>4

\* A reply ends the waiting of its own form only.
LEMMA ReleaseBusy ==
    ASSUME TypeOK, NEW r
    PROVE  Release(r, form) \in FormStates /\ Release(r, form).busy \in {0, form.busy}
<1>1. form \in FormStates /\ 0 \in 0..MaxRequests
    BY SessionAssumption DEF TypeOK
<1> QED BY <1>1 DEF Release, FormStates

\* A request that a form sends is the one it waits for.
LEMMA SubmitForm ==
    ASSUME TypeOK, FormInv, NEW kind, NEW u, Submit(kind, u),
           Shown \in Forms, kind = "register" <=> Shown = "/register",
           kind = "register" => u \in Members
    PROVE  FormInv'
<1>1. /\ form \in FormStates /\ sent \in Nat /\ sent' = sent + 1
      /\ form' = [form EXCEPT !.busy = sent + 1]
      /\ reqs' = reqs \cup {[id |-> sent + 1, kind |-> kind, user |-> u]}
      /\ UNCHANGED <<store, at>>
    BY SessionAssumption DEF Submit, Send, TypeOK
<1>2. form'.busy = sent + 1 /\ Shown' = Shown
    BY <1>1 DEF FormStates, Shown
<1>3. \A r \in reqs : r.id # sent + 1 /\ r.id <= sent + 1
    <2>1. \A r \in reqs : r.id \in Nat /\ r.id <= sent
        BY SessionAssumption DEF TypeOK, Requests, FormInv
    <2> QED BY <1>1, <2>1
<1>4. ASSUME NEW r \in reqs'
      PROVE  /\ r.id <= sent + 1
             /\ r.kind = "register" => r.user \in Members
             /\ sent + 1 = r.id => (r.kind = "register" <=> Shown = "/register")
    <2>1. CASE r \in reqs
        BY <1>3, <2>1 DEF FormInv
    <2>2. CASE r = [id |-> sent + 1, kind |-> kind, user |-> u]
        BY <1>1, <2>2
    <2> QED BY <1>1, <2>1, <2>2
<1> QED BY <1>1, <1>2, <1>4 DEF FormInv

\* Every step keeps the invariant of the form.
LEMMA StepForm == IInv /\ FormInv /\ [Next]_vars => FormInv'
<1> SUFFICES ASSUME IInv, FormInv, [Next]_vars PROVE FormInv'
    OBVIOUS
<1>a. TypeOK /\ sent \in Nat /\ form \in FormStates
    BY SessionAssumption DEF IInv, TypeOK
<1>b. ASSUME UNCHANGED <<form, store, at, sent>>, reqs' \subseteq reqs PROVE FormInv'
    BY <1>a, <1>b, FormKept DEF Shown
<1>1. CASE UNCHANGED vars
    BY <1>b, <1>1 DEF vars, screen, network
<1>2. CASE hydrate
    <2>1. form'.busy = 0 \/ (form'.busy = form.busy /\ Shown' = Shown)
        BY <1>2 DEF hydrate, NewForm, Shown
    <2> QED BY <1>a, <1>2, <2>1, FormKept DEF hydrate, network
<1>3. CASE OpenStream \/ Redirect
    BY <1>b, <1>3 DEF OpenStream, Redirect, network
<1>4. CASE Arrive
    BY <1>a, <1>4, RenderForm, FormKept DEF Arrive, network
<1>5. ASSUME NEW p \in Paths, Navigate(p) PROVE FormInv'
    BY <1>b, <1>5 DEF Navigate, network
<1>6. CASE Reload
    <2>1. form'.busy = 0 /\ reqs' = {} /\ sent' = sent + 1
        BY <1>6 DEF Reload, NewForm
    <2> QED BY <1>a, <2>1 DEF FormInv
<1>7. ASSUME NEW u \in Users, SubmitLogin(u) \/ SubmitRegister(u) PROVE FormInv'
    <2>1. CASE SubmitLogin(u)
        <3>1. Submit("login", u) /\ Shown = "/login"
            BY <2>1 DEF SubmitLogin
        <3>2. Shown \in Forms /\ ("login" = "register" <=> Shown = "/register")
            BY <3>1 DEF Forms
        <3> QED BY <1>a, <3>1, <3>2, SubmitForm
    <2>2. CASE SubmitRegister(u)
        <3>1. Submit("register", u) /\ Shown = "/register" /\ u \in Members
            BY <2>2 DEF SubmitRegister
        <3>2. Shown \in Forms
            BY <3>1 DEF Forms
        <3> QED BY <1>a, <3>1, <3>2, SubmitForm
    <2> QED BY <1>7, <2>1, <2>2
<1>8. CASE Submit2FA
    <2>1. Submit("verify", pending) /\ Shown = "/login"
        BY <1>8 DEF Submit2FA
    <2>2. Shown \in Forms /\ ("verify" = "register" <=> Shown = "/register")
        BY <2>1 DEF Forms
    <2> QED BY <1>a, <2>1, <2>2, SubmitForm
<1>9. CASE Back
    <2>1. form'.busy = form.busy /\ Shown' = Shown
        BY <1>a, <1>9 DEF Back, Shown, FormStates
    <2> QED BY <1>a, <1>9, <2>1, FormKept DEF Back, network
<1>10. CASE SubmitLogout \/ SubmitProfile
    <2>1. PICK kind, u :
             /\ kind \in {"logout", "profile"}
             /\ Send(kind, u) /\ UNCHANGED <<store, screen>>
        BY <1>10 DEF SubmitLogout, SubmitProfile
    <2>2. /\ sent' = sent + 1 /\ form' = form /\ Shown' = Shown
          /\ reqs' = reqs \cup {[id |-> sent + 1, kind |-> kind, user |-> u]}
        BY <2>1 DEF Send, screen, Shown
    <2>3. form.busy \in Nat /\ form.busy <= sent /\ form.busy # sent + 1
        BY <1>a, SessionAssumption DEF FormInv, FormStates
    <2>4. ASSUME NEW r \in reqs'
          PROVE  /\ r.id <= sent + 1
                 /\ r.kind = "register" => r.user \in Members
                 /\ form.busy = r.id => (r.kind = "register" <=> Shown = "/register")
        <3>1. CASE r \in reqs
            <4>1. r.id \in Nat
                BY <1>a, <3>1, SessionAssumption DEF TypeOK, Requests
            <4> QED BY <1>a, <3>1, <4>1 DEF FormInv
        <3>2. CASE r = [id |-> sent + 1, kind |-> kind, user |-> u]
            BY <1>a, <2>1, <2>3, <3>2
        <3> QED BY <2>2, <3>1, <3>2
    <2> QED BY <1>a, <2>2, <2>3, <2>4 DEF FormInv
<1>11. ASSUME NEW r \in reqs, FormFails(r) \/ Start2FA(r) PROVE FormInv'
    <2>1. Shown' = Shown /\ reqs' \subseteq reqs /\ sent' = sent
        BY <1>11 DEF FormFails, Start2FA, Answered, Shown
    <2>2. form'.busy \in {0, form.busy}
        BY <1>a, <1>11, ReleaseBusy DEF FormFails, Start2FA, FormStates
    <2> QED BY <1>a, <2>1, <2>2, FormKept
<1>12. ASSUME NEW r \in reqs, ProfileUnauthorized(r) PROVE FormInv'
    BY <1>b, <1>12 DEF ProfileUnauthorized, Answered, screen
<1>13. ASSUME NEW r \in reqs,
              LoginServed(r) \/ VerifyServed(r) \/ RegisterServed(r) \/ SignsOut(r) \/ ProfileServed(r)
       PROVE  FormInv'
    <2>1. PICK s : Render(Shown, at, s)
        BY <1>13 DEF LoginServed, VerifyServed, RegisterServed, SignsOut, ProfileServed,
                     complete2FA, login, logout, Update
    <2>2. reqs' \subseteq reqs /\ sent' = sent
        BY <1>13 DEF LoginServed, VerifyServed, RegisterServed, SignsOut, ProfileServed,
                     Issued, Answered
    <2> QED BY <1>a, <2>1, <2>2, RenderForm, FormKept
<1> QED
    BY <1>1, <1>2, <1>3, <1>4, <1>5, <1>6, <1>7, <1>8, <1>9, <1>10, <1>11, <1>12, <1>13
       DEF Next, Effect, User, Reply

\* What the tab of somebody signed in shows at the places a sign-in passes.
LEMMA SignedInViews ==
    ASSUME NEW u \in Users
    PROVE  /\ \A a \in Public : View(a, SignedIn(u)) = a
           /\ View("/member", SignedIn(u)) = "/member"
           /\ u \in Members => View("/dashboard", SignedIn(u)) = "toMember"
           /\ u \notin Members => View("/dashboard", SignedIn(u)) = "/dashboard"
           /\ \A a \in Paths : View(a, SignedIn(u)) # "toLogin"
           /\ \A a \in Paths : View(a, SignedIn(u)) = "toMember" => u \in Members
<1>1. /\ SignedIn(u).user = u /\ SignedIn(u).auth = TRUE /\ SignedIn(u).loading = FALSE
      /\ SignedIn(u) \in Stores /\ u # None
    BY SessionAssumption DEF SignedIn, Stores
<1>2. AdminRejects(SignedIn(u)) <=> u \in Members
    BY <1>1 DEF AdminRejects
<1> USE DEF Paths, Public, Forms, Protected, AdminOnly
<1>3. \A a \in Public : View(a, SignedIn(u)) = a
    BY DEF View
<1>4. View("/member", SignedIn(u)) = "/member"
    BY <1>1 DEF View
<1>5. u \in Members => View("/dashboard", SignedIn(u)) = "toMember"
    BY <1>1, <1>2 DEF View
<1>6. u \notin Members => View("/dashboard", SignedIn(u)) = "/dashboard"
    BY <1>1, <1>2 DEF View
<1>7. \A a \in Paths : /\ View(a, SignedIn(u)) # "toLogin"
                       /\ View(a, SignedIn(u)) = "toMember" => u \in Members
    BY <1>1, <1>2, ViewCases
<1> QED BY <1>3, <1>4, <1>5, <1>6, <1>7

\* A sign-in for which a form waited: the form is still there, and the handler
\* sends the tab to the page of the role.
LEMMA IssuedLands ==
    ASSUME IInv, FormInv, NEW r \in reqs, login(r), r.user \in Users, r.id \in 1..MaxRequests,
           form.busy = r.id,
           next' = IF r.kind = "register" THEN "/member" ELSE Home(r.user)
    PROVE  /\ storage' # None /\ store' = SignedIn(storage'.user)
           /\ Shown' = "/login" => next' \in {Home(storage'.user), "/dashboard"}
           /\ Shown' = "/register" => storage'.user \in Members /\ next' = "/member"
           /\ Shown' \in Forms
<1>1. storage' = [id |-> r.id, user |-> r.user] /\ store' = SignedIn(r.user) /\ at' = at
    BY DEF login, Update, Render
<1>2. storage' # None /\ storage'.user = r.user
    BY <1>1, NoneAssumption DEF Tokens
<1>3. form.busy # 0
    BY SessionAssumption
<1>4. Shown \in Forms
    BY <1>3 DEF FormInv
<1>5. at \in Paths /\ store \in Stores
    BY DEF IInv, TypeOK
<1>6. at \in Public
    BY <1>4, <1>5 DEF Shown, View, Paths, Public, Forms, Protected, AdminOnly
<1>7. Shown = at /\ Shown' = at
    <2>1. View(at, store) = at /\ View(at, SignedIn(r.user)) = at
        BY <1>5, <1>6, ViewCases, SignedInViews
    <2> QED BY <1>1, <2>1 DEF Shown
<1>8. r.kind = "register" <=> Shown = "/register"
    BY DEF FormInv
<1>9. r.kind = "register" => r.user \in Members
    BY DEF FormInv
<1>10. CASE r.kind = "register"
    BY <1>1, <1>2, <1>4, <1>7, <1>8, <1>9, <1>10
<1>11. CASE r.kind # "register"
    BY <1>1, <1>2, <1>4, <1>7, <1>8, <1>11
<1> QED BY <1>10, <1>11

\* Every step keeps a tab on its way to the page of the role.
LEMMA StepLand == IInv /\ FormInv /\ LandInv /\ [Next]_vars => LandInv'
<1> SUFFICES ASSUME IInv, FormInv, LandInv, [Next]_vars, landing' PROVE LandInv'
    BY DEF LandInv
<1>a. /\ TypeOK /\ ScreenInv /\ at \in Paths
      /\ \A r \in reqs : r \in Requests /\ NamesUser(r)
    BY DEF IInv, TypeOK
<1>b. ASSUME landing PROVE storage # None /\ storage.user \in Users /\ store = SignedIn(storage.user)
    BY <1>a, <1>b DEF LandInv, TypeOK, Tokens
<1>c. ASSUME landing, UNCHANGED <<storage, store, at, next>> PROVE LandInv'
    BY <1>c DEF LandInv, Shown
<1>1. CASE UNCHANGED vars
    BY <1>c, <1>1 DEF vars, browser, screen, past
<1>2. CASE hydrate
    <2>1. landing /\ storage # None /\ store = SignedIn(storage.user)
        BY <1>2, <1>b DEF hydrate
    <2>2. store' = store
        BY <1>2, <2>1 DEF hydrate, Hydrated
    <2> QED BY <1>2, <1>c, <2>1, <2>2 DEF hydrate, browser
<1>3. CASE OpenStream
    BY <1>3, <1>c DEF OpenStream, browser, past
<1>4. CASE Redirect
    <2>1. PICK e \in {"toLogin", "toMember", "bounce"} :
              e \in effects /\ next' = Target(e) /\ landing /\ UNCHANGED <<storage, store, at>>
        BY <1>4 DEF Redirect, Run, browser, past
    <2>2. Shown' = Shown
        BY <2>1 DEF Shown
    <2>3. Shown # "toLogin"
        BY <1>a, <1>b, <2>1, SignedInViews DEF Shown
    <2>4. \/ e = "toMember" /\ Shown = "toMember"
          \/ e = "bounce" /\ Shown \in Forms
        BY <1>a, <2>1, <2>3 DEF ScreenInv
    <2>5. CASE e = "toMember" /\ Shown = "toMember"
        <3>1. next' = "/member"
            BY <2>1, <2>5 DEF Target
        <3> QED BY <2>1, <2>2, <2>5, <3>1 DEF LandInv, Forms
    <2>6. CASE e = "bounce" /\ Shown \in Forms
        <3>1. next' = IF Shown = "/login" THEN "/dashboard" ELSE "/member"
            BY <2>1, <2>6 DEF Target
        <3>2. Shown # "toMember"
            BY <2>6 DEF Forms
        <3> QED BY <2>1, <2>2, <2>6, <3>1, <3>2 DEF LandInv, Forms
    <2> QED BY <2>4, <2>5, <2>6
<1>5. CASE Arrive
    <2>1. /\ landing /\ next # None /\ Ready /\ at' = next /\ next' = None
          /\ UNCHANGED <<storage, store>>
        BY <1>5 DEF Arrive, Render, browser, past
    <2> DEFINE u == storage.user
    <2>2. u \in Users /\ store = SignedIn(u) /\ Shown' = View(next, SignedIn(u))
        BY <1>b, <2>1 DEF Shown
    <2>3. \/ Shown = "/login" /\ next \in {Home(u), "/dashboard"}
          \/ u \in Members /\ next = "/member"
        <3>1. CASE Shown = "/login"
            BY <2>1, <3>1 DEF LandInv
        <3>2. CASE Shown = "/register"
            BY <2>1, <3>2 DEF LandInv
        <3>3. CASE Shown = "toMember"
            <4>1. u \in Members
                BY <1>a, <2>2, <3>3, SignedInViews DEF Shown
            <4> QED BY <2>1, <3>3, <4>1 DEF LandInv
        <3>4. CASE Shown \notin Forms \cup {"toMember"}
            BY <2>1, <3>4 DEF LandInv
        <3> QED BY <3>1, <3>2, <3>3, <3>4 DEF Forms
    <2>4. CASE u \in Members
        <3>1. Shown' = "/member" \/ Shown' = "toMember"
            BY <2>2, <2>3, <2>4, SignedInViews DEF Home
        <3> QED BY <1>b, <2>1, <2>2, <2>4, <3>1 DEF LandInv, Home, Forms
    <2>5. CASE u \notin Members
        <3>1. Shown' = "/dashboard"
            BY <2>2, <2>3, <2>5, SignedInViews DEF Home
        <3> QED BY <1>b, <2>1, <2>2, <2>5, <3>1 DEF LandInv, Home, Forms
    <2> QED BY <2>4, <2>5
<1>6. CASE User
    <2>1. ~landing'
        BY <1>6 DEF User, Navigate, SubmitLogin, SubmitRegister, Submit2FA, Submit, Send, Back,
                    SubmitLogout, SubmitProfile, Reload
    <2> QED BY <2>1
<1>7. ASSUME NEW r \in reqs, FormFails(r) \/ Start2FA(r) \/ ProfileUnauthorized(r) PROVE LandInv'
    BY <1>7, <1>c DEF FormFails, Start2FA, ProfileUnauthorized, browser, screen, past
<1>8. ASSUME NEW r \in reqs, LoginServed(r) \/ VerifyServed(r) \/ RegisterServed(r) PROVE LandInv'
    <2>1. r.user \in Users /\ r.id \in 1..MaxRequests
        BY <1>a, <1>8 DEF LoginServed, VerifyServed, RegisterServed, NamesUser, Requests
    <2>2. /\ login(r) /\ form.busy = r.id
          /\ next' = IF r.kind = "register" THEN "/member" ELSE Home(r.user)
        BY <1>8 DEF LoginServed, VerifyServed, RegisterServed, complete2FA, Issued
    <2>3. /\ storage' # None /\ store' = SignedIn(storage'.user)
          /\ Shown' = "/login" => next' \in {Home(storage'.user), "/dashboard"}
          /\ Shown' = "/register" => storage'.user \in Members /\ next' = "/member"
          /\ Shown' \in Forms
        BY <2>1, <2>2, IssuedLands
    <2>4. Shown' # "toMember"
        BY <2>3 DEF Forms
    <2> QED BY <2>3, <2>4 DEF LandInv, Home
<1>9. ASSUME NEW r \in reqs, SignsOut(r) \/ ProfileServed(r) PROVE LandInv'
    BY <1>9 DEF SignsOut, ProfileServed
<1> QED
    BY <1>1, <1>2, <1>3, <1>4, <1>5, <1>6, <1>7, <1>8, <1>9 DEF Next, Effect, Reply

\* Somebody who signs in from a form that is still there comes to rest on the page
\* of his role, for any users and whichever replies arrive in between.
THEOREM SignInLandsAtHome == Spec => []LandsAtHome
<1>1. Init => FormInv /\ LandInv
    <2>1. Init => form.busy = 0 /\ sent = 0 /\ reqs = {} /\ ~landing
        BY DEF Init, NewForm
    <2> QED BY <2>1 DEF FormInv, LandInv
<1>2. IInv /\ LandInv => LandsAtHome
    <2> SUFFICES ASSUME IInv, LandInv, Settled, landing PROVE Shown = Home(storage.user)
        BY DEF LandsAtHome
    <2>1. effects = {} /\ next = None
        BY DEF Settled
    <2>2. None \notin {"/login", "/member", "/dashboard"}
        BY NoneAssumption DEF Paths, Public, Forms, Protected, AdminOnly
    <2>3. Shown # "toMember"
        BY <2>1, <2>2 DEF IInv, ScreenInv
    <2>4. Shown \notin Forms
        BY <2>1, <2>2 DEF LandInv, Forms, Home
    <2> QED BY <2>3, <2>4 DEF LandInv
<1> QED BY <1>1, <1>2, Invariant, StepForm, StepLand, PTL DEF Spec

-----------------------------------------------------------------------------
(* The frame around the page: the toasts of Shell and their timers.        *)

ToastLike(t) ==
    t = [id |-> t.id, variant |-> t.variant, message |-> t.message,
         count |-> t.count, timer |-> t.timer]

Apart(ts) == \A t, u \in ts : t.id = u.id => t = u
TimersOf(ts) == {Timer(t) : t \in ts}

\* Toasts are numbered by the notices that made them, so a new one differs from
\* all that are shown; the timers are those of the toasts.
ToastInv ==
    /\ made \in Nat
    /\ \A t \in toasts : ToastLike(t) /\ t.id \in Nat /\ t.id <= made
    /\ Apart(toasts)
    /\ OneTimerPerToast

LEMMA InitToasts == ShellInit => ToastInv
BY DEF ShellInit, ToastInv, Apart, OneTimerPerToast

\* A renewed toast is a toast of the same id.
LEMMA Renewed ==
    ASSUME NEW t, ToastLike(t), NEW m, NEW k
    PROVE  [t EXCEPT !.message = m, !.count = @ + 1, !.timer = k] =
           [id |-> t.id, variant |-> t.variant, message |-> m,
            count |-> t.count + 1, timer |-> k]
<1> DEFINE Toast(message, count_, timer) ==
        [id |-> t.id, variant |-> t.variant, message |-> message,
         count |-> count_, timer |-> timer]
<1>1. t = Toast(t.message, t.count, t.timer)
  BY DEF ToastLike
<1>2. \A a, b, c, d : [Toast(a, b, c) EXCEPT !.message = d] = Toast(d, b, c)
  OBVIOUS
<1>3. \A a, b, c, d : [Toast(a, b, c) EXCEPT !.count = d] = Toast(a, d, c)
  OBVIOUS
<1>4. \A a, b, c, d : [Toast(a, b, c) EXCEPT !.timer = d] = Toast(a, b, d)
  OBVIOUS
<1> DEFINE x == [t EXCEPT !.message = m]
           y == [x EXCEPT !.count = t.count + 1]
           z == [y EXCEPT !.timer = k]
<1>5. [t EXCEPT !.message = m, !.count = @ + 1, !.timer = k] = z
  OBVIOUS
<1>6. x = Toast(m, t.count, t.timer)
  <2> HIDE DEF Toast
  <2> QED BY <1>1, <1>2
<1> HIDE DEF x
<1>7. y = Toast(m, t.count + 1, t.timer)
  <2> HIDE DEF Toast
  <2> QED BY <1>3, <1>6
<1> HIDE DEF y
<1>8. z = Toast(m, t.count + 1, k)
  <2> HIDE DEF Toast
  <2> QED BY <1>4, <1>7
<1> HIDE DEF z
<1> QED
  BY <1>5, <1>8

\* Swapping a toast for one of the same id swaps its timer, and the ids stay apart.
LEMMA SwapTimers ==
    ASSUME NEW T, NEW t \in T, NEW n, n.id = t.id, Apart(T)
    PROVE  /\ TimersOf((T \ {t}) \cup {n}) = (TimersOf(T) \ {Timer(t)}) \cup {Timer(n)}
           /\ Apart((T \ {t}) \cup {n})
<1>1. \A u \in T \ {t} : Timer(u) # Timer(t)
  BY DEF Timer, Apart
<1>2. Apart((T \ {t}) \cup {n})
  BY DEF Apart
<1> HIDE DEF Timer
<1> QED
  BY <1>1, <1>2 DEF TimersOf

\* A notice renews one toast and its timer, or brings a toast and a timer.
LEMMA AddKeeps ==
    ASSUME NEW m, NEW v, ToastInv, AddToast(m, v)
    PROVE  ToastInv'
<1>1. /\ made \in Nat /\ made' = made + 1
      /\ \A t \in toasts : ToastLike(t) /\ t.id \in Nat /\ t.id <= made
      /\ Apart(toasts) /\ timers = TimersOf(toasts)
  BY DEF ToastInv, AddToast, OneTimerPerToast, TimersOf
<1>2. ASSUME NEW n, ToastLike(n), n.id \in Nat, n.id <= made + 1,
             toasts' \subseteq toasts \cup {n},
             Apart(toasts'), timers' = TimersOf(toasts')
      PROVE  ToastInv'
  <2>1. \A t \in toasts' : ToastLike(t) /\ t.id \in Nat /\ t.id <= made + 1
    <3>1. ASSUME NEW t \in toasts PROVE t.id <= made + 1
      BY <1>1
    <3> QED
      BY <1>1, <1>2, <3>1
  <2>2. made' \in Nat /\ \A t \in toasts' : ToastLike(t) /\ t.id \in Nat /\ t.id <= made'
    BY <1>1, <2>1
  <2> QED
    BY <1>2, <2>2 DEF ToastInv, OneTimerPerToast, ToastLike, Apart, TimersOf, Timer
<1>3. CASE \E t \in toasts :
             /\ toasts' = (toasts \ {t}) \cup
                   {[t EXCEPT !.message = m, !.count = @ + 1, !.timer = made + 1]}
             /\ timers' = MergedTimers(t)
  <2>1. PICK t \in toasts :
             /\ toasts' = (toasts \ {t}) \cup
                   {[t EXCEPT !.message = m, !.count = @ + 1, !.timer = made + 1]}
             /\ timers' = MergedTimers(t)
    BY <1>3
  <2> DEFINE n == [t EXCEPT !.message = m, !.count = @ + 1, !.timer = made + 1]
  <2>2. n = [id |-> t.id, variant |-> t.variant, message |-> m,
             count |-> t.count + 1, timer |-> made + 1]
    BY <1>1, Renewed
  <2>3. ToastLike(n) /\ n.id = t.id /\ Timer(n) = [timer |-> made + 1, toast |-> t.id]
    BY <2>2 DEF ToastLike, Timer
  <2>4. toasts' = (toasts \ {t}) \cup {n}
    BY <2>1
  <2>5. timers' = (timers \ {Timer(t)}) \cup {Timer(n)}
    BY <2>1, <2>3 DEF MergedTimers
  <2> HIDE DEF n
  <2>6. timers' = TimersOf(toasts') /\ Apart(toasts')
    BY <1>1, <2>3, <2>4, <2>5, SwapTimers
  <2>7. n.id \in Nat /\ n.id <= made + 1
    BY <1>1, <2>3
  <2> QED
    BY <1>2, <2>3, <2>4, <2>6, <2>7
<1>4. CASE /\ toasts' = toasts \cup {[id |-> made + 1, variant |-> v, message |-> m,
                                      count |-> 1, timer |-> made + 1]}
           /\ timers' = timers \cup {[timer |-> made + 1, toast |-> made + 1]}
  <2> DEFINE n == [id |-> made + 1, variant |-> v, message |-> m,
                   count |-> 1, timer |-> made + 1]
  <2>1. ToastLike(n) /\ n.id = made + 1 /\ Timer(n) = [timer |-> made + 1, toast |-> made + 1]
    BY DEF ToastLike, Timer
  <2>2. toasts' = toasts \cup {n} /\ timers' = timers \cup {Timer(n)}
    BY <1>4, <2>1
  <2> HIDE DEF n
  <2>3. timers' = TimersOf(toasts')
    BY <1>1, <2>2 DEF TimersOf
  <2>4. \A u \in toasts : u.id # n.id
    BY <1>1, <2>1
  <2>5. Apart(toasts')
    BY <1>1, <2>2, <2>4 DEF Apart
  <2>6. n.id \in Nat /\ n.id <= made + 1
    BY <1>1, <2>1
  <2> QED
    BY <1>2, <2>1, <2>2, <2>3, <2>5, <2>6
<1> QED
  BY <1>3, <1>4 DEF AddToast

\* Toasts that leave together with their timers, and nothing else, keep it.
LEMMA LeaveKeeps ==
    ASSUME NEW ts, NEW xs, ToastInv, ts \subseteq toasts,
           xs = {Timer(t) : t \in ts}, Leave(ts, xs)
    PROVE  ToastInv'
<1> USE DEF ToastInv, Apart, Leave, OneTimerPerToast, Timer
<1>1. timers' = {Timer(u) : u \in toasts'}
  OBVIOUS
<1> QED
  BY <1>1

LEMMA RemoveKeeps ==
    ASSUME NEW ts, ToastInv, ts \subseteq toasts, removeToast(ts)
    PROVE  ToastInv'
BY LeaveKeeps DEF removeToast

LEMMA OutsideShown == Outside \subseteq toasts
BY DEF Outside, Newest

\* A timer that fires is that of one toast, which leaves.
LEMMA ExpireKeeps ==
    ASSUME NEW x \in timers, ToastInv, Expire(x)
    PROVE  ToastInv'
<1>1. PICK t \in toasts : x = Timer(t)
  BY DEF ToastInv, OneTimerPerToast
<1> DEFINE ts == {u \in toasts : u.id = x.toast}
<1>2. ts = {t}
  BY <1>1 DEF ToastInv, Apart, Timer
<1>3. {x} = {Timer(u) : u \in ts}
  BY <1>1, <1>2
<1>4. Leave(ts, {x})
  BY DEF Expire
<1> QED
  BY <1>3, <1>4, LeaveKeeps

LEMMA NextToasts == ToastInv /\ [ShellNext]_shellVars => ToastInv'
<1> SUFFICES ASSUME ToastInv, [ShellNext]_shellVars PROVE ToastInv'
  OBVIOUS
<1> DEFINE Unmoved == toasts' = toasts /\ timers' = timers /\ made' = made
<1>1. ASSUME Unmoved PROVE ToastInv'
  BY <1>1 DEF ToastInv, Apart, OneTimerPerToast
<1>2. ASSUME OutsideDismisses PROVE ToastInv'
  BY <1>2, OutsideShown, RemoveKeeps DEF OutsideDismisses
<1>3. CASE \E m \in Messages, v \in Variants : Notify(m, v)
  BY <1>3, AddKeeps DEF Notify
<1>4. CASE Arm \/ ShowMore
  BY <1>1, <1>4 DEF Arm, ShowMore
<1>5. CASE DismissAll
  BY <1>5, RemoveKeeps DEF DismissAll
<1>6. CASE \E x \in timers : Expire(x)
  BY <1>6, ExpireKeeps
<1>7. CASE \E t \in toasts : Dismiss(t)
  <2>1. PICK t \in toasts : removeToast({t})
    BY <1>7 DEF Dismiss
  <2> QED
    BY <2>1, RemoveKeeps
<1>8. CASE ClickBell \/ ClickMenu \/ ClickElsewhere \/ ToggleSidebar \/ handleNavClick
  BY <1>2, <1>8 DEF ClickBell, ClickMenu, ClickElsewhere, ToggleSidebar, handleNavClick
<1>9. CASE ClickClear
  BY <1>9, OutsideShown, LeaveKeeps DEF ClickClear
<1>10. CASE Refresh
  BY <1>1, <1>10 DEF Refresh, notices
<1>11. CASE \E n \in 0..MaxFlags : Counted(n)
  <2>1. AddToast(FlagMessage, "warning") \/ UNCHANGED notices
    BY <1>11 DEF Counted
  <2>2. UNCHANGED notices => Unmoved
    BY DEF notices
  <2> QED
    BY <1>1, <2>1, <2>2, AddKeeps
<1>12. CASE UNCHANGED shellVars
  BY <1>1, <1>12 DEF shellVars, notices
<1> QED
  BY <1>3, <1>4, <1>5, <1>6, <1>7, <1>8, <1>9, <1>10, <1>11, <1>12 DEF ShellNext

\* The running timers are those of the toasts on the screen, one each, whatever is
\* merged, dismissed, cleared or expires in whatever order.
THEOREM ToastsHaveTheirTimers == ShellSpec => []OneTimerPerToast
<1>1. ToastInv => OneTimerPerToast
  BY DEF ToastInv
<1> QED
  BY <1>1, InitToasts, NextToasts, PTL DEF ShellSpec

-----------------------------------------------------------------------------
(* How many notices stand behind toasts or entries.                        *)

\* The notices of one toast or entry.
Slice(x, n) == {x} \X (1..n)
CountAt(f, x) == IF x \in DOMAIN f THEN f[x].count ELSE 0

LEMMA SliceSize ==
    ASSUME NEW x, NEW n \in Nat
    PROVE  IsFiniteSet(Slice(x, n)) /\ Cardinality(Slice(x, n)) = n
<1>1. IsFiniteSet(1..n) /\ Cardinality(1..n) = n
  <2>1. 1 \in Int /\ n \in Int
    OBVIOUS
  <2>2. IsFiniteSet(1..n) /\ Cardinality(1..n) = IF 1 > n THEN 0 ELSE n - 1 + 1
    BY <2>1, FS_Interval
  <2> QED
    BY <2>2
<1>2. IsFiniteSet({x}) /\ Cardinality({x}) = 1
  BY FS_Singleton
<1>3. IsFiniteSet({x} \X (1..n)) /\ Cardinality({x} \X (1..n)) = 1 * n
  BY <1>1, <1>2, FS_Product
<1> QED
  BY <1>3 DEF Slice

\* What is behind f, element by element.
LEMMA BehindElements ==
    ASSUME NEW f
    PROVE  \A p : p \in Behind(f) <=>
                \E x \in DOMAIN f : \E k \in 1..f[x].count : p = <<x, k>>
BY DEF Behind

\* The size of a set after one part of it is replaced.
LEMMA Replaced ==
    ASSUME NEW B, IsFiniteSet(B), NEW S, S \subseteq B,
           NEW U, IsFiniteSet(U), U \cap (B \ S) = {}
    PROVE  /\ IsFiniteSet((B \ S) \cup U)
           /\ Cardinality((B \ S) \cup U) = Cardinality(B) - Cardinality(S) + Cardinality(U)
<1>1. IsFiniteSet(B \ S) /\ Cardinality(B \ S) = Cardinality(B) - Cardinality(B \cap S)
  BY FS_Difference
<1>2. B \cap S = S
  OBVIOUS
<1>3. /\ IsFiniteSet((B \ S) \cup U)
      /\ Cardinality((B \ S) \cup U) =
            Cardinality(B \ S) + Cardinality(U) - Cardinality((B \ S) \cap U)
  BY <1>1, FS_Union
<1>4. Cardinality((B \ S) \cap U) = 0
  <2>1. (B \ S) \cap U = {}
    OBVIOUS
  <2> QED
    BY <2>1, FS_EmptySet
<1>5. IsFiniteSet(S)
  BY FS_Subset
<1>6. Cardinality(B) \in Nat /\ Cardinality(S) \in Nat /\ Cardinality(U) \in Nat
  BY <1>5, FS_CardinalityType
<1>7. Cardinality(B \ S) = Cardinality(B) - Cardinality(S)
  BY <1>1, <1>2
<1>8. Cardinality((B \ S) \cup U) = Cardinality(B \ S) + Cardinality(U) - 0
  BY <1>3, <1>4
<1> QED
  BY <1>3, <1>6, <1>7, <1>8

\* Where f and g count the same except at x, the totals differ by the counts at x.
LEMMA TotalAt ==
    ASSUME NEW f, NEW g, NEW x, IsFiniteSet(Behind(f)),
           \A y : y # x => (y \in DOMAIN f <=> y \in DOMAIN g),
           \A y \in DOMAIN f : y # x => g[y].count = f[y].count,
           CountAt(f, x) \in Nat, CountAt(g, x) \in Nat
    PROVE  /\ IsFiniteSet(Behind(g))
           /\ Total(g) = Total(f) - CountAt(f, x) + CountAt(g, x)
<1> DEFINE S == Slice(x, CountAt(f, x))
           U == Slice(x, CountAt(g, x))
           B == Behind(f)
<1>1. \A h, p : CountAt(h, x) \in Nat =>
          (p \in Slice(x, CountAt(h, x)) <=>
              \E y \in DOMAIN h : y = x /\ \E k \in 1..h[y].count : p = <<y, k>>)
  BY DEF Slice, CountAt
<1>2. S \subseteq B
  BY <1>1, BehindElements
<1>3. U \cap (B \ S) = {}
  <2>1. ASSUME NEW p \in U, p \in B PROVE p \in S
    <3>1. p[1] = x
      BY <2>1 DEF Slice
    <3>2. PICK y \in DOMAIN f : \E k \in 1..f[y].count : p = <<y, k>>
      BY <2>1, BehindElements
    <3>3. y = x
      BY <3>1, <3>2
    <3> HIDE DEF U, B
    <3> QED
      BY <1>1, <3>2, <3>3
  <2> QED
    BY <2>1
<1>4. Behind(g) = (B \ S) \cup U
  <2>1. ASSUME NEW p \in Behind(g) PROVE p \in (B \ S) \cup U
    <3>1. PICK y \in DOMAIN g : \E k \in 1..g[y].count : p = <<y, k>>
      BY BehindElements
    <3>2. CASE y = x
      <4>1. p \in U
        BY <1>1, <3>1, <3>2
      <4> QED
        BY <4>1
    <3>3. CASE y # x
      <4>1. y \in DOMAIN f /\ f[y].count = g[y].count
        BY <3>3
      <4>2. p \in B
        BY <3>1, <4>1, BehindElements
      <4>3. p \notin S
        BY <3>1, <3>3 DEF Slice
      <4> QED
        BY <4>2, <4>3
    <3> QED
      BY <3>2, <3>3
  <2>2. ASSUME NEW p \in B, p \notin S PROVE p \in Behind(g)
    <3>1. PICK y \in DOMAIN f : \E k \in 1..f[y].count : p = <<y, k>>
      BY BehindElements
    <3>2. y # x
      BY <1>1, <2>2, <3>1
    <3>3. y \in DOMAIN g /\ f[y].count = g[y].count
      BY <3>2
    <3> QED
      BY <3>1, <3>3, BehindElements
  <2>3. U \subseteq Behind(g)
    BY <1>1, BehindElements
  <2> HIDE DEF B, S, U
  <2> QED
    BY <2>1, <2>2, <2>3
<1>5. /\ IsFiniteSet(U) /\ Cardinality(U) = CountAt(g, x)
      /\ Cardinality(S) = CountAt(f, x)
  BY SliceSize
<1>6. IsFiniteSet(B)
  OBVIOUS
<1> HIDE DEF B, S, U
<1>7. /\ IsFiniteSet(Behind(g))
      /\ Cardinality(Behind(g)) = Cardinality(B) - Cardinality(S) + Cardinality(U)
  BY <1>2, <1>3, <1>4, <1>5, <1>6, Replaced
<1> QED
  BY <1>5, <1>7 DEF Total, B

\* Dropping the head of a sequence drops its count.
LEMMA TotalTail ==
    ASSUME NEW s \in Seq(Entries), s # <<>>, IsFiniteSet(Behind(s))
    PROVE  /\ IsFiniteSet(Behind(Tail(s)))
           /\ Total(s) = Head(s).count + Total(Tail(s))
<1> DEFINE c == Head(s).count
           B == Behind(s)
           C == Behind(Tail(s))
           D == B \ Slice(1, c)
<1>1. /\ Len(s) \in Nat /\ DOMAIN s = 1..Len(s)
      /\ Tail(s) \in Seq(Entries) /\ Len(Tail(s)) = Len(s) - 1
      /\ \A i \in 1..Len(Tail(s)) : Tail(s)[i] = s[i + 1]
  BY HeadTailProperties, LenProperties
<1>2. DOMAIN Tail(s) = 1..(Len(s) - 1)
  BY <1>1, LenProperties
<1>3. Len(s) >= 1 /\ Head(s) = s[1] /\ c \in Nat
  <2>1. Head(s) \in Entries
    BY HeadTailProperties
  <2>2. Len(s) \in Nat \ {0}
    BY EmptySeq
  <2>3. Head(s) = s[1]
    OBVIOUS
  <2> HIDE DEF c
  <2>4. c \in Nat
    BY <2>1 DEF Entries, c
  <2> QED
    BY <2>2, <2>3, <2>4
<1>4. \A p : p \in B <=> \E i \in 1..Len(s) : \E k \in 1..s[i].count : p = <<i, k>>
  BY <1>1, BehindElements
<1>5. \A p : p \in C <=> \E i \in 1..(Len(s) - 1) : \E k \in 1..s[i + 1].count : p = <<i, k>>
  <2>1. \A p : p \in C <=> \E i \in 1..(Len(s) - 1) : \E k \in 1..Tail(s)[i].count : p = <<i, k>>
    <3> DEFINE w == Tail(s)
    <3>1. \A p : p \in Behind(w) <=>
              \E i \in DOMAIN w : \E k \in 1..w[i].count : p = <<i, k>>
      BY BehindElements
    <3> QED
      BY <1>2, <3>1
  <2> QED
    BY <1>1, <2>1
<1>6. Slice(1, c) \subseteq B /\ Cardinality(Slice(1, c)) = c
  <2>1. Slice(1, c) \subseteq B
    BY <1>3, <1>4 DEF Slice
  <2> QED
    BY <1>3, <2>1, SliceSize
<1>7. \A p : p \in D <=> \E i \in 2..Len(s) : \E k \in 1..s[i].count : p = <<i, k>>
  <2> HIDE DEF B, c
  <2>1. \A p : p \in Slice(1, c) <=> \E k \in 1..c : p = <<1, k>>
    BY DEF Slice
  <2>2. \A i \in 1..Len(s) : i = 1 \/ i \in 2..Len(s)
    BY <1>1
  <2> QED
    BY <1>1, <1>3, <1>4, <2>1, <2>2 DEF c
<1> HIDE DEF c, B, C
<1> DEFINE h == [p \in D |-> <<p[1] - 1, p[2]>>]
<1>8. h \in Bijection(D, C)
  <2>1. h \in [D -> C]
    <3>1. ASSUME NEW p \in D PROVE <<p[1] - 1, p[2]>> \in C
      <4>1. PICK i \in 2..Len(s) : \E k \in 1..s[i].count : p = <<i, k>>
        BY <1>7
      <4>2. i - 1 \in 1..(Len(s) - 1) /\ (i - 1) + 1 = i
        BY <1>1
      <4> QED
        BY <1>5, <4>1, <4>2
    <3> HIDE DEF D
    <3> QED
      BY <3>1
  <2>2. ASSUME NEW p \in D, NEW q \in D, h[p] = h[q] PROVE p = q
    <3>1. PICK i \in 2..Len(s) : \E k \in 1..s[i].count : p = <<i, k>>
      BY <1>7
    <3>2. PICK j \in 2..Len(s) : \E k \in 1..s[j].count : q = <<j, k>>
      BY <1>7
    <3> HIDE DEF D
    <3>3. i - 1 = j - 1 /\ p[2] = q[2]
      BY <2>2, <3>1, <3>2
    <3> QED
      BY <1>1, <3>1, <3>2, <3>3
  <2>3. ASSUME NEW q \in C PROVE \E p \in D : h[p] = q
    <3>0. PICK i \in 1..(Len(s) - 1) : \E k \in 1..s[i + 1].count : q = <<i, k>>
      BY <1>5
    <3>1. PICK k \in 1..s[i + 1].count : q = <<i, k>>
      BY <3>0
    <3>2. i + 1 \in 2..Len(s) /\ (i + 1) - 1 = i
      BY <1>1
    <3>3. <<i + 1, k>> \in D
      BY <1>7, <3>2
    <3> HIDE DEF D
    <3>4. h[<<i + 1, k>>] = q
      BY <3>1, <3>2, <3>3
    <3> QED
      BY <3>3, <3>4
  <2> HIDE DEF h, D
  <2> QED
    BY <2>1, <2>2, <2>3, Fun_IsBij
<1>9. IsFiniteSet(B)
  BY DEF B
<1>10. IsFiniteSet(D) /\ Cardinality(D) = Cardinality(B) - c
  <2>1. IsFiniteSet(D) /\ Cardinality(D) = Cardinality(B) - Cardinality(B \cap Slice(1, c))
    BY <1>9, FS_Difference
  <2>2. B \cap Slice(1, c) = Slice(1, c)
    BY <1>6
  <2> QED
    BY <1>6, <2>1, <2>2
<1>11. IsFiniteSet(C) /\ Cardinality(C) = Cardinality(D)
  <2> HIDE DEF D, h
  <2>1. ExistsBijection(D, C)
    BY <1>8 DEF ExistsBijection
  <2> QED
    BY <1>10, <2>1, FS_Bijection
<1>12. Cardinality(B) \in Nat
  BY <1>9, FS_CardinalityType
<1> QED
  BY <1>3, <1>10, <1>11, <1>12 DEF Total, B, C, c

-----------------------------------------------------------------------------
(* The history: what a merge, a new entry and a drop do to it.             *)

\* Entries of the history that neither describe the same notice nor share an id.
NoTwins(s) == \A i, j \in DOMAIN s : Same(s[i], s[j]) \/ s[i].id = s[j].id => i = j
WellKept(s) == s \in Seq(Entries) /\ NoTwins(s) /\ IsFiniteSet(Behind(s))

\* Merging adds the count to the one entry of the same notice.
LEMMA MergeList ==
    ASSUME NEW s, WellKept(s), NEW t, t.count \in Nat,
           NEW k \in DOMAIN s, Same(s[k], t)
    PROVE  /\ WellKept(Merged(s, t)) /\ Len(Merged(s, t)) = Len(s)
           /\ Listed(Merged(s, t)) = Listed(s)
           /\ Total(Merged(s, t)) = Total(s) + t.count
<1> DEFINE w == Merged(s, t)
           e == [id |-> s[k].id, variant |-> s[k].variant, message |-> s[k].message,
                 count |-> s[k].count + t.count]
<1>1. /\ Len(s) \in Nat /\ DOMAIN s = 1..Len(s) /\ s \in Seq(Entries)
      /\ \A i \in 1..Len(s) : s[i] \in Entries
  BY LenProperties, ElementOfSeq DEF WellKept
<1>2. [s[k] EXCEPT !.count = @ + t.count] = e
  BY <1>1 DEF Entries
<1>3. e \in Entries
  BY <1>1 DEF Entries
<1>4. \A i \in DOMAIN s : i # k => ~Same(s[i], t)
  BY DEF WellKept, NoTwins, Same
<1>5. w = [s EXCEPT ![k] = e]
  <2>1. \A i \in DOMAIN s :
            (IF Same(s[i], t) THEN [s[i] EXCEPT !.count = @ + t.count] ELSE s[i]) =
            IF i = k THEN e ELSE s[i]
    <3> HIDE DEF e
    <3> QED
      BY <1>2, <1>4
  <2>2. w = [i \in DOMAIN s |-> IF i = k THEN e ELSE s[i]]
    <3> HIDE DEF e
    <3> QED
      BY <2>1 DEF Merged
  <2>3. [s EXCEPT ![k] = e] = [i \in DOMAIN s |-> IF i = k THEN e ELSE s[i]]
    <3> HIDE DEF e
    <3> QED
      BY <1>1
  <2> QED
    BY <2>2, <2>3
<1>6. e.id = s[k].id /\ e.variant = s[k].variant /\ e.message = s[k].message
      /\ e.count = s[k].count + t.count
  OBVIOUS
<1> HIDE DEF w, e
<1>7. /\ w \in Seq(Entries) /\ Len(w) = Len(s)
      /\ \A i \in 1..Len(s) : w[i] = IF i = k THEN e ELSE s[i]
  BY <1>1, <1>3, <1>5, ExceptSeq
<1>8. DOMAIN w = 1..Len(s)
  BY <1>7, LenProperties
<1>9. \A i \in 1..Len(s) : /\ w[i].id = s[i].id /\ w[i].variant = s[i].variant
                           /\ w[i].message = s[i].message
  BY <1>6, <1>7
<1>10. NoTwins(w)
  BY <1>1, <1>8, <1>9 DEF WellKept, NoTwins, Same
<1>11. Listed(w) = Listed(s)
  BY <1>1, <1>8, <1>9 DEF Listed
<1>12. IsFiniteSet(Behind(w)) /\ Total(w) = Total(s) + t.count
  <2>1. s[k].count \in Nat
    BY <1>1 DEF Entries
  <2>2. /\ CountAt(s, k) = s[k].count
        /\ CountAt(w, k) = s[k].count + t.count
    BY <1>1, <1>6, <1>7, <1>8 DEF CountAt
  <2>3. /\ \A y : y # k => (y \in DOMAIN s <=> y \in DOMAIN w)
        /\ \A y \in DOMAIN s : y # k => w[y].count = s[y].count
    BY <1>1, <1>7, <1>8
  <2>4. CountAt(s, k) \in Nat /\ CountAt(w, k) \in Nat
    BY <2>1, <2>2
  <2>5. IsFiniteSet(Behind(s))
    BY DEF WellKept
  <2>6. /\ IsFiniteSet(Behind(w))
        /\ Total(w) = Total(s) - CountAt(s, k) + CountAt(w, k)
    BY <2>3, <2>4, <2>5, TotalAt
  <2>7. Total(s) \in Nat
    BY <2>5, FS_CardinalityType DEF Total
  <2> QED
    BY <2>1, <2>2, <2>6, <2>7
<1> QED
  BY <1>7, <1>10, <1>11, <1>12 DEF w, WellKept

\* An entry of another notice and with a new id is added at the end.
LEMMA AppendList ==
    ASSUME NEW s, WellKept(s), NEW e \in Entries,
           \A i \in DOMAIN s : ~Same(s[i], e) /\ s[i].id # e.id
    PROVE  /\ WellKept(Append(s, e)) /\ Len(Append(s, e)) = Len(s) + 1
           /\ Listed(Append(s, e)) = Listed(s) \cup {e.id}
           /\ Total(Append(s, e)) = Total(s) + e.count
<1> DEFINE w == Append(s, e)
           n == Len(s) + 1
<1>1. s \in Seq(Entries) /\ Len(s) \in Nat /\ DOMAIN s = 1..Len(s)
  BY LenProperties DEF WellKept
<1>2. /\ w \in Seq(Entries) /\ Len(w) = n
      /\ \A i \in 1..Len(s) : w[i] = s[i]
      /\ w[n] = e
  BY <1>1, AppendProperties
<1> HIDE DEF w
<1>3. DOMAIN w = 1..n
  BY <1>2, LenProperties
<1>4. /\ \A i \in 1..n : i \in 1..Len(s) \/ i = n
      /\ n \in 1..n /\ n \notin 1..Len(s) /\ 1..Len(s) \subseteq 1..n
  BY <1>1
<1>5. NoTwins(w)
  <2>1. \A i \in DOMAIN s : ~Same(e, s[i])
    BY DEF Same
  <2> HIDE DEF n
  <2> QED
    BY <1>1, <1>2, <1>3, <1>4, <2>1 DEF WellKept, NoTwins
<1>6. Listed(w) = Listed(s) \cup {e.id}
  <2> HIDE DEF n
  <2> QED
    BY <1>1, <1>2, <1>3, <1>4 DEF Listed
<1>7. IsFiniteSet(Behind(w)) /\ Total(w) = Total(s) + e.count
  <2>1. e.count \in Nat
    BY DEF Entries
  <2> HIDE DEF n
  <2>2. CountAt(s, n) = 0 /\ CountAt(w, n) = e.count
    BY <1>1, <1>2, <1>3, <1>4 DEF CountAt
  <2>3. /\ \A y : y # n => (y \in DOMAIN s <=> y \in DOMAIN w)
        /\ \A y \in DOMAIN s : y # n => w[y].count = s[y].count
    BY <1>1, <1>2, <1>3, <1>4
  <2>4. CountAt(s, n) \in Nat /\ CountAt(w, n) \in Nat
    BY <2>1, <2>2
  <2>5. IsFiniteSet(Behind(s))
    BY DEF WellKept
  <2>6. /\ IsFiniteSet(Behind(w))
        /\ Total(w) = Total(s) - CountAt(s, n) + CountAt(w, n)
    BY <2>3, <2>4, <2>5, TotalAt
  <2>7. Total(s) \in Nat
    BY <2>5, FS_CardinalityType DEF Total
  <2> QED
    BY <2>1, <2>2, <2>6, <2>7
<1> QED
  BY <1>2, <1>5, <1>6, <1>7 DEF w, WellKept

\* The oldest entry is dropped with its count.
LEMMA TailList ==
    ASSUME NEW s, WellKept(s), s # <<>>
    PROVE  /\ WellKept(Tail(s)) /\ Len(Tail(s)) = Len(s) - 1
           /\ Listed(Tail(s)) \subseteq Listed(s)
           /\ Head(s).count \in Nat
           /\ Total(s) = Head(s).count + Total(Tail(s))
<1>1. s \in Seq(Entries) /\ IsFiniteSet(Behind(s))
  BY DEF WellKept
<1>2. IsFiniteSet(Behind(Tail(s))) /\ Total(s) = Head(s).count + Total(Tail(s))
  BY <1>1, TotalTail
<1> DEFINE w == Tail(s)
<1>3. /\ Len(s) \in Nat /\ DOMAIN s = 1..Len(s)
      /\ w \in Seq(Entries) /\ Len(w) = Len(s) - 1
      /\ \A i \in 1..Len(w) : w[i] = s[i + 1]
      /\ Head(s) \in Entries
  BY <1>1, HeadTailProperties, LenProperties
<1> HIDE DEF w
<1>4. DOMAIN w = 1..(Len(s) - 1)
  BY <1>3, LenProperties
<1>5. \A i \in DOMAIN w : i + 1 \in DOMAIN s /\ w[i] = s[i + 1]
  BY <1>3, <1>4
<1>6. \A i, j \in DOMAIN w : i + 1 = j + 1 => i = j
  BY <1>4
<1>7. NoTwins(w)
  BY <1>5, <1>6 DEF WellKept, NoTwins
<1>8. Listed(w) \subseteq Listed(s)
  BY <1>5 DEF Listed
<1>9. Head(s).count \in Nat
  BY <1>3 DEF Entries
<1> QED
  BY <1>2, <1>3, <1>7, <1>8, <1>9 DEF w, WellKept

Toasts == [id : Ids, variant : Variants, message : Messages, count : Nat, timer : Ids]

\* A push keeps the history within its limit, and the notices that it drops go
\* into gone.
LEMMA PushOne ==
    ASSUME NEW r, r \in [list : Seq(Entries), gone : Nat], NEW t \in Toasts,
           WellKept(r.list), Len(r.list) <= MaxHistory, t.id \notin Listed(r.list)
    PROVE  /\ Push(r, t) \in [list : Seq(Entries), gone : Nat]
           /\ WellKept(Push(r, t).list) /\ Len(Push(r, t).list) <= MaxHistory
           /\ Listed(Push(r, t).list) \subseteq Listed(r.list) \cup {t.id}
           /\ Total(Push(r, t).list) + Push(r, t).gone = Total(r.list) + r.gone + t.count
<1> DEFINE s == r.list
           e == [id |-> t.id, variant |-> t.variant, message |-> t.message,
                 count |-> t.count]
           new == Append(s, e)
<1>1. /\ t.count \in Nat /\ e \in Entries
      /\ e.id = t.id /\ e.variant = t.variant /\ e.message = t.message /\ e.count = t.count
  BY DEF Toasts, Entries
<1> HIDE DEF e
<1>2. /\ s \in Seq(Entries) /\ IsFiniteSet(Behind(s)) /\ r.gone \in Nat
      /\ Len(s) \in Nat /\ DOMAIN s = 1..Len(s)
  <2>1. s \in Seq(Entries) /\ IsFiniteSet(Behind(s)) /\ r.gone \in Nat
    BY DEF WellKept
  <2> QED
    BY <2>1, LenProperties
<1>3. Total(s) \in Nat
  BY <1>2, FS_CardinalityType DEF Total
<1>4. MaxHistory \in Nat
  BY ShellAssumption DEF ShellAssumption
<1>5. \A x, y : [r EXCEPT !.list = x] = [list |-> x, gone |-> r.gone]
  OBVIOUS
<1>6. CASE \E i \in DOMAIN s : Same(s[i], t)
  <2>1. PICK k \in DOMAIN s : Same(s[k], t)
    BY <1>6
  <2> DEFINE w == Merged(s, t)
  <2>2. Push(r, t) = [list |-> w, gone |-> r.gone]
    BY <1>5, <1>6 DEF Push
  <2>3. /\ WellKept(w) /\ Len(w) = Len(s) /\ Listed(w) = Listed(s)
        /\ Total(w) = Total(s) + t.count
    <3> HIDE DEF s
    <3>1. WellKept(s)
      BY DEF s
    <3> QED
      BY <1>1, <2>1, <3>1, MergeList
  <2> HIDE DEF w
  <2>4. w \in Seq(Entries)
    BY <2>3 DEF WellKept
  <2>5. Push(r, t).list = w /\ Push(r, t).gone = r.gone
    BY <2>2
  <2>6. Push(r, t) \in [list : Seq(Entries), gone : Nat]
    BY <1>2, <2>2, <2>4
  <2> QED
    BY <1>1, <1>2, <1>3, <2>3, <2>5, <2>6
<1>7. CASE ~ \E i \in DOMAIN s : Same(s[i], t)
  <2>1. \A i \in DOMAIN s : ~Same(s[i], e) /\ s[i].id # e.id
    BY <1>1, <1>7 DEF Same, Listed
  <2>2. /\ WellKept(new) /\ Len(new) = Len(s) + 1
        /\ Listed(new) = Listed(s) \cup {t.id} /\ Total(new) = Total(s) + t.count
    <3> HIDE DEF s
    <3>1. WellKept(s)
      BY DEF s
    <3>2. /\ WellKept(Append(s, e)) /\ Len(Append(s, e)) = Len(s) + 1
          /\ Listed(Append(s, e)) = Listed(s) \cup {e.id}
          /\ Total(Append(s, e)) = Total(s) + e.count
      BY <1>1, <2>1, <3>1, AppendList
    <3> QED
      BY <1>1, <3>2
  <2>3. Push(r, t) = IF Len(new) > MaxHistory
                     THEN [list |-> Tail(new), gone |-> r.gone + Head(new).count]
                     ELSE [list |-> new, gone |-> r.gone]
    BY <1>5, <1>7 DEF Push, e
  <2> HIDE DEF new
  <2>4. CASE Len(new) > MaxHistory
    <3>1. new # <<>>
      <4>1. Len(new) # 0
        BY <1>2, <2>2
      <4> QED
        BY <4>1, EmptySeq
    <3> DEFINE w == Tail(new)
               c == Head(new).count
    <3>2. /\ WellKept(w) /\ Len(w) = Len(new) - 1 /\ Listed(w) \subseteq Listed(new)
          /\ c \in Nat /\ Total(new) = c + Total(w)
      BY <2>2, <3>1, TailList
    <3>3. Push(r, t) = [list |-> w, gone |-> r.gone + c]
      BY <2>3, <2>4
    <3> HIDE DEF w, c
    <3>4. w \in Seq(Entries) /\ IsFiniteSet(Behind(w))
      BY <3>2 DEF WellKept
    <3>5. Total(w) \in Nat
      BY <3>4, FS_CardinalityType DEF Total
    <3>6. Push(r, t).list = w /\ Push(r, t).gone = r.gone + c
      BY <3>3
    <3>7. Push(r, t) \in [list : Seq(Entries), gone : Nat]
      BY <1>2, <3>2, <3>3, <3>4
    <3> QED
      BY <1>1, <1>2, <1>3, <1>4, <2>2, <3>2, <3>5, <3>6, <3>7
  <2>5. CASE ~(Len(new) > MaxHistory)
    <3>1. Push(r, t) = [list |-> new, gone |-> r.gone]
      BY <2>3, <2>5
    <3>2. Push(r, t).list = new /\ Push(r, t).gone = r.gone
      BY <3>1
    <3>3. new \in Seq(Entries) /\ Push(r, t) \in [list : Seq(Entries), gone : Nat]
      BY <1>2, <2>2, <3>1 DEF WellKept
    <3> QED
      BY <1>1, <1>2, <1>3, <1>4, <2>2, <2>5, <3>2, <3>3
  <2> QED
    BY <2>4, <2>5
<1> QED
  BY <1>6, <1>7

-----------------------------------------------------------------------------
(* The pushes of several toasts, in the order of their numbers.            *)

\* What holds of 0 and passes from each number to the next holds up to n.
LEMMA Reach ==
    ASSUME NEW n \in Nat, NEW T, 0 \in T, \A i \in 0..(n - 1) : i \in T => i + 1 \in T
    PROVE  0..n \subseteq T
<1> DEFINE bad == (0..n) \ T
<1> SUFFICES ASSUME bad # {} PROVE FALSE
  OBVIOUS
<1>1. bad \subseteq Nat
  OBVIOUS
<1>2. IsWellFoundedOn(OpToRel(<, Nat), Nat)
  BY NatLessThanWellFounded
<1>3. PICK m \in bad : \A k \in bad : ~(<<k, m>> \in OpToRel(<, Nat))
  <2> HIDE DEF bad
  <2> QED BY <1>1, <1>2, WFMin
<1>4. \A k \in bad : ~(k < m)
  BY <1>1, <1>3 DEF OpToRel
<1>5. m \in 1..n /\ m - 1 \in 0..(n - 1)
  OBVIOUS
<1>6. m - 1 \in T
  BY <1>4, <1>5
<1> QED
  BY <1>5, <1>6

\* The pushes of the toasts ts follow one another as their definition says.
LEMMA PushesByNumber ==
    ASSUME NEW ts, made \in Nat
    PROVE  /\ Pushes(ts)[0] = [list |-> history, gone |-> gone]
           /\ \A i \in 1..made : Pushes(ts)[i] = PushId(Pushes(ts)[i - 1], ts, i)
<1> DEFINE At(g, i) == IF i = 0 THEN [list |-> history, gone |-> gone]
                                ELSE PushId(g[i - 1], ts, i)
           T == {k \in Nat : \E g : g = [i \in 0..k |-> At(g, i)]}
<1>1. 0 \in T
  <2>1. [i \in 0..0 |-> [list |-> history, gone |-> gone]] =
        [i \in 0..0 |-> At([j \in 0..0 |-> [list |-> history, gone |-> gone]], i)]
    OBVIOUS
  <2> QED
    BY <2>1
<1>2. ASSUME NEW k \in Nat, k \in T PROVE k + 1 \in T
  <2>1. PICK g : g = [i \in 0..k |-> At(g, i)]
    BY <1>2
  <2> DEFINE h == [i \in 0..(k + 1) |-> IF i <= k THEN g[i] ELSE PushId(g[k], ts, k + 1)]
  <2>2. ASSUME NEW i \in 0..(k + 1) PROVE h[i] = At(h, i)
    <3>1. CASE i = 0
      BY <2>1, <3>1
    <3>2. CASE i \in 1..k
      <4>1. i - 1 \in 0..(k + 1) /\ i - 1 <= k /\ i <= k /\ i \in 0..k /\ i # 0
        BY <3>2
      <4>2. h[i] = g[i] /\ h[i - 1] = g[i - 1]
        BY <4>1
      <4>3. g[i] = PushId(g[i - 1], ts, i)
        BY <2>1, <4>1
      <4> HIDE DEF h
      <4> QED
        BY <4>1, <4>2, <4>3
    <3>3. CASE i = k + 1
      <4>1. h[i] = PushId(g[k], ts, k + 1) /\ h[i - 1] = g[k] /\ i # 0
        BY <3>3
      <4> HIDE DEF h
      <4> QED
        BY <3>3, <4>1
    <3> QED
      BY <3>1, <3>2, <3>3
  <2>3. h = [i \in 0..(k + 1) |-> At(h, i)]
    <3> HIDE DEF At
    <3> QED
    BY <2>2
  <2> HIDE DEF h
  <2> QED
    BY <2>3
<1>3. made \in T
  <2> HIDE DEF T
  <2>1. \A i \in 0..(made - 1) : i \in T => i + 1 \in T
    BY <1>2
  <2> QED
    BY <1>1, <2>1, Reach
<1>4. \E g : g = [i \in 0..made |-> At(g, i)]
  BY <1>3
<1>5. Pushes(ts) = [i \in 0..made |-> At(Pushes(ts), i)]
  BY <1>4 DEF Pushes
<1> QED
  BY <1>5

\* Toasts as what Total sums over; one that leaves or comes changes the total by its count.
OnScreen(ts) == [t \in ts |-> t]

LEMMA ToastGone ==
    ASSUME NEW ts, NEW t \in ts, t.count \in Nat, IsFiniteSet(Behind(OnScreen(ts)))
    PROVE  /\ IsFiniteSet(Behind(OnScreen(ts \ {t})))
           /\ Total(OnScreen(ts \ {t})) = Total(OnScreen(ts)) - t.count
<1> DEFINE f == OnScreen(ts)
           g == OnScreen(ts \ {t})
<1>1. CountAt(f, t) = t.count /\ CountAt(g, t) = 0
  BY DEF CountAt, OnScreen
<1>2. /\ \A y : y # t => (y \in DOMAIN f <=> y \in DOMAIN g)
      /\ \A y \in DOMAIN f : y # t => g[y].count = f[y].count
  BY DEF OnScreen
<1>3. IsFiniteSet(Behind(f))
  OBVIOUS
<1> HIDE DEF f, g
<1>4. CountAt(f, t) \in Nat /\ CountAt(g, t) \in Nat
  BY <1>1
<1>5. IsFiniteSet(Behind(g)) /\ Total(g) = Total(f) - CountAt(f, t) + CountAt(g, t)
  BY <1>2, <1>3, <1>4, TotalAt
<1>6. Total(f) \in Nat
  BY <1>3, FS_CardinalityType DEF Total
<1> QED
  BY <1>1, <1>5, <1>6 DEF f, g

LEMMA ToastComes ==
    ASSUME NEW ts, NEW t, t \notin ts, t.count \in Nat, IsFiniteSet(Behind(OnScreen(ts)))
    PROVE  /\ IsFiniteSet(Behind(OnScreen(ts \cup {t})))
           /\ Total(OnScreen(ts \cup {t})) = Total(OnScreen(ts)) + t.count
<1> DEFINE f == OnScreen(ts)
           g == OnScreen(ts \cup {t})
<1>1. CountAt(f, t) = 0 /\ CountAt(g, t) = t.count
  BY DEF CountAt, OnScreen
<1>2. /\ \A y : y # t => (y \in DOMAIN f <=> y \in DOMAIN g)
      /\ \A y \in DOMAIN f : y # t => g[y].count = f[y].count
  BY DEF OnScreen
<1>3. IsFiniteSet(Behind(f))
  OBVIOUS
<1> HIDE DEF f, g
<1>4. CountAt(f, t) \in Nat /\ CountAt(g, t) \in Nat
  BY <1>1
<1>5. IsFiniteSet(Behind(g)) /\ Total(g) = Total(f) - CountAt(f, t) + CountAt(g, t)
  BY <1>2, <1>3, <1>4, TotalAt
<1>6. Total(f) \in Nat
  BY <1>3, FS_CardinalityType DEF Total
<1> QED
  BY <1>1, <1>5, <1>6 DEF f, g

\* Every notice is in a toast, in the history, or gone; ids are not used twice.
HistoryInv ==
    /\ toasts \subseteq Toasts /\ Apart(toasts)
    /\ made \in 0..MaxAdds /\ \A t \in toasts : t.id <= made
    /\ WellKept(history) /\ Len(history) <= MaxHistory /\ gone \in Nat
    /\ Listed(history) \subseteq 1..made
    /\ \A t \in toasts : t.id \notin Listed(history)
    /\ IsFiniteSet(Behind(OnScreen(toasts)))
    /\ Total(OnScreen(toasts)) + Total(history) + gone = made

\* r is what the history has become when the toasts of ts up to number i are in it,
\* and Waiting are those that are not.
Waiting(ts, i) == {t \in toasts : t \in ts => t.id > i}
Pushed(r, ts, i) ==
    /\ r \in [list : Seq(Entries), gone : Nat]
    /\ WellKept(r.list) /\ Len(r.list) <= MaxHistory
    /\ \A n \in Listed(r.list) : n \in Listed(history) \/ \E t \in ts : t.id = n /\ n <= i
    /\ IsFiniteSet(Behind(OnScreen(Waiting(ts, i))))
    /\ Total(OnScreen(Waiting(ts, i))) + Total(r.list) + r.gone = made

\* The next number is pushed, or is not the number of a toast that leaves.
LEMMA PushNext ==
    ASSUME HistoryInv, NEW ts, ts \subseteq toasts, NEW i \in 1..made,
           NEW r, Pushed(r, ts, i - 1)
    PROVE  Pushed(PushId(r, ts, i), ts, i)
<1> DEFINE W == Waiting(ts, i - 1)
           q == PushId(r, ts, i)
<1>0. made \in Nat /\ i \in Nat /\ \A t \in toasts : t \in Toasts /\ t.id \in Nat /\ t.count \in Nat
  BY ShellAssumption DEF HistoryInv, Toasts, Ids, ShellAssumption
<1>1. CASE \E t \in ts : t.id = i
  <2> DEFINE t == CHOOSE u \in ts : u.id = i
  <2>1. t \in ts /\ t.id = i
    BY <1>1
  <2>2. q = Push(r, t)
    BY <1>1 DEF PushId
  <2> HIDE DEF t
  <2>3. t \in Toasts /\ t \in toasts /\ t.id \notin Listed(history) /\ t.count \in Nat
    BY <1>0, <2>1 DEF HistoryInv
  <2>4. t.id \notin Listed(r.list)
    <3>1. ~(i <= i - 1)
      BY <1>0
    <3> QED
      BY <2>1, <2>3, <3>1 DEF Pushed
  <2>5. /\ q \in [list : Seq(Entries), gone : Nat]
        /\ WellKept(q.list) /\ Len(q.list) <= MaxHistory
        /\ Listed(q.list) \subseteq Listed(r.list) \cup {t.id}
        /\ Total(q.list) + q.gone = Total(r.list) + r.gone + t.count
    <3> HIDE DEF q
    <3>1. /\ r \in [list : Seq(Entries), gone : Nat]
          /\ WellKept(r.list) /\ Len(r.list) <= MaxHistory
      BY DEF Pushed
    <3> QED
      BY <2>2, <2>3, <2>4, <3>1, PushOne
  <2>6. t \in W /\ Waiting(ts, i) = W \ {t}
    <3>1. \A u \in ts : u.id = i => u = t
      BY <2>1 DEF HistoryInv, Apart
    <3>2. \A u \in toasts : u.id > i - 1 <=> u.id > i \/ u.id = i
      BY <1>0
    <3>3. ~(i > i)
      BY <1>0
    <3> QED
      BY <2>1, <2>3, <3>1, <3>2, <3>3 DEF Waiting
  <2>7. /\ IsFiniteSet(Behind(OnScreen(W)))
        /\ Total(OnScreen(W)) + Total(r.list) + r.gone = made
        /\ r.gone \in Nat
    BY DEF Pushed
  <2> HIDE DEF W, q
  <2>8. /\ IsFiniteSet(Behind(OnScreen(W \ {t})))
        /\ Total(OnScreen(W \ {t})) = Total(OnScreen(W)) - t.count
    BY <2>3, <2>6, <2>7, ToastGone
  <2>9. Total(OnScreen(W)) \in Nat /\ Total(r.list) \in Nat /\ Total(q.list) \in Nat /\ q.gone \in Nat
    <3>1. IsFiniteSet(Behind(r.list)) /\ IsFiniteSet(Behind(q.list))
      BY <2>5 DEF Pushed, WellKept
    <3>2. q.gone \in Nat
      BY <2>5
    <3> QED
      BY <2>7, <3>1, <3>2, FS_CardinalityType DEF Total
  <2>10. Total(OnScreen(W \ {t})) + Total(q.list) + q.gone = made
    BY <1>0, <2>3, <2>5, <2>7, <2>8, <2>9
  <2>11. \A n \in Listed(q.list) : n \in Listed(history) \/ \E u \in ts : u.id = n /\ n <= i
    <3>1. \A u \in ts : u.id <= i - 1 => u.id <= i
      BY <1>0
    <3>2. \A n \in Listed(r.list) : n \in Listed(history) \/ \E u \in ts : u.id = n /\ n <= i - 1
      BY DEF Pushed
    <3>3. i <= i
      BY <1>0
    <3> QED
      BY <2>1, <2>5, <3>1, <3>2, <3>3
  <2> QED
    BY <2>5, <2>6, <2>8, <2>10, <2>11 DEF Pushed, q
<1>2. CASE ~ \E t \in ts : t.id = i
  <2>1. q = r
    BY <1>2 DEF PushId
  <2>2. \A u \in ts : u.id > i - 1 <=> u.id > i
    BY <1>0, <1>2
  <2>3. \A u \in ts : u.id <= i - 1 => u.id <= i
    BY <1>0
  <2>4. Waiting(ts, i) = W
    BY <2>2 DEF Waiting
  <2>5. \A n \in Listed(r.list) : n \in Listed(history) \/ \E u \in ts : u.id = n /\ n <= i
    BY <2>3 DEF Pushed
  <2> QED
    BY <2>1, <2>4, <2>5 DEF Pushed
<1> QED
  BY <1>1, <1>2

\* The last of the pushes has all of ts.
LEMMA AllPushed ==
    ASSUME HistoryInv, NEW ts, ts \subseteq toasts
    PROVE  Pushed(PushAll(ts), ts, made)
<1> DEFINE T == {i \in Nat : Pushed(Pushes(ts)[i], ts, i)}
<1>1. made \in Nat /\ \A t \in toasts : t.id \in Nat /\ t.id > 0
  BY ShellAssumption DEF HistoryInv, Toasts, Ids, ShellAssumption
<1>2. Pushed([list |-> history, gone |-> gone], ts, 0)
  <2>1. Waiting(ts, 0) = toasts
    BY <1>1 DEF Waiting
  <2>2. history \in Seq(Entries) /\ gone \in Nat
    BY DEF HistoryInv, WellKept
  <2> QED
    BY <1>1, <2>1, <2>2 DEF HistoryInv, Pushed
<1>3. 0 \in T
  BY <1>1, <1>2, PushesByNumber
<1>4. ASSUME NEW i \in 0..(made - 1), i \in T PROVE i + 1 \in T
  <2>1. i + 1 \in 1..made /\ (i + 1) - 1 = i
    BY <1>1
  <2>2. Pushes(ts)[i + 1] = PushId(Pushes(ts)[i], ts, i + 1)
    BY <1>1, <2>1, PushesByNumber
  <2>3. Pushed(Pushes(ts)[i], ts, (i + 1) - 1)
    BY <1>4, <2>1
  <2>4. Pushed(PushId(Pushes(ts)[i], ts, i + 1), ts, i + 1)
    BY <2>1, <2>3, PushNext
  <2> QED
    BY <2>1, <2>2, <2>4
<1>5. made \in T
  <2> HIDE DEF T
  <2>1. 0..made \subseteq T
    BY <1>1, <1>3, <1>4, Reach
  <2> QED
    BY <1>1, <2>1
<1> QED
  BY <1>5 DEF PushAll

\* What leaves the screen is in the history, or gone.
LEMMA Moved ==
    ASSUME HistoryInv, NEW ts, ts \subseteq toasts
    PROVE  /\ PushAll(ts) \in [list : Seq(Entries), gone : Nat]
           /\ WellKept(PushAll(ts).list) /\ Len(PushAll(ts).list) <= MaxHistory
           /\ \A n \in Listed(PushAll(ts).list) : n \in Listed(history) \/ \E t \in ts : t.id = n
           /\ IsFiniteSet(Behind(OnScreen(toasts \ ts)))
           /\ Total(OnScreen(toasts \ ts)) + Total(PushAll(ts).list) + PushAll(ts).gone = made
<1>1. Pushed(PushAll(ts), ts, made)
  BY AllPushed
<1>2. Waiting(ts, made) = toasts \ ts
  <2>1. \A t \in toasts : ~(t.id > made)
    BY ShellAssumption DEF HistoryInv, Toasts, Ids, ShellAssumption
  <2> QED
    BY <2>1 DEF Waiting
<1> QED
  BY <1>1, <1>2 DEF Pushed

-----------------------------------------------------------------------------
(* Every notice is in one place.                                           *)

LEMMA InitHistory == ShellInit => HistoryInv
<1> SUFFICES ASSUME ShellInit PROVE HistoryInv
  OBVIOUS
<1>1. /\ toasts = {} /\ history = <<>> /\ made = 0 /\ gone = 0
  BY DEF ShellInit
<1>2. Behind(history) = {} /\ Behind(OnScreen(toasts)) = {} /\ Listed(history) = {}
  BY <1>1 DEF Behind, OnScreen, Listed
<1>3. IsFiniteSet({}) /\ Cardinality({}) = 0
  BY FS_EmptySet
<1>4. history \in Seq(Entries) /\ Len(history) = 0 /\ NoTwins(history)
  BY <1>1, EmptySeq DEF NoTwins
<1>5. Total(history) = 0 /\ Total(OnScreen(toasts)) = 0
  BY <1>2, <1>3 DEF Total
<1>6. 0 <= MaxHistory /\ 0 \in 0..MaxAdds
  BY ShellAssumption DEF ShellAssumption
<1>7. WellKept(history) /\ IsFiniteSet(Behind(OnScreen(toasts)))
  BY <1>2, <1>3, <1>4 DEF WellKept
<1> QED
  BY <1>1, <1>2, <1>4, <1>5, <1>6, <1>7 DEF HistoryInv, Apart

\* A notice is counted in the toast that it renews or brings.
LEMMA AddCounts ==
    ASSUME NEW m \in Messages, NEW v \in Variants, HistoryInv, ToastInv, AddToast(m, v)
    PROVE  HistoryInv'
<1>1. /\ made \in 0..MaxAdds /\ made < MaxAdds /\ made' = made + 1 /\ MaxAdds \in Nat
      /\ history' = history /\ gone' = gone
      /\ toasts \subseteq Toasts
      /\ \A t \in toasts : t.count \in Nat /\ t.id \in Nat /\ t.id <= made
  <2>1. made < MaxAdds /\ made' = made + 1 /\ history' = history /\ gone' = gone
    BY DEF AddToast
  <2>2. MaxAdds \in Nat /\ made \in 0..MaxAdds /\ toasts \subseteq Toasts
    BY ShellAssumption DEF HistoryInv, ShellAssumption
  <2>3. \A t \in toasts : t.count \in Nat /\ t.id \in Nat /\ t.id <= made
    BY <2>2 DEF HistoryInv, Toasts, Ids
  <2> QED
    BY <2>1, <2>2, <2>3
<1>2. made \in Nat /\ made + 1 \in Ids /\ made' \in 0..MaxAdds
  BY <1>1 DEF Ids
<1>3. Apart(toasts') /\ \A t \in toasts' : t.id <= made'
  <2>1. ToastInv'
    BY AddKeeps
  <2> QED
    BY <2>1 DEF ToastInv, Apart
<1>4. /\ WellKept(history) /\ Len(history) <= MaxHistory /\ gone \in Nat
      /\ Listed(history) \subseteq 1..made /\ Listed(history) \subseteq 1..(made + 1)
      /\ \A t \in toasts : t.id \notin Listed(history)
      /\ IsFiniteSet(Behind(OnScreen(toasts)))
      /\ Total(OnScreen(toasts)) + Total(history) + gone = made
  BY <1>2 DEF HistoryInv
<1>5. Total(OnScreen(toasts)) \in Nat /\ Total(history) \in Nat
  BY <1>4, FS_CardinalityType DEF Total, WellKept
<1>6. ASSUME toasts' \subseteq Toasts,
             \A t \in toasts' : t.id \notin Listed(history),
             IsFiniteSet(Behind(OnScreen(toasts'))),
             Total(OnScreen(toasts')) = Total(OnScreen(toasts)) + 1
      PROVE  HistoryInv'
  <2>1. Total(OnScreen(toasts')) + Total(history') + gone' = made'
    BY <1>1, <1>2, <1>4, <1>5, <1>6
  <2>2. /\ WellKept(history') /\ Len(history') <= MaxHistory /\ gone' \in Nat
        /\ Listed(history') \subseteq 1..made'
        /\ \A t \in toasts' : t.id \notin Listed(history')
    BY <1>1, <1>4, <1>6
  <2> QED
    BY <1>2, <1>3, <1>6, <2>1, <2>2 DEF HistoryInv
<1>7. CASE \E t \in toasts :
             /\ toasts' = (toasts \ {t}) \cup
                   {[t EXCEPT !.message = m, !.count = @ + 1, !.timer = made + 1]}
  <2>1. PICK t \in toasts :
             /\ toasts' = (toasts \ {t}) \cup
                   {[t EXCEPT !.message = m, !.count = @ + 1, !.timer = made + 1]}
    BY <1>7
  <2> DEFINE n == [t EXCEPT !.message = m, !.count = @ + 1, !.timer = made + 1]
             W == toasts \ {t}
  <2>2. n = [id |-> t.id, variant |-> t.variant, message |-> m,
             count |-> t.count + 1, timer |-> made + 1]
    BY Renewed DEF ToastInv
  <2>3. n \in Toasts /\ n.id = t.id /\ n.count = t.count + 1 /\ n.count \in Nat
    <3>1. t \in Toasts /\ t.count + 1 \in Nat
      BY <1>1
    <3> HIDE DEF n
    <3> QED
      BY <1>2, <2>2, <3>1 DEF Toasts
  <2>4. toasts' = W \cup {n}
    BY <2>1
  <2> HIDE DEF n
  <2>5. n \notin W
    BY <2>3 DEF HistoryInv, Apart
  <2>6. IsFiniteSet(Behind(OnScreen(W))) /\ Total(OnScreen(W)) = Total(OnScreen(toasts)) - t.count
    BY <1>1, <1>4, ToastGone
  <2> HIDE DEF W
  <2>7. /\ IsFiniteSet(Behind(OnScreen(W \cup {n})))
        /\ Total(OnScreen(W \cup {n})) = Total(OnScreen(W)) + n.count
    BY <2>3, <2>5, <2>6, ToastComes
  <2>8. toasts' \subseteq Toasts /\ \A u \in toasts' : u.id \notin Listed(history)
    BY <1>1, <1>4, <2>3, <2>4 DEF W
  <2>9. Total(OnScreen(toasts')) = Total(OnScreen(toasts)) + 1
    <3>1. t.count \in Nat
      BY <1>1
    <3>2. Total(OnScreen(toasts')) = Total(OnScreen(toasts)) - t.count + (t.count + 1)
      BY <2>3, <2>4, <2>6, <2>7
    <3> QED
      BY <1>5, <3>1, <3>2
  <2> QED
    BY <1>6, <2>4, <2>7, <2>8, <2>9
<1>8. CASE toasts' = toasts \cup {[id |-> made + 1, variant |-> v, message |-> m,
                                   count |-> 1, timer |-> made + 1]}
  <2> DEFINE n == [id |-> made + 1, variant |-> v, message |-> m,
                   count |-> 1, timer |-> made + 1]
  <2>1. n \in Toasts /\ n.id = made + 1 /\ n.count = 1
    BY <1>2 DEF Toasts
  <2>2. toasts' = toasts \cup {n}
    BY <1>8
  <2> HIDE DEF n
  <2>3. n \notin toasts /\ n.id \notin Listed(history)
    <3>1. ~(made + 1 <= made) /\ made + 1 \notin 1..made
      BY <1>2
    <3> QED
      BY <1>1, <1>4, <2>1, <3>1
  <2>4. /\ IsFiniteSet(Behind(OnScreen(toasts \cup {n})))
        /\ Total(OnScreen(toasts \cup {n})) = Total(OnScreen(toasts)) + n.count
    <3>1. n.count \in Nat
      BY <2>1
    <3> QED
      BY <1>4, <2>3, <3>1, ToastComes
  <2> QED
    BY <1>1, <1>4, <1>6, <2>1, <2>2, <2>3, <2>4
<1> QED
  BY <1>7, <1>8 DEF AddToast

\* Toasts that leave are counted in the history, or among those that it dropped.
LEMMA LeaveCounts ==
    ASSUME HistoryInv, NEW ts, ts \subseteq toasts, toasts' = toasts \ ts, made' = made,
           \/ history' = PushAll(ts).list /\ gone' = PushAll(ts).gone
           \/ history' = <<>> /\ gone' = PushAll(ts).gone + Total(PushAll(ts).list)
    PROVE  HistoryInv'
<1> DEFINE r == PushAll(ts)
<1>1. /\ toasts \subseteq Toasts /\ Apart(toasts) /\ made \in 0..MaxAdds
      /\ \A t \in toasts : t.id <= made /\ t.id \in Nat /\ t.id > 0
      /\ Listed(history) \subseteq 1..made
      /\ \A t \in toasts : t.id \notin Listed(history)
  BY ShellAssumption DEF HistoryInv, Toasts, Ids, ShellAssumption
<1>2. /\ r \in [list : Seq(Entries), gone : Nat]
      /\ WellKept(r.list) /\ Len(r.list) <= MaxHistory
      /\ \A n \in Listed(r.list) : n \in Listed(history) \/ \E t \in ts : t.id = n
      /\ IsFiniteSet(Behind(OnScreen(toasts \ ts)))
      /\ Total(OnScreen(toasts \ ts)) + Total(r.list) + r.gone = made
  BY Moved
<1> HIDE DEF r
<1>3. /\ toasts' \subseteq Toasts /\ Apart(toasts') /\ made' \in 0..MaxAdds
      /\ \A t \in toasts' : t.id <= made'
      /\ IsFiniteSet(Behind(OnScreen(toasts')))
  BY <1>1, <1>2 DEF Apart
<1>4. Total(r.list) \in Nat /\ Total(OnScreen(toasts')) \in Nat /\ r.gone \in Nat
  <2>1. IsFiniteSet(Behind(r.list))
    BY <1>2 DEF WellKept
  <2>2. r.gone \in Nat
    BY <1>2
  <2> QED
    BY <1>3, <2>1, <2>2, FS_CardinalityType DEF Total
<1>5. Total(OnScreen(toasts')) + Total(r.list) + r.gone = made'
  BY <1>2
<1>6. CASE history' = r.list /\ gone' = r.gone
  <2>1. Listed(history') \subseteq 1..made'
    <3>1. \A t \in ts : t.id \in 1..made'
      BY <1>1
    <3> QED
      BY <1>1, <1>2, <1>6, <3>1
  <2>2. \A t \in toasts' : t.id \notin Listed(history')
    BY <1>1, <1>2, <1>6 DEF Apart
  <2> QED
    BY <1>2, <1>3, <1>4, <1>5, <1>6, <2>1, <2>2 DEF HistoryInv
<1>7. CASE history' = <<>> /\ gone' = r.gone + Total(r.list)
  <2>1. Behind(<<>>) = {} /\ Listed(<<>>) = {} /\ NoTwins(<<>>)
    BY DEF Behind, Listed, NoTwins
  <2>2. IsFiniteSet(Behind(<<>>)) /\ Total(<<>>) = 0
    BY <2>1, FS_EmptySet DEF Total
  <2>3. WellKept(<<>>) /\ Len(<<>>) <= MaxHistory
    <3>1. Len(<<>>) = 0 /\ <<>> \in Seq(Entries) /\ 0 <= MaxHistory
      BY EmptySeq, ShellAssumption DEF ShellAssumption
    <3> QED
      BY <2>1, <2>2, <3>1 DEF WellKept
  <2>4. Total(OnScreen(toasts')) + Total(history') + gone' = made'
    BY <1>4, <1>5, <1>7, <2>2
  <2>5. gone' \in Nat
    BY <1>4, <1>7
  <2>6. /\ WellKept(history') /\ Len(history') <= MaxHistory
        /\ Listed(history') \subseteq 1..made'
        /\ \A t \in toasts' : t.id \notin Listed(history')
    BY <1>7, <2>1, <2>3
  <2> QED
    BY <1>3, <2>4, <2>5, <2>6 DEF HistoryInv
<1> QED
  BY <1>6, <1>7 DEF r

\* What a step does to the numbers: toasts on the screen were there before or are
\* new, and an entry of the history was one before or is of a toast that left.
Onward ==
    /\ made <= made'
    /\ \A t \in toasts' : t.id > made \/ \E u \in toasts : u.id = t.id
    /\ \A n \in Listed(history') : n \in Listed(history) \/ \E t \in toasts : t.id = n

LEMMA AddOnward ==
    ASSUME NEW m, NEW v, HistoryInv, ToastInv, AddToast(m, v)
    PROVE  Onward
<1>1. made \in Nat /\ made' = made + 1 /\ history' = history
  BY DEF ToastInv, AddToast
<1>2. made <= made' /\ made + 1 > made
  BY <1>1
<1>3. \A t \in toasts' : t.id > made \/ \E u \in toasts : u.id = t.id
  <2>1. CASE \E t \in toasts : toasts' = (toasts \ {t}) \cup
                   {[t EXCEPT !.message = m, !.count = @ + 1, !.timer = made + 1]}
    <3>1. PICK t \in toasts : toasts' = (toasts \ {t}) \cup
                   {[t EXCEPT !.message = m, !.count = @ + 1, !.timer = made + 1]}
      BY <2>1
    <3> DEFINE n == [t EXCEPT !.message = m, !.count = @ + 1, !.timer = made + 1]
    <3>2. n = [id |-> t.id, variant |-> t.variant, message |-> m,
               count |-> t.count + 1, timer |-> made + 1]
      BY Renewed DEF ToastInv
    <3>3. n.id = t.id
      <4> HIDE DEF n
      <4> QED
        BY <3>2
    <3>4. toasts' = (toasts \ {t}) \cup {n}
      BY <3>1
    <3> HIDE DEF n
    <3> QED
      BY <3>3, <3>4
  <2>2. CASE toasts' = toasts \cup {[id |-> made + 1, variant |-> v, message |-> m,
                                     count |-> 1, timer |-> made + 1]}
    <3> DEFINE n == [id |-> made + 1, variant |-> v, message |-> m,
                     count |-> 1, timer |-> made + 1]
    <3>1. n.id = made + 1 /\ toasts' = toasts \cup {n}
      BY <2>2
    <3> HIDE DEF n
    <3> QED
      BY <1>2, <3>1
  <2> QED
    BY <2>1, <2>2 DEF AddToast
<1> QED
  BY <1>1, <1>2, <1>3 DEF Onward

LEMMA LeaveOnward ==
    ASSUME HistoryInv, NEW ts, ts \subseteq toasts, toasts' = toasts \ ts, made' = made,
           history' = PushAll(ts).list \/ history' = <<>>
    PROVE  Onward
<1>1. made <= made'
  BY ShellAssumption DEF HistoryInv, ShellAssumption
<1>2. \A n \in Listed(PushAll(ts).list) : n \in Listed(history) \/ \E t \in ts : t.id = n
  BY Moved
<1>3. Listed(<<>>) = {}
  BY DEF Listed
<1> QED
  BY <1>1, <1>2, <1>3 DEF Onward

LEMMA NextHistory ==
    ASSUME HistoryInv, ToastInv, [ShellNext]_shellVars
    PROVE  HistoryInv' /\ Onward
<1> DEFINE Unmoved == UNCHANGED <<toasts, history, made, gone>>
           Goal == HistoryInv' /\ Onward
<1>1. ASSUME Unmoved PROVE Goal
  <2>1. HistoryInv'
    BY <1>1 DEF HistoryInv, Apart
  <2>2. made <= made'
    BY <1>1, ShellAssumption DEF HistoryInv, ShellAssumption
  <2> QED
    BY <1>1, <2>1, <2>2 DEF Onward
<1>2. ASSUME NEW m \in Messages, NEW v \in Variants, AddToast(m, v) PROVE Goal
  BY <1>2, AddCounts, AddOnward
<1>3. ASSUME NEW ts, ts \subseteq toasts, removeToast(ts) PROVE Goal
  <2>1. /\ toasts' = toasts \ ts /\ made' = made
        /\ history' = PushAll(ts).list /\ gone' = PushAll(ts).gone
    BY <1>3 DEF removeToast, Leave
  <2> QED
    BY <1>3, <2>1, LeaveCounts, LeaveOnward
<1>4. ASSUME OutsideDismisses PROVE Goal
  BY <1>3, <1>4, OutsideShown DEF OutsideDismisses
<1>5. CASE \E m \in Messages, v \in Variants : Notify(m, v)
  BY <1>2, <1>5 DEF Notify
<1>6. CASE Arm \/ ShowMore
  BY <1>1, <1>6 DEF Arm, ShowMore
<1>7. CASE DismissAll
  BY <1>3, <1>7 DEF DismissAll
<1>8. CASE \E x \in timers : Expire(x)
  <2>1. PICK x \in timers : Expire(x)
    BY <1>8
  <2> DEFINE ts == {t \in toasts : t.id = x.toast}
  <2>2. /\ toasts' = toasts \ ts /\ made' = made
        /\ history' = PushAll(ts).list /\ gone' = PushAll(ts).gone
    BY <2>1 DEF Expire, Leave
  <2> QED
    BY <2>2, LeaveCounts, LeaveOnward
<1>9. CASE \E t \in toasts : Dismiss(t)
  <2>1. PICK t \in toasts : removeToast({t})
    BY <1>9 DEF Dismiss
  <2> QED
    BY <1>3, <2>1
<1>10. CASE ClickBell \/ ClickMenu \/ ClickElsewhere \/ ToggleSidebar \/ handleNavClick
  BY <1>4, <1>10 DEF ClickBell, ClickMenu, ClickElsewhere, ToggleSidebar, handleNavClick
<1>11. CASE ClickClear
  <2>1. /\ toasts' = toasts \ Outside /\ made' = made /\ history' = <<>>
        /\ gone' = PushAll(Outside).gone + Total(PushAll(Outside).list)
    BY <1>11 DEF ClickClear, Leave
  <2> QED
    BY <2>1, OutsideShown, LeaveCounts, LeaveOnward
<1>12. CASE Refresh
  BY <1>1, <1>12 DEF Refresh, notices
<1>13. CASE \E n \in 0..MaxFlags : Counted(n)
  <2>1. AddToast(FlagMessage, "warning") \/ UNCHANGED notices
    BY <1>13 DEF Counted
  <2>2. FlagMessage \in Messages /\ "warning" \in Variants
    BY ShellAssumption DEF ShellAssumption
  <2>3. UNCHANGED notices => Unmoved
    BY DEF notices
  <2> QED
    BY <1>1, <1>2, <2>1, <2>2, <2>3
<1>14. CASE UNCHANGED shellVars
  BY <1>1, <1>14 DEF shellVars, notices
<1> QED
  BY <1>5, <1>6, <1>7, <1>8, <1>9, <1>10, <1>11, <1>12, <1>13, <1>14 DEF ShellNext

-----------------------------------------------------------------------------
(* The bell.                                                               *)

\* Entries of a history that the user has had before his eyes.
Known(h, S) == Cardinality(Listed(h) \cap S)

\* The noted length is at least the number of known entries, of the history as it
\* is and as the header shows it.
BellInv ==
    /\ WellKept(shown) /\ Len(shown) <= MaxHistory
    /\ prevLength \in Nat
    /\ panel => ~menu /\ prevLength = Len(shown)
    /\ seen \subseteq 1..made
    /\ \A t \in toasts : t.id \notin seen
    /\ Known(history, seen) <= prevLength
    /\ Known(shown, seen) <= prevLength

\* A history has as many ids as entries.
LEMMA ListedSize ==
    ASSUME NEW s, WellKept(s)
    PROVE  IsFiniteSet(Listed(s)) /\ Cardinality(Listed(s)) = Len(s)
<1> DEFINE h == [i \in 1..Len(s) |-> s[i].id]
<1>1. s \in Seq(Entries) /\ Len(s) \in Nat /\ DOMAIN s = 1..Len(s)
  BY LenProperties DEF WellKept
<1>2. h \in [1..Len(s) -> Listed(s)]
  BY <1>1 DEF Listed
<1>3. \A i, j \in 1..Len(s) : h[i] = h[j] => i = j
  BY <1>1 DEF WellKept, NoTwins
<1>4. \A n \in Listed(s) : \E i \in 1..Len(s) : h[i] = n
  BY <1>1 DEF Listed
<1>5. ExistsBijection(1..Len(s), Listed(s))
  <2> HIDE DEF h
  <2>1. h \in Bijection(1..Len(s), Listed(s))
    BY <1>2, <1>3, <1>4, Fun_IsBij
  <2> QED
    BY <2>1 DEF ExistsBijection
<1>6. IsFiniteSet(1..Len(s)) /\ Cardinality(1..Len(s)) = Len(s)
  <2>1. 1 \in Int /\ Len(s) \in Int
    BY <1>1
  <2>2. IsFiniteSet(1..Len(s)) /\ Cardinality(1..Len(s)) = IF 1 > Len(s) THEN 0 ELSE Len(s) - 1 + 1
    BY <2>1, FS_Interval
  <2> QED
    BY <1>1, <2>2
<1> QED
  BY <1>5, <1>6, FS_Bijection

\* Fewer entries are known of a history that gained only unknown ones.
LEMMA KnownLess ==
    ASSUME NEW h, WellKept(h), NEW k, NEW S, Listed(k) \cap S \subseteq Listed(h)
    PROVE  Known(k, S) <= Known(h, S) /\ Known(k, S) \in Nat /\ Known(h, S) \in Nat
<1>1. IsFiniteSet(Listed(h))
  BY ListedSize
<1>2. IsFiniteSet(Listed(h) \cap S)
  BY <1>1, FS_Subset
<1>3. Listed(k) \cap S \in SUBSET (Listed(h) \cap S)
  OBVIOUS
<1>4. IsFiniteSet(Listed(k) \cap S)
      /\ Cardinality(Listed(k) \cap S) <= Cardinality(Listed(h) \cap S)
  BY <1>2, <1>3, FS_Subset
<1> QED
  BY <1>2, <1>4, FS_CardinalityType DEF Known

\* What the bell depends on, in the part that the notices determine.
LEMMA OnwardBell ==
    ASSUME HistoryInv, BellInv, HistoryInv', Onward
    PROVE  /\ seen \subseteq 1..made' /\ \A t \in toasts' : t.id \notin seen
           /\ Known(history', seen) <= prevLength
<1>1. made \in Nat /\ made' \in Nat /\ made <= made'
  BY ShellAssumption DEF HistoryInv, Onward, ShellAssumption
<1>2. \A n \in seen : n \in Nat /\ 1 <= n /\ n <= made
  BY <1>1 DEF BellInv
<1>3. seen \subseteq 1..made'
  BY <1>1, <1>2
<1>4. \A t \in toasts' : t.id \notin seen
  <2>1. \A n \in seen : ~(n > made)
    BY <1>1, <1>2
  <2> QED
    BY <2>1 DEF BellInv, Onward
<1>5. Listed(history') \cap seen \subseteq Listed(history)
  BY DEF BellInv, Onward
<1>6. /\ Known(history', seen) <= Known(history, seen)
      /\ Known(history', seen) \in Nat /\ Known(history, seen) \in Nat
  BY <1>5, KnownLess DEF HistoryInv
<1>7. Known(history, seen) <= prevLength /\ prevLength \in Nat
  BY DEF BellInv
<1>8. Known(history', seen) <= prevLength
  BY <1>6, <1>7
<1> QED
  BY <1>3, <1>4, <1>8

LEMMA InitBell == ShellInit => BellInv
<1> SUFFICES ASSUME ShellInit PROVE BellInv
  OBVIOUS
<1>1. /\ shown = <<>> /\ history = <<>> /\ panel = FALSE /\ prevLength = 0
      /\ seen = {} /\ toasts = {}
  BY DEF ShellInit
<1>2. WellKept(shown) /\ Len(shown) <= MaxHistory
  BY <1>1, InitHistory DEF HistoryInv
<1>3. Cardinality({}) = 0
  BY FS_EmptySet
<1>4. Known(history, seen) = 0 /\ Known(shown, seen) = 0
  BY <1>1, <1>3 DEF Known
<1> QED
  BY <1>1, <1>2, <1>4 DEF BellInv

\* A header that does not render, or closes the menu without rendering.
LEMMA HeaderKept ==
    ASSUME HistoryInv, BellInv, HistoryInv', Onward,
           UNCHANGED <<shown, panel, prevLength, seen>>, menu' = menu \/ menu' = FALSE
    PROVE  BellInv'
<1>1. /\ seen \subseteq 1..made' /\ \A t \in toasts' : t.id \notin seen
      /\ Known(history', seen) <= prevLength
  BY OnwardBell
<1> QED
  BY <1>1 DEF BellInv

\* A header that renders the history, of before the step or after it, and closes
\* the panel or had it closed.
LEMMA HeaderClosed ==
    ASSUME HistoryInv, BellInv, HistoryInv', Onward, NEW h, h = history \/ h = history',
           RenderHeader(h, FALSE, prevLength)
    PROVE  BellInv'
<1>1. /\ seen \subseteq 1..made' /\ \A t \in toasts' : t.id \notin seen
      /\ Known(history', seen) <= prevLength
  BY OnwardBell
<1>2. shown' = h /\ panel' = FALSE /\ prevLength' = prevLength /\ seen' = seen
  BY DEF RenderHeader
<1>3. WellKept(h) /\ Len(h) <= MaxHistory /\ Known(h, seen) <= prevLength
  BY <1>1 DEF HistoryInv, BellInv
<1> QED
  BY <1>1, <1>2, <1>3 DEF BellInv

\* A header that renders the history with the panel open notes its length.
LEMMA HeaderOpen ==
    ASSUME HistoryInv, BellInv, HistoryInv', Onward, NEW h, h = history',
           NEW p, RenderHeader(h, TRUE, p), ~menu'
    PROVE  BellInv'
<1>1. seen \subseteq 1..made' /\ \A t \in toasts' : t.id \notin seen
  BY OnwardBell
<1>2. /\ shown' = h /\ panel' = TRUE /\ prevLength' = Len(h)
      /\ seen' = seen \cup Listed(h)
  BY DEF RenderHeader
<1>3. /\ WellKept(h) /\ Len(h) <= MaxHistory /\ Listed(h) \subseteq 1..made'
      /\ \A t \in toasts' : t.id \notin Listed(h)
  BY DEF HistoryInv
<1>4. Known(h, seen') <= Len(h) /\ Len(h) \in Nat
  <2>1. Listed(h) \cap seen' = Listed(h)
    BY <1>2
  <2>2. Cardinality(Listed(h)) = Len(h)
    BY <1>3, ListedSize
  <2>3. Len(h) \in Nat
    BY <1>3, LenProperties DEF WellKept
  <2>4. Known(h, seen') = Cardinality(Listed(h))
    BY <2>1 DEF Known
  <2> QED
    BY <2>2, <2>3, <2>4
<1> QED
  BY <1>1, <1>2, <1>3, <1>4 DEF BellInv

LEMMA NextBell ==
    ASSUME HistoryInv, BellInv, HistoryInv', Onward, [ShellNext]_shellVars
    PROVE  BellInv'
<1>1. ASSUME UNCHANGED header PROVE BellInv'
  BY <1>1, HeaderKept DEF header
<1>2. ASSUME ClosesAll PROVE BellInv'
  <2>1. CASE panel \/ menu
    BY <1>2, <2>1, HeaderClosed DEF ClosesAll
  <2>2. CASE ~(panel \/ menu)
    BY <1>2, <2>2, HeaderKept DEF ClosesAll
  <2> QED
    BY <2>1, <2>2
<1>3. CASE \E m \in Messages, v \in Variants : Notify(m, v)
  BY <1>1, <1>3 DEF Notify
<1>4. CASE Arm
  BY <1>1, <1>4 DEF Arm
<1>5. CASE ShowMore \/ DismissAll \/ ClickElsewhere
  BY <1>2, <1>5 DEF ShowMore, DismissAll, ClickElsewhere
<1>6. CASE \E x \in timers : Expire(x)
  BY <1>1, <1>6 DEF Expire
<1>7. CASE \E t \in toasts : Dismiss(t)
  BY <1>2, <1>7 DEF Dismiss
<1>8. CASE ClickBell
  <2>1. RenderHeader(history', ~panel, BellNoted) /\ menu' = FALSE
    BY <1>8 DEF ClickBell
  <2>2. CASE panel = TRUE
    <3>1. BellNoted = prevLength
      BY <2>2 DEF BellInv, BellNoted, AfterMenuCloses
    <3>2. RenderHeader(history', FALSE, prevLength)
      BY <2>1, <2>2, <3>1
    <3> QED
      BY <3>2, HeaderClosed
  <2>3. CASE ~panel
    <3>1. RenderHeader(history', TRUE, BellNoted)
      BY <2>1, <2>3 DEF RenderHeader
    <3> QED
      BY <2>1, <3>1, HeaderOpen
  <2>4. panel = TRUE \/ ~panel
    BY DEF BellInv
  <2> QED
    BY <2>2, <2>3, <2>4
<1>9. CASE ClickMenu \/ ToggleSidebar \/ handleNavClick
  BY <1>9, HeaderClosed DEF ClickMenu, ToggleSidebar, handleNavClick
<1>10. CASE ClickClear
  BY <1>1, <1>10 DEF ClickClear
<1>11. CASE Refresh
  <2>1. RenderHeader(history, panel, prevLength) /\ menu' = menu /\ history' = history
    BY <1>11 DEF Refresh, notices
  <2>2. CASE panel
    <3>1. RenderHeader(history', TRUE, prevLength) /\ ~menu'
      BY <2>1, <2>2 DEF RenderHeader, BellInv
    <3> QED
      BY <3>1, HeaderOpen
  <2>3. CASE ~panel
    <3>1. RenderHeader(history, FALSE, prevLength)
      BY <2>1, <2>3 DEF RenderHeader
    <3> QED
      BY <3>1, HeaderClosed
  <2> QED
    BY <2>2, <2>3
<1>12. CASE \E n \in 0..MaxFlags : Counted(n)
  BY <1>1, <1>12 DEF Counted
<1>13. CASE UNCHANGED shellVars
  BY <1>1, <1>13 DEF shellVars
<1> QED
  BY <1>3, <1>4, <1>5, <1>6, <1>7, <1>8, <1>9, <1>10, <1>11, <1>12, <1>13 DEF ShellNext

-----------------------------------------------------------------------------
(* The types of the shell, and its theorems.                               *)

\* Switches and the count of the sidebar.
SwitchesOK ==
    /\ showAll \in BOOLEAN /\ armed \in BOOLEAN /\ panel \in BOOLEAN /\ menu \in BOOLEAN
    /\ sidebar \in BOOLEAN /\ mobile \in BOOLEAN /\ count \in 0..MaxFlags

LEMMA NextSwitches == SwitchesOK /\ [ShellNext]_shellVars => SwitchesOK'
<1> SUFFICES ASSUME SwitchesOK, [ShellNext]_shellVars PROVE SwitchesOK'
  OBVIOUS
<1> DEFINE Toasting == showAll' \in BOOLEAN /\ armed' \in BOOLEAN
           Heading == panel' \in BOOLEAN /\ menu' \in BOOLEAN
           Framing == sidebar' \in BOOLEAN /\ mobile' \in BOOLEAN /\ count' \in 0..MaxFlags
<1>1. /\ \A ts, xs : Leave(ts, xs) => Toasting
      /\ \A ts : removeToast(ts) => Toasting
      /\ OutsideDismisses => Toasting
      /\ \A m, v : AddToast(m, v) => Toasting
      /\ UNCHANGED notices => Toasting
  BY DEF SwitchesOK, Leave, removeToast, OutsideDismisses, AddToast, notices
<1>2. /\ ClosesAll => Heading
      /\ UNCHANGED header => Heading
      /\ UNCHANGED frame => Framing
  BY DEF SwitchesOK, ClosesAll, RenderHeader, header, frame
<1>3. \A h, p : /\ RenderHeader(h, FALSE, p) => panel' \in BOOLEAN
                /\ RenderHeader(h, panel, p) => panel' \in BOOLEAN
                /\ RenderHeader(h, ~panel, p) => panel' \in BOOLEAN
  BY DEF SwitchesOK, RenderHeader
<1>4. Toasting /\ Heading /\ Framing => SwitchesOK'
  BY DEF SwitchesOK
<1>5. CASE \E m \in Messages, v \in Variants : Notify(m, v)
  BY <1>1, <1>2, <1>5 DEF Notify, SwitchesOK
<1>6. CASE Arm \/ ShowMore \/ DismissAll
  BY <1>1, <1>2, <1>6 DEF Arm, ShowMore, DismissAll, SwitchesOK
<1>7. CASE \E x \in timers : Expire(x)
  BY <1>1, <1>2, <1>4, <1>7 DEF Expire
<1>8. CASE \E t \in toasts : Dismiss(t)
  BY <1>1, <1>2, <1>4, <1>8 DEF Dismiss
<1>9. CASE ClickBell \/ ClickMenu \/ ClickElsewhere
  BY <1>1, <1>2, <1>3, <1>9 DEF ClickBell, ClickMenu, ClickElsewhere, SwitchesOK
<1>10. CASE ClickClear
  BY <1>1, <1>2, <1>4, <1>10 DEF ClickClear
<1>11. CASE ToggleSidebar \/ handleNavClick
  BY <1>1, <1>3, <1>11 DEF ToggleSidebar, handleNavClick, SwitchesOK
<1>12. CASE Refresh
  BY <1>1, <1>2, <1>3, <1>12 DEF Refresh, SwitchesOK
<1>13. CASE \E n \in 0..MaxFlags : Counted(n)
  BY <1>1, <1>2, <1>13 DEF Counted, SwitchesOK
<1>14. CASE UNCHANGED shellVars
  BY <1>14 DEF shellVars, notices, header, frame, SwitchesOK
<1> QED
  BY <1>5, <1>6, <1>7, <1>8, <1>9, <1>10, <1>11, <1>12, <1>13, <1>14 DEF ShellNext

ShellInv == ToastInv /\ HistoryInv /\ BellInv /\ SwitchesOK

LEMMA ShellInvariant == ShellSpec => []ShellInv
<1>1. ShellInit => ShellInv
  <2>1. ShellInit => SwitchesOK
    <3>1. 0 \in 0..MaxFlags
      BY ShellAssumption DEF ShellAssumption
    <3> QED
      BY <3>1 DEF ShellInit, SwitchesOK
  <2> QED
    BY <2>1, InitToasts, InitHistory, InitBell DEF ShellInv
<1>2. ShellInv /\ [ShellNext]_shellVars => ShellInv'
  BY NextToasts, NextHistory, NextBell, NextSwitches DEF ShellInv
<1> QED
  BY <1>1, <1>2, PTL DEF ShellSpec

\* The variables of the shell keep their types, and the history its limit.
THEOREM ShellTypes == ShellSpec => []ShellTypeOK
<1>1. ShellInv => ShellTypeOK
  <2> SUFFICES ASSUME ShellInv PROVE ShellTypeOK
    OBVIOUS
  <2>1. toasts \subseteq Toasts
    BY DEF ShellInv, HistoryInv
  <2>2. timers \subseteq [timer : Ids, toast : Ids]
    BY <2>1 DEF ShellInv, ToastInv, OneTimerPerToast, Timer, Toasts
  <2>3. history \in Seq(Entries) /\ shown \in Seq(Entries)
    BY DEF ShellInv, HistoryInv, BellInv, WellKept
  <2>4. seen \subseteq Ids
    <3>1. made \in 0..MaxAdds /\ MaxAdds \in Nat /\ seen \subseteq 1..made
      BY ShellAssumption DEF ShellInv, HistoryInv, BellInv, ShellAssumption
    <3> QED
      BY <3>1 DEF Ids
  <2> QED
    BY <2>1, <2>2, <2>3, <2>4
       DEF ShellInv, HistoryInv, BellInv, SwitchesOK, ShellTypeOK, Toasts
<1> QED
  BY <1>1, ShellInvariant, PTL

\* No notice is lost or counted twice by merges, by the limit of the history, by a
\* clear or by a timer that fires meanwhile.
THEOREM EveryNoticeCounted == ShellSpec => []NoticesConserved
<1>1. ShellInv => NoticesConserved
  BY DEF ShellInv, HistoryInv, OnScreen, NoticesConserved
<1> QED
  BY <1>1, ShellInvariant, PTL

\* A lit bell has something behind it that no open panel has listed.
THEOREM LitBellMeansNew == ShellSpec => []BellMeansNew
<1>1. ShellInv => BellMeansNew
  <2> SUFFICES ASSUME ShellInv, Len(shown) > prevLength, Listed(shown) \subseteq seen
               PROVE  FALSE
    BY DEF BellMeansNew
  <2>1. WellKept(shown) /\ Known(shown, seen) <= prevLength /\ prevLength \in Nat
    BY DEF ShellInv, BellInv
  <2>2. Listed(shown) \cap seen = Listed(shown)
    OBVIOUS
  <2>3. Known(shown, seen) = Len(shown) /\ Len(shown) \in Nat
    BY <2>1, <2>2, ListedSize, LenProperties DEF Known, WellKept
  <2> QED
    BY <2>1, <2>3
<1> QED
  BY <1>1, ShellInvariant, PTL

=============================================================================
