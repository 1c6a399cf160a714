---------------------------- MODULE PortalProofs ----------------------------
(***************************************************************************)
(* Proofs about the three pages of Portal: first the pairing modal and its *)
(* handlers, then the cards of the settings page, then the staff users     *)
(* page.  Each page has an inductive invariant of its own, which steps of  *)
(* the others leave alone.                                                 *)
(***************************************************************************)
EXTENDS Portal, FiniteSetTheorems, TLAPS

FetchSet == [id : Tokens, stage : {"sent", "cleared", "inserted"}]
ScanSet == [phone : Phones, token : Tokens, stage : {"sent", "checked", "marked"}]
TokenRow == [made : BOOLEAN, used : BOOLEAN, left : 0..Life]
ModalSet == [open : BOOLEAN, loading : BOOLEAN, error : BOOLEAN, code : 0..MaxFetches,
             status : Statuses, left : 0..Life]

\* Tokens not asked for yet are neither made nor used, and what is in flight is
\* about tokens asked for.
Numbered ==
    /\ \A t \in Tokens : t > fetched => ~tokens[t].made /\ ~tokens[t].used
    /\ \A f \in fetches : f.id <= fetched
    /\ \A s \in scans : s.token <= fetched

\* A request that ran beside no other is the only one in flight, and nobody has
\* used its token.
Alone ==
    \A f \in fetches :
        /\ f.stage = "inserted" => tokens[f.id].made
        /\ f.id \notin overlapped => \A g \in fetches : g = f
        /\ f.id \notin overlapped \cup spent => ~tokens[f.id].used

\* The code on screen was made; if it has been withdrawn, a request is in flight
\* that will replace it or the status.
OnScreen ==
    modal.status = "waiting" =>
        /\ modal.code \in Tokens /\ modal.code <= fetched
        /\ tokens[modal.code].made
        /\ modal.code \notin overlapped \cup spent /\ tokens[modal.code].used => fetches # {}

Past(s, t) == s.token = t /\ s.stage \in {"checked", "marked"}

\* Of a token that was not raced for: one login is past the check, one that is
\* past the mark has marked it, and once it has paired a phone no other is.
Single(t) ==
    t \notin raced =>
        /\ \A s1, s2 \in scans : Past(s1, t) /\ Past(s2, t) => s1 = s2
        /\ \A s \in scans : s.token = t /\ s.stage = "marked" => tokens[t].used
        /\ \A p \in Phones : <<t, p>> \in paired =>
              tokens[t].used /\ \A s \in scans : ~Past(s, t)
        /\ \A p, q \in Phones : <<t, p>> \in paired /\ <<t, q>> \in paired => p = q

Singles == \A t \in Tokens : Single(t)

PairingInv == PairingTypeOK /\ Numbered /\ Alone /\ OnScreen /\ Singles

-----------------------------------------------------------------------------

\* No page is opened with a code on screen, a request in flight or a token made.
LEMMA InitPairing == PairingInit => PairingInv
<1> SUFFICES ASSUME PairingInit PROVE PairingInv
    OBVIOUS
<1> USE PairingAssumption DEF PairingAssumption, PairingInit, Tokens
<1>1. PairingTypeOK
    BY DEF PairingTypeOK, Statuses
<1>2. Numbered /\ Alone /\ OnScreen
    BY DEF Numbered, Alone, OnScreen
<1>3. Singles
    BY DEF Singles, Single
<1> QED BY <1>1, <1>2, <1>3 DEF PairingInv

\* A tick, seen by the countdown or not, ages the tokens and changes nothing else
\* of them.
LEMMA OlderRows ==
    ASSUME PairingTypeOK
    PROVE  /\ Older \in [Tokens -> TokenRow]
           /\ \A t \in Tokens : Older[t].made = tokens[t].made /\ Older[t].used = tokens[t].used
<1>1. tokens \in [Tokens -> TokenRow]
    BY DEF PairingTypeOK, TokenRow
<1>2. ASSUME NEW t \in Tokens
      PROVE  /\ [tokens[t] EXCEPT !.left = IF @ = 0 THEN 0 ELSE @ - 1] \in TokenRow
             /\ Older[t] = [tokens[t] EXCEPT !.left = IF @ = 0 THEN 0 ELSE @ - 1]
    <2>1. tokens[t] \in TokenRow
        BY <1>1
    <2> QED BY <2>1, PairingAssumption DEF PairingAssumption, Older, TokenRow
<1> QED BY <1>1, <1>2 DEF Older, TokenRow

-----------------------------------------------------------------------------
(* Types.                                                                  *)

\* The state of the modal keeps its type when setState gives a field a value of
\* its type.
LEMMA ModalWith ==
    ASSUME NEW m \in ModalSet
    PROVE  /\ \A b \in BOOLEAN : /\ [m EXCEPT !.open = b] \in ModalSet
                                 /\ [m EXCEPT !.loading = b] \in ModalSet
                                 /\ [m EXCEPT !.error = b] \in ModalSet
           /\ \A c \in 0..MaxFetches : [m EXCEPT !.code = c] \in ModalSet
           /\ \A x \in Statuses : [m EXCEPT !.status = x] \in ModalSet
           /\ \A n \in 0..Life : [m EXCEPT !.left = n] \in ModalSet
BY DEF ModalSet

\* So it does when a code arrives, or when it is cleared.
LEMMA ModalCode ==
    ASSUME NEW m \in ModalSet, NEW b \in BOOLEAN, NEW c \in 0..MaxFetches,
           NEW x \in Statuses, NEW n \in 0..Life
    PROVE  /\ [m EXCEPT !.open = b, !.code = c, !.status = x, !.left = n] \in ModalSet
           /\ [m EXCEPT !.loading = b, !.code = c, !.status = x, !.left = n] \in ModalSet
           /\ [m EXCEPT !.left = n, !.status = x] \in ModalSet
<1>1. [m EXCEPT !.open = b, !.code = c] \in ModalSet
    BY ModalWith
<1>2. [m EXCEPT !.open = b, !.code = c, !.status = x] \in ModalSet
    BY <1>1, ModalWith
<1>3. [m EXCEPT !.loading = b, !.code = c] \in ModalSet
    BY ModalWith
<1>4. [m EXCEPT !.loading = b, !.code = c, !.status = x] \in ModalSet
    BY <1>3, ModalWith
<1> QED BY <1>2, <1>4, ModalWith

\* Asking for a code keeps the types; m is the modal before.
LEMMA FetchTypes ==
    ASSUME PairingInv, NEW m \in ModalSet, fetchQRCode(m)
    PROVE  PairingTypeOK'
<1> USE PairingAssumption DEF PairingAssumption, PairingInv, PairingTypeOK, fetchQRCode, logins, Tokens
<1>1. fetched' \in 0..MaxFetches /\ fetched' \in Tokens
    OBVIOUS
<1>2. fetches' \subseteq [id : Tokens, stage : {"sent", "cleared", "inserted"}]
    BY <1>1
<1>3. modal' \in ModalSet
    <2>1. modal' = [m EXCEPT !.loading = TRUE, !.error = FALSE]
        BY DEF fetchQRCode
    <2> QED BY <2>1 DEF ModalSet
<1>4. overlapped' \subseteq Tokens
    <2>1. \A f \in fetches' : f.id \in Tokens
        BY <1>2
    <2> QED BY <2>1
<1> QED BY <1>1, <1>2, <1>3, <1>4 DEF ModalSet

\* Every step keeps the types.
LEMMA PairingTypesKept == PairingInv /\ PairingNext => PairingTypeOK'
<1> SUFFICES ASSUME PairingInv, PairingNext PROVE PairingTypeOK'
    OBVIOUS
<1> USE PairingAssumption DEF PairingAssumption
<1>m. modal \in ModalSet
    BY DEF PairingInv, PairingTypeOK, ModalSet
<1>t. tokens \in [Tokens -> TokenRow]
    BY DEF PairingInv, PairingTypeOK, TokenRow
<1>1. CASE Open
    <2>1. [modal EXCEPT !.open = TRUE] \in ModalSet
        BY <1>m DEF ModalSet
    <2> QED BY <1>1, <2>1, FetchTypes DEF Open
<1>2. CASE Again
    BY <1>2, <1>m, FetchTypes DEF Again
<1>3. CASE Close
    <2>1. modal' \in ModalSet
        <3>1. FALSE \in BOOLEAN /\ 0 \in 0..MaxFetches /\ "idle" \in Statuses /\ 0 \in 0..Life
            BY DEF Statuses
        <3>2. [modal EXCEPT !.open = FALSE, !.code = 0, !.status = "idle", !.left = 0] \in ModalSet
            BY <1>m, <3>1, ModalCode, Zenon
        <3> QED BY <1>3, <3>2 DEF Close
    <2> QED BY <1>3, <2>1 DEF Close, PairingInv, PairingTypeOK, ModalSet, logins
<1>4. CASE Tick
    <2>1. Older \in [Tokens -> TokenRow]
        BY OlderRows DEF PairingInv
    <2>2. modal' \in ModalSet
        <3>1. modal.left \in 0..Life /\ modal.left > 0
            BY <1>4, <1>m DEF Tick, Counting, ModalSet
        <3>2. CASE modal.left <= 1
            <4>1. 0 \in 0..MaxFetches /\ "expired" \in Statuses /\ 0 \in 0..Life
                BY DEF Statuses
            <4>2. [modal EXCEPT !.left = 0, !.status = "expired"] \in ModalSet
                BY <1>m, <4>1, ModalCode, Zenon
            <4> QED BY <1>4, <3>2, <4>2 DEF Tick, Counted
        <3>3. CASE ~(modal.left <= 1)
            <4>1. modal.left - 1 \in 0..Life
                BY <3>1
            <4> QED BY <1>4, <1>m, <3>3, <4>1, ModalWith DEF Tick, Counted
        <3> QED BY <3>2, <3>3
    <2> QED BY <1>4, <2>1, <2>2 DEF Tick, PairingInv, PairingTypeOK, ModalSet, TokenRow, logins
<1>5. CASE TickUnseen
    <2>1. Older \in [Tokens -> TokenRow]
        BY OlderRows DEF PairingInv
    <2> QED BY <1>5, <2>1 DEF TickUnseen, PairingInv, PairingTypeOK, TokenRow, component, logins
<1>6. ASSUME NEW f \in fetches, Invalidate(f) PROVE PairingTypeOK'
    <2>0. f \in FetchSet
        BY DEF PairingInv, PairingTypeOK, FetchSet
    <2>1. tokens' \in [Tokens -> TokenRow]
        <3>1. PICK ok \in BOOLEAN :
                 tokens' = [t \in Tokens |->
                              IF t = f.id THEN [tokens[t] EXCEPT !.left = Life]
                              ELSE [tokens[t] EXCEPT !.used = @ \/ (ok /\ tokens[t].made)]]
            BY <1>6 DEF Invalidate
        <3>2. ASSUME NEW t \in Tokens
              PROVE  /\ [tokens[t] EXCEPT !.left = Life] \in TokenRow
                     /\ [tokens[t] EXCEPT !.used = @ \/ (ok /\ tokens[t].made)] \in TokenRow
            BY <1>t DEF TokenRow
        <3> QED BY <3>1, <3>2
    <2>2. [f EXCEPT !.stage = "cleared"] \in FetchSet
        BY <2>0 DEF FetchSet
    <2>3. fetches' \subseteq FetchSet
        BY <1>6, <2>2 DEF Invalidate, PairingInv, PairingTypeOK, FetchSet
    <2> QED BY <1>6, <2>1, <2>3
            DEF Invalidate, PairingInv, PairingTypeOK, TokenRow, FetchSet, component, logins
<1>7. ASSUME NEW f \in fetches, Insert(f) PROVE PairingTypeOK'
    <2>0. f \in FetchSet
        BY DEF PairingInv, PairingTypeOK, FetchSet
    <2>1. tokens' \in [Tokens -> TokenRow]
        BY <1>7, <1>t DEF Insert, TokenRow
    <2>2. [f EXCEPT !.stage = "inserted"] \in FetchSet
        BY <2>0 DEF FetchSet
    <2>3. fetches' \subseteq FetchSet
        BY <1>7, <2>2 DEF Insert, PairingInv, PairingTypeOK, FetchSet
    <2> QED BY <1>7, <2>1, <2>3
            DEF Insert, PairingInv, PairingTypeOK, TokenRow, FetchSet, component, logins
<1>8. ASSUME NEW f \in fetches, Receive(f) PROVE PairingTypeOK'
    <2>0. f.id \in Tokens
        BY DEF PairingInv, PairingTypeOK
    <2>1. tokens[f.id].left \in 0..Life
        BY <2>0, <1>t DEF TokenRow
    <2>2. modal' \in ModalSet
        <3>1. FALSE \in BOOLEAN /\ f.id \in 0..MaxFetches /\ "waiting" \in Statuses
            BY <2>0 DEF Statuses, Tokens
        <3>2. [modal EXCEPT !.loading = FALSE, !.code = f.id, !.status = "waiting",
                            !.left = tokens[f.id].left] \in ModalSet
            BY <1>m, <2>1, <3>1, ModalCode, Zenon
        <3> QED BY <1>8, <3>2 DEF Receive
    <2> QED BY <1>8, <2>0, <2>2 DEF Receive, PairingInv, PairingTypeOK, ModalSet, logins
<1>9. ASSUME NEW f \in fetches, FetchFails(f) PROVE PairingTypeOK'
    <2>1. modal' \in ModalSet
        BY <1>9, <1>m DEF FetchFails, Failed, ModalSet, Statuses
    <2> QED BY <1>9, <2>1 DEF FetchFails, PairingInv, PairingTypeOK, ModalSet, logins
<1>10. ASSUME NEW p \in Phones, Scan(p) PROVE PairingTypeOK'
    <2>1. modal.code \in Tokens
        BY <1>10 DEF Scan, PairingInv, OnScreen
    <2> QED BY <1>10, <2>1 DEF Scan, PairingInv, PairingTypeOK, component
<1>11. ASSUME NEW s \in scans, Check(s) \/ Mark(s) \/ Register(s) \/ LoginFails(s)
       PROVE PairingTypeOK'
    <2>0. s \in ScanSet /\ scans \subseteq ScanSet
        BY DEF PairingInv, PairingTypeOK, ScanSet
    <2>1. CASE Check(s)
        <3>1. [s EXCEPT !.stage = "checked"] \in ScanSet
            BY <2>0 DEF ScanSet
        <3>2. scans' \subseteq ScanSet /\ raced' \subseteq Tokens
            BY <2>0, <2>1, <3>1 DEF Check, PairingInv, PairingTypeOK, ScanSet
        <3> QED BY <2>1, <3>2 DEF Check, PairingInv, PairingTypeOK, ScanSet, component
    <2>2. CASE Mark(s)
        <3>1. [s EXCEPT !.stage = "marked"] \in ScanSet /\ s.token \in Tokens
            BY <2>0 DEF ScanSet
        <3>2. scans' \subseteq ScanSet
            BY <2>0, <2>2, <3>1 DEF Mark
        <3>3. tokens' \in [Tokens -> TokenRow]
            BY <2>2, <1>t, <3>1 DEF Mark, TokenRow
        <3>4. spent' \subseteq Tokens /\ raced' \subseteq Tokens
            BY <2>2, <3>1 DEF Mark, PairingInv, PairingTypeOK
        <3> QED BY <2>2, <3>2, <3>3, <3>4
                DEF Mark, PairingInv, PairingTypeOK, ScanSet, TokenRow, component
    <2>3. CASE Register(s)
        <3>1. <<s.token, s.phone>> \in Tokens \X Phones
            BY <2>0 DEF ScanSet
        <3> QED BY <2>3, <3>1 DEF Register, PairingInv, PairingTypeOK, component
    <2>4. CASE LoginFails(s)
        BY <2>4 DEF LoginFails, PairingInv, PairingTypeOK, component
    <2> QED BY <1>11, <2>1, <2>2, <2>3, <2>4
<1> QED BY <1>1, <1>2, <1>3, <1>4, <1>5, <1>6, <1>7, <1>8, <1>9, <1>10, <1>11 DEF PairingNext

-----------------------------------------------------------------------------
(* Tokens and requests for codes.                                          *)

\* Only Invalidate and Mark make a token used, only Insert makes one.
LEMMA TokenSteps ==
    ASSUME PairingInv, PairingNext
    PROVE  \A t \in Tokens :
              /\ tokens[t].made => tokens'[t].made
              /\ tokens[t].used => tokens'[t].used
              /\ tokens'[t].made => tokens[t].made \/ \E f \in fetches : Insert(f) /\ t = f.id
              /\ tokens'[t].used => \/ tokens[t].used
                                    \/ \E f \in fetches : Invalidate(f) /\ t # f.id /\ tokens[t].made
                                    \/ \E s \in scans : Mark(s) /\ t = s.token /\ t \in spent'
<1> SUFFICES ASSUME NEW t \in Tokens
             PROVE  /\ tokens[t].made => tokens'[t].made
                    /\ tokens[t].used => tokens'[t].used
                    /\ tokens'[t].made => tokens[t].made \/ \E f \in fetches : Insert(f) /\ t = f.id
                    /\ tokens'[t].used =>
                          \/ tokens[t].used
                          \/ \E f \in fetches : Invalidate(f) /\ t # f.id /\ tokens[t].made
                          \/ \E s \in scans : Mark(s) /\ t = s.token /\ t \in spent'
    OBVIOUS
<1>t. tokens \in [Tokens -> TokenRow]
    BY DEF PairingInv, PairingTypeOK, TokenRow
<1>1. CASE UNCHANGED tokens
    BY <1>1
<1>2. CASE tokens' = Older
    BY <1>2, OlderRows DEF PairingInv
<1>3. ASSUME NEW f \in fetches, Invalidate(f)
      PROVE  /\ tokens[t].made <=> tokens'[t].made
             /\ tokens[t].used => tokens'[t].used
             /\ tokens'[t].used => tokens[t].used \/ (t # f.id /\ tokens[t].made)
    <2>1. PICK ok \in BOOLEAN :
             tokens' = [u \in Tokens |->
                          IF u = f.id THEN [tokens[u] EXCEPT !.left = Life]
                          ELSE [tokens[u] EXCEPT !.used = @ \/ (ok /\ tokens[u].made)]]
        BY <1>3 DEF Invalidate
    <2> QED BY <2>1, <1>t DEF TokenRow
<1>4. ASSUME NEW f \in fetches, Insert(f)
      PROVE  /\ tokens[t].made => tokens'[t].made
             /\ tokens'[t].made => tokens[t].made \/ t = f.id
             /\ tokens[t].used <=> tokens'[t].used
    BY <1>4, <1>t DEF Insert, TokenRow
<1>5. ASSUME NEW s \in scans, Mark(s)
      PROVE  /\ tokens[t].made <=> tokens'[t].made
             /\ tokens[t].used => tokens'[t].used
             /\ tokens'[t].used => tokens[t].used \/ (t = s.token /\ t \in spent')
    BY <1>5, <1>t DEF Mark, TokenRow
<1>6. \/ UNCHANGED tokens
      \/ tokens' = Older
      \/ \E f \in fetches : Invalidate(f)
      \/ \E f \in fetches : Insert(f)
      \/ \E s \in scans : Mark(s)
    BY DEF PairingNext, Open, Again, fetchQRCode, Close, Tick, TickUnseen, Receive, FetchFails,
           Scan, Check, Register, LoginFails
<1> QED BY <1>1, <1>2, <1>3, <1>4, <1>5, <1>6

\* What becomes of the requests for codes in a step.
LEMMA FetchSteps ==
    ASSUME PairingInv, PairingNext
    PROVE  \/ /\ fetched' = fetched + 1 /\ fetched' \in Tokens
              /\ fetches' = fetches \cup {[id |-> fetched', stage |-> "sent"]}
              /\ overlapped' = IF fetches = {} THEN overlapped
                               ELSE overlapped \cup {f.id : f \in fetches'}
              /\ UNCHANGED <<tokens, scans, spent>>
              /\ modal'.status = modal.status /\ modal'.code = modal.code
           \/ /\ UNCHANGED <<fetched, overlapped, spent, scans>>
              /\ \E f \in fetches :
                    \/ Invalidate(f)
                    \/ Insert(f)
                    \/ fetches' = fetches \ {f} /\ UNCHANGED tokens /\ (Receive(f) \/ FetchFails(f))
           \/ UNCHANGED <<fetched, fetches, overlapped>> /\ spent \subseteq spent'
<1>m. modal \in ModalSet
    BY DEF PairingInv, PairingTypeOK, ModalSet
<1>1. ASSUME NEW m \in ModalSet, fetchQRCode(m), m.status = modal.status, m.code = modal.code
      PROVE  /\ fetched' = fetched + 1 /\ fetched' \in Tokens
             /\ fetches' = fetches \cup {[id |-> fetched', stage |-> "sent"]}
             /\ overlapped' = IF fetches = {} THEN overlapped
                              ELSE overlapped \cup {f.id : f \in fetches'}
             /\ UNCHANGED <<tokens, scans, spent>>
             /\ modal'.status = modal.status /\ modal'.code = modal.code
    <2>1. modal' = [m EXCEPT !.loading = TRUE, !.error = FALSE]
        BY <1>1 DEF fetchQRCode
    <2>2. modal'.status = m.status /\ modal'.code = m.code
        BY <2>1 DEF ModalSet
    <2>3. fetched' = fetched + 1 /\ fetched' \in Tokens
        BY <1>1, PairingAssumption
           DEF PairingAssumption, fetchQRCode, Tokens, PairingInv, PairingTypeOK
    <2> QED BY <1>1, <2>2, <2>3 DEF fetchQRCode, logins
<1>2. CASE Open
    <2>1. /\ [modal EXCEPT !.open = TRUE] \in ModalSet
          /\ [modal EXCEPT !.open = TRUE].status = modal.status
          /\ [modal EXCEPT !.open = TRUE].code = modal.code
        BY <1>m DEF ModalSet
    <2> QED BY <1>1, <1>2, <2>1 DEF Open
<1>3. CASE Again
    BY <1>1, <1>3, <1>m DEF Again
<1>4. CASE Close \/ Tick \/ TickUnseen
    BY <1>4 DEF Close, Tick, TickUnseen, logins
<1>5. ASSUME NEW f \in fetches, Invalidate(f) \/ Insert(f) \/ Receive(f) \/ FetchFails(f)
      PROVE  /\ UNCHANGED <<fetched, overlapped, spent, scans>>
             /\ \/ Invalidate(f)
                \/ Insert(f)
                \/ fetches' = fetches \ {f} /\ UNCHANGED tokens /\ (Receive(f) \/ FetchFails(f))
    BY <1>5 DEF Invalidate, Insert, Receive, FetchFails, logins
<1>6. CASE \E p \in Phones : Scan(p)
    BY <1>6 DEF Scan
<1>7. CASE \E s \in scans : Check(s) \/ Mark(s) \/ Register(s) \/ LoginFails(s)
    BY <1>7 DEF Check, Mark, Register, LoginFails
<1> QED BY <1>2, <1>3, <1>4, <1>5, <1>6, <1>7 DEF PairingNext

\* Tokens are numbered as they are asked for.
LEMMA NumberedKept == PairingInv /\ PairingNext => Numbered'
<1> SUFFICES ASSUME PairingInv, PairingNext PROVE Numbered'
    OBVIOUS
<1>0. /\ fetched \in 0..MaxFetches /\ MaxFetches \in Nat
      /\ \A f \in fetches : f.id \in Tokens
      /\ \A s \in scans : s.token \in Tokens
    BY PairingAssumption DEF PairingAssumption, PairingInv, PairingTypeOK
<1>1. fetched <= fetched' /\ fetched' \in Nat
    BY <1>0, FetchSteps DEF Tokens, Invalidate, Insert
<1>2. \A f \in fetches' : f.id <= fetched'
    <2>1. CASE UNCHANGED fetches
        BY <2>1, <1>0, <1>1 DEF PairingInv, Numbered, Tokens
    <2>2. CASE fetches' = fetches \cup {[id |-> fetched', stage |-> "sent"]}
        BY <2>2, <1>0, <1>1 DEF PairingInv, Numbered, Tokens
    <2>3. ASSUME NEW f \in fetches, Invalidate(f) \/ Insert(f) \/ fetches' = fetches \ {f}
          PROVE  \A g \in fetches' : g.id <= fetched'
        <3>1. f \in FetchSet
            BY DEF PairingInv, PairingTypeOK, FetchSet
        <3>2. \A g \in fetches' : g \in fetches \/ g.id = f.id
            BY <2>3, <3>1 DEF Invalidate, Insert, FetchSet
        <3> QED BY <3>2, <1>0, <1>1 DEF PairingInv, Numbered, Tokens
    <2> QED BY <2>1, <2>2, <2>3, FetchSteps
<1>3. \A s \in scans' : s.token <= fetched'
    <2>1. ASSUME NEW p \in Phones, Scan(p) PROVE \A s \in scans' : s.token <= fetched'
        <3>1. modal.code \in Tokens /\ modal.code <= fetched
            BY <2>1 DEF Scan, PairingInv, OnScreen
        <3> QED BY <2>1, <3>1 DEF Scan, PairingInv, Numbered
    <2>2. ASSUME NEW s \in scans, Check(s) \/ Mark(s) \/ Register(s) \/ LoginFails(s)
          PROVE  \A q \in scans' : q.token <= fetched'
        <3>1. s \in ScanSet
            BY DEF PairingInv, PairingTypeOK, ScanSet
        <3>2. \A q \in scans' : q \in scans \/ q.token = s.token
            BY <2>2, <3>1 DEF Check, Mark, Register, LoginFails, ScanSet
        <3> QED BY <3>2, <1>0, <1>1 DEF PairingInv, Numbered, Tokens
    <2>3. CASE UNCHANGED scans
        BY <2>3, <1>0, <1>1 DEF PairingInv, Numbered, Tokens
    <2>4. UNCHANGED scans \/ (\E p \in Phones : Scan(p))
          \/ \E s \in scans : Check(s) \/ Mark(s) \/ Register(s) \/ LoginFails(s)
        BY DEF PairingNext, Open, Again, fetchQRCode, Close, Tick, TickUnseen, Invalidate, Insert,
               Receive, FetchFails, logins
    <2> QED BY <2>1, <2>2, <2>3, <2>4
<1>4. ASSUME NEW t \in Tokens, t > fetched' PROVE ~tokens'[t].made /\ ~tokens'[t].used
    <2>1. t > fetched
        BY <1>0, <1>1, <1>4 DEF Tokens
    <2>2. ~tokens[t].made /\ ~tokens[t].used
        BY <2>1 DEF PairingInv, Numbered
    <2>3. \A f \in fetches : t # f.id
        BY <2>1, <1>0 DEF PairingInv, Numbered, Tokens
    <2>4. \A s \in scans : t # s.token
        BY <2>1, <1>0 DEF PairingInv, Numbered, Tokens
    <2> QED BY <2>2, <2>3, <2>4, TokenSteps
<1> QED BY <1>2, <1>3, <1>4 DEF Numbered

\* A request that runs beside no other keeps its token unused.
LEMMA AloneKept == PairingInv /\ PairingNext => Alone'
<1> SUFFICES ASSUME PairingInv, PairingNext PROVE Alone'
    OBVIOUS
<1>0. \A f \in fetches : f \in FetchSet /\ f.id \in Tokens /\ f.id <= fetched
    BY DEF PairingInv, PairingTypeOK, FetchSet, Numbered
<1>1. CASE /\ fetched' = fetched + 1 /\ fetched' \in Tokens
           /\ fetches' = fetches \cup {[id |-> fetched', stage |-> "sent"]}
           /\ overlapped' = IF fetches = {} THEN overlapped
                            ELSE overlapped \cup {f.id : f \in fetches'}
           /\ UNCHANGED <<tokens, scans, spent>>
    <2>1. ~tokens'[fetched'].used
        <3>1. fetched' > fetched
            BY <1>1 DEF PairingInv, PairingTypeOK
        <3> QED BY <1>1, <3>1 DEF PairingInv, Numbered
    <2>2. CASE fetches = {}
        BY <1>1, <2>1, <2>2 DEF Alone
    <2>3. CASE fetches # {}
        <3>1. \A f \in fetches' : f.id \in overlapped'
            BY <1>1, <2>3
        <3> QED BY <1>1, <3>1 DEF PairingInv, Alone
    <2> QED BY <2>2, <2>3
<1>2. ASSUME NEW f \in fetches, Invalidate(f) \/ Insert(f),
             UNCHANGED <<fetched, overlapped, spent, scans>>
      PROVE  Alone'
    <2>1. PICK c \in {"cleared", "inserted"} :
             /\ fetches' = (fetches \ {f}) \cup {[f EXCEPT !.stage = c]}
             /\ c = "inserted" => Insert(f)
             /\ c = "cleared" => Invalidate(f)
        BY <1>2 DEF Invalidate, Insert
    <2> DEFINE n == [f EXCEPT !.stage = c]
    <2>2. n.id = f.id /\ n.stage = c
        BY <1>0 DEF FetchSet
    <2>3. ASSUME NEW g \in fetches' PROVE g.stage = "inserted" => tokens'[g.id].made
        <3>1. CASE g = n /\ c = "inserted"
            BY <2>1, <2>2, <3>1, <1>0 DEF Insert, PairingInv, PairingTypeOK
        <3>2. CASE g \in fetches
            BY <3>2, <1>0, TokenSteps DEF PairingInv, Alone
        <3> QED BY <2>1, <2>2, <3>1, <3>2
    <2>4. ASSUME NEW g \in fetches', g.id \notin overlapped' PROVE \A h \in fetches' : h = g
        <3>1. fetches = {f}
            BY <2>1, <2>2, <2>4, <1>2 DEF PairingInv, Alone
        <3> QED BY <2>1, <3>1
    <2>5. ASSUME NEW g \in fetches', g.id \notin overlapped' \cup spent' PROVE ~tokens'[g.id].used
        <3>1. fetches = {f} /\ g.id = f.id
            BY <2>1, <2>2, <2>5, <1>2 DEF PairingInv, Alone
        <3>2. ~tokens[f.id].used
            BY <3>1, <2>5, <1>2 DEF PairingInv, Alone
        <3>3. \A h \in fetches : h.id = g.id
            BY <3>1
        <3> QED BY <3>1, <3>2, <3>3, <1>0, <2>5, TokenSteps
    <2> QED BY <2>3, <2>4, <2>5 DEF Alone
<1>3. ASSUME NEW f \in fetches, fetches' = fetches \ {f},
             UNCHANGED <<fetched, overlapped, spent, scans, tokens>>
      PROVE  Alone'
    BY <1>3 DEF PairingInv, Alone
<1>4. CASE UNCHANGED <<fetched, fetches, overlapped>> /\ spent \subseteq spent'
    <2>1. \A f \in fetches : tokens[f.id].made => tokens'[f.id].made
        BY <1>0, TokenSteps
    <2>2. ASSUME NEW f \in fetches, f.id \notin overlapped' \cup spent'
          PROVE  ~tokens'[f.id].used
        <3>1. ~tokens[f.id].used /\ \A g \in fetches : g = f
            BY <1>4, <2>2 DEF PairingInv, Alone
        <3> QED BY <3>1, <2>2, <1>0, TokenSteps
    <2> QED BY <1>4, <2>1, <2>2 DEF PairingInv, Alone
<1> QED BY <1>1, <1>2, <1>3, <1>4, FetchSteps

-----------------------------------------------------------------------------
(* The code on screen, and one phone per token.                            *)

\* A code that is withdrawn stays on screen only while a request is in flight.
LEMMA OnScreenKept == PairingInv /\ PairingNext => OnScreen'
<1> SUFFICES ASSUME PairingInv, PairingNext, modal'.status = "waiting"
             PROVE  /\ modal'.code \in Tokens /\ modal'.code <= fetched'
                    /\ tokens'[modal'.code].made
                    /\ modal'.code \notin overlapped' \cup spent' /\ tokens'[modal'.code].used
                          => fetches' # {}
    BY DEF OnScreen
<1>0. /\ modal \in ModalSet /\ fetched \in Nat
      /\ \A f \in fetches : f \in FetchSet /\ f.id \in Tokens /\ f.id <= fetched
    BY DEF PairingInv, PairingTypeOK, ModalSet, FetchSet, Numbered
<1>1. ASSUME NEW f \in fetches, Receive(f)
      PROVE  /\ modal'.code \in Tokens /\ modal'.code <= fetched'
             /\ tokens'[modal'.code].made
             /\ modal'.code \notin overlapped' \cup spent' /\ tokens'[modal'.code].used
                   => fetches' # {}
    <2>1. modal' = [modal EXCEPT !.loading = FALSE, !.code = f.id, !.status = "waiting",
                                 !.left = tokens[f.id].left]
        BY <1>1 DEF Receive
    <2>2. modal'.code = f.id
        BY <2>1, <1>0 DEF ModalSet
    <2>3. UNCHANGED <<fetched, overlapped, tokens, spent>> /\ f.stage = "inserted"
        BY <1>1 DEF Receive, logins
    <2>4. tokens[f.id].made /\ (f.id \notin overlapped \cup spent => ~tokens[f.id].used)
        BY <2>3 DEF PairingInv, Alone
    <2> QED BY <2>2, <2>3, <2>4, <1>0
<1>2. ASSUME NEW f \in fetches, FetchFails(f) PROVE FALSE
    <2>1. modal'.status = "error"
        BY <1>2, <1>0 DEF FetchFails, Failed, ModalSet
    <2> QED BY <2>1
<1>3. CASE Close
    <2>1. modal' = [modal EXCEPT !.open = FALSE, !.code = 0, !.status = "idle", !.left = 0]
        BY <1>3 DEF Close
    <2>2. modal'.status = "idle"
        BY <2>1, <1>0 DEF ModalSet
    <2> QED BY <2>2
<1>4. ASSUME /\ modal'.code = modal.code /\ modal.status = "waiting"
             /\ fetched <= fetched' /\ fetched' \in Nat
             /\ overlapped \subseteq overlapped' /\ spent \subseteq spent'
             /\ fetches # {} => fetches' # {}
      PROVE  /\ modal'.code \in Tokens /\ modal'.code <= fetched'
             /\ tokens'[modal'.code].made
             /\ modal'.code \notin overlapped' \cup spent' /\ tokens'[modal'.code].used
                   => fetches' # {}
    <2>1. /\ modal.code \in Tokens /\ modal.code <= fetched
          /\ tokens[modal.code].made
          /\ modal.code \notin overlapped \cup spent /\ tokens[modal.code].used => fetches # {}
        BY <1>4 DEF PairingInv, OnScreen
    <2>2. tokens'[modal.code].made
        BY <2>1, TokenSteps
    <2>3. ASSUME modal.code \notin overlapped' \cup spent', tokens'[modal.code].used
          PROVE  fetches' # {}
        <3>1. tokens[modal.code].used \/ fetches # {}
            BY <2>1, <2>3, TokenSteps
        <3> QED BY <1>4, <2>1, <2>3, <3>1
    <2> QED BY <1>0, <1>4, <2>1, <2>2, <2>3 DEF Tokens
<1>5. CASE Tick
    <2>1. modal' = Counted /\ modal.status = "waiting"
        BY <1>5 DEF Tick, Counting
    <2>2. modal'.code = modal.code
        BY <2>1, <1>0 DEF Counted, ModalSet
    <2> QED BY <1>0, <1>4, <1>5, <2>1, <2>2 DEF Tick, logins
<1>6. CASE Open \/ Again
    <2>1. \/ modal' = [[modal EXCEPT !.open = TRUE] EXCEPT !.loading = TRUE, !.error = FALSE]
          \/ modal' = [modal EXCEPT !.loading = TRUE, !.error = FALSE]
        BY <1>6 DEF Open, Again, fetchQRCode
    <2>2. modal'.status = modal.status /\ modal'.code = modal.code
        BY <2>1, <1>0 DEF ModalSet
    <2>3. /\ fetched' = fetched + 1 /\ spent' = spent
          /\ overlapped \subseteq overlapped' /\ fetches \subseteq fetches'
        BY <1>6 DEF Open, Again, fetchQRCode, logins
    <2> QED BY <1>0, <1>4, <2>2, <2>3
<1>7. ASSUME NEW f \in fetches, Invalidate(f) \/ Insert(f)
      PROVE  /\ UNCHANGED <<modal, fetched, overlapped, spent>> /\ fetches' # {}
    BY <1>7 DEF Invalidate, Insert, component, logins
<1>8. CASE \/ TickUnseen
           \/ \E p \in Phones : Scan(p)
           \/ \E s \in scans : Check(s) \/ Mark(s) \/ Register(s) \/ LoginFails(s)
    <2>1. UNCHANGED <<modal, fetched, fetches, overlapped>> /\ spent \subseteq spent'
        BY <1>8 DEF TickUnseen, Scan, Check, Mark, Register, LoginFails, component, logins
    <2> QED BY <1>0, <1>4, <2>1
<1>9. CASE \E f \in fetches : Invalidate(f) \/ Insert(f)
    BY <1>0, <1>4, <1>7, <1>9
<1> QED BY <1>1, <1>2, <1>3, <1>5, <1>6, <1>8, <1>9 DEF PairingNext

\* Once a login of a token is past the check no other gets there, unless it was
\* there already or the token could not be marked.
LEMMA SinglesKept == PairingInv /\ PairingNext => Singles'
<1> SUFFICES ASSUME PairingInv, PairingNext, NEW t \in Tokens, t \notin raced'
             PROVE  /\ \A s1, s2 \in scans' : Past(s1, t) /\ Past(s2, t) => s1 = s2
                    /\ \A s \in scans' : s.token = t /\ s.stage = "marked" => tokens'[t].used
                    /\ \A p \in Phones : <<t, p>> \in paired' =>
                          tokens'[t].used /\ \A s \in scans' : ~Past(s, t)
                    /\ \A p, q \in Phones : <<t, p>> \in paired' /\ <<t, q>> \in paired' => p = q
    BY DEF Singles, Single, Past
<1>0. \A s \in scans : s \in ScanSet
    BY DEF PairingInv, PairingTypeOK, ScanSet
<1>r. raced \subseteq raced'
    BY DEF PairingNext, Open, Again, fetchQRCode, Close, Tick, TickUnseen, Invalidate, Insert,
           Receive, FetchFails, Scan, Check, Mark, Register, LoginFails, logins
<1>h. /\ \A s1, s2 \in scans : Past(s1, t) /\ Past(s2, t) => s1 = s2
      /\ \A s \in scans : s.token = t /\ s.stage = "marked" => tokens[t].used
      /\ \A p \in Phones : <<t, p>> \in paired =>
            tokens[t].used /\ \A s \in scans : ~Past(s, t)
      /\ \A p, q \in Phones : <<t, p>> \in paired /\ <<t, q>> \in paired => p = q
    BY <1>r DEF PairingInv, Singles, Single
<1>u. tokens[t].used => tokens'[t].used
    BY TokenSteps
<1>1. CASE /\ paired' = paired
           /\ \A s \in scans' : Past(s, t) => s \in scans
    BY <1>1, <1>h, <1>u DEF Past
<1>2. CASE UNCHANGED <<scans, paired>>
    BY <1>1, <1>2
<1>3. ASSUME NEW p \in Phones, Scan(p)
      PROVE  paired' = paired /\ \A s \in scans' : Past(s, t) => s \in scans
    BY <1>3 DEF Scan, Past
<1>4. ASSUME NEW s \in scans, LoginFails(s)
      PROVE  paired' = paired /\ \A q \in scans' : Past(q, t) => q \in scans
    BY <1>4 DEF LoginFails
<1>5. ASSUME NEW s \in scans, Check(s)
      PROVE  /\ \A s1, s2 \in scans' : Past(s1, t) /\ Past(s2, t) => s1 = s2
             /\ \A q \in scans' : q.token = t /\ q.stage = "marked" => tokens'[t].used
             /\ \A p \in Phones : <<t, p>> \in paired' =>
                   tokens'[t].used /\ \A q \in scans' : ~Past(q, t)
             /\ \A p, q \in Phones : <<t, p>> \in paired' /\ <<t, q>> \in paired' => p = q
    <2> DEFINE n == [s EXCEPT !.stage = "checked"]
    <2>1. n.token = s.token /\ n.stage = "checked"
        BY <1>0 DEF ScanSet
    <2>2. scans' = (scans \ {s}) \cup {n} /\ UNCHANGED <<paired, tokens>>
        BY <1>5 DEF Check
    <2>3. CASE s.token # t
        BY <2>1, <2>2, <2>3, <1>h DEF Past
    <2>4. CASE s.token = t
        <3>1. ~tokens[t].used
            BY <2>4, <1>5 DEF Check, Valid
        <3>2. ~\E q \in scans : q.token = t /\ q.stage = "checked"
            BY <2>4, <1>5 DEF Check
        <3>3. \A q \in scans : ~Past(q, t)
            BY <3>1, <3>2, <1>h DEF Past
        <3>4. \A p \in Phones : <<t, p>> \notin paired
            BY <3>1, <1>h
        <3>5. \A q \in scans' : Past(q, t) => q = n
            BY <2>2, <3>3
        <3> QED BY <2>1, <2>2, <3>4, <3>5 DEF Past
    <2> QED BY <2>3, <2>4
<1>6. ASSUME NEW s \in scans, Mark(s)
      PROVE  /\ \A s1, s2 \in scans' : Past(s1, t) /\ Past(s2, t) => s1 = s2
             /\ \A q \in scans' : q.token = t /\ q.stage = "marked" => tokens'[t].used
             /\ \A p \in Phones : <<t, p>> \in paired' =>
                   tokens'[t].used /\ \A q \in scans' : ~Past(q, t)
             /\ \A p, q \in Phones : <<t, p>> \in paired' /\ <<t, q>> \in paired' => p = q
    <2> DEFINE n == [s EXCEPT !.stage = "marked"]
    <2>1. n.token = s.token /\ n.stage = "marked" /\ s.stage = "checked"
        BY <1>0, <1>6 DEF ScanSet, Mark
    <2>2. scans' = (scans \ {s}) \cup {n} /\ UNCHANGED paired
        BY <1>6 DEF Mark
    <2>3. CASE s.token # t
        BY <2>1, <2>2, <2>3, <1>h, <1>u DEF Past
    <2>4. CASE s.token = t
        <3>1. tokens' = [tokens EXCEPT ![s.token].used = TRUE]
            BY <2>4, <1>6 DEF Mark
        <3>2. tokens'[t].used
            BY <2>4, <3>1 DEF PairingInv, PairingTypeOK
        <3>3. Past(s, t)
            BY <2>1, <2>4 DEF Past
        <3>4. \A q \in scans' : Past(q, t) => q = n
            BY <2>2, <3>3, <1>h
        <3>5. \A p \in Phones : <<t, p>> \notin paired
            BY <3>3, <1>h
        <3> QED BY <2>2, <3>2, <3>4, <3>5
    <2> QED BY <2>3, <2>4
<1>7. ASSUME NEW s \in scans, Register(s)
      PROVE  /\ \A s1, s2 \in scans' : Past(s1, t) /\ Past(s2, t) => s1 = s2
             /\ \A q \in scans' : q.token = t /\ q.stage = "marked" => tokens'[t].used
             /\ \A p \in Phones : <<t, p>> \in paired' =>
                   tokens'[t].used /\ \A q \in scans' : ~Past(q, t)
             /\ \A p, q \in Phones : <<t, p>> \in paired' /\ <<t, q>> \in paired' => p = q
    <2>1. /\ scans' = scans \ {s} /\ UNCHANGED tokens /\ s.stage = "marked"
          /\ paired' = paired \cup {<<s.token, s.phone>>}
        BY <1>7 DEF Register
    <2>2. CASE s.token # t
        BY <2>1, <2>2, <1>h
    <2>3. CASE s.token = t
        <3>1. Past(s, t) /\ tokens[t].used
            BY <2>1, <2>3, <1>h DEF Past
        <3>2. \A p \in Phones : <<t, p>> \notin paired
            BY <3>1, <1>h
        <3>3. \A q \in scans' : ~Past(q, t)
            BY <2>1, <3>1, <1>h
        <3>4. \A p \in Phones : <<t, p>> \in paired' => p = s.phone
            BY <2>1, <3>2
        <3> QED BY <2>1, <3>1, <3>3, <3>4
    <2> QED BY <2>2, <2>3
<1>8. \/ UNCHANGED <<scans, paired>>
      \/ \E p \in Phones : Scan(p)
      \/ \E s \in scans : Check(s) \/ Mark(s) \/ Register(s) \/ LoginFails(s)
    BY DEF PairingNext, Open, Again, fetchQRCode, Close, Tick, TickUnseen, Invalidate, Insert,
           Receive, FetchFails, logins
<1> QED BY <1>1, <1>2, <1>3, <1>4, <1>5, <1>6, <1>7, <1>8

-----------------------------------------------------------------------------
(* Theorems on the pairing modal.                                          *)

\* The invariant of the pairing page holds on every page of the portal.
LEMMA PairingInvariant == Spec => []PairingInv
<1>1. Init => PairingInv
    BY InitPairing DEF Init
<1>2. PairingInv /\ [Next]_vars => PairingInv'
    <2> SUFFICES ASSUME PairingInv, [Next]_vars PROVE PairingInv'
        OBVIOUS
    <2>1. CASE PairingNext
        BY <2>1, PairingTypesKept, NumberedKept, AloneKept, OnScreenKept, SinglesKept
           DEF PairingInv
    <2>2. CASE UNCHANGED pairingVars
        BY <2>2 DEF pairingVars, component, logins, PairingInv, PairingTypeOK, Numbered, Alone,
                    OnScreen, Singles, Single, Past
    <2>3. PairingNext \/ UNCHANGED pairingVars
        BY DEF Next, vars
    <2> QED BY <2>1, <2>2, <2>3
<1> QED BY <1>1, <1>2, PTL DEF Spec

\* The modal, the rows of the tokens and the logins in progress keep their types,
\* for any number of phones, codes and ticks.
THEOREM PairingTypes == Spec => []PairingTypeOK
<1>1. PairingInv => PairingTypeOK
    BY DEF PairingInv
<1> QED BY <1>1, PairingInvariant, PTL

\* A code on screen that ran beside no other request and that no phone has used
\* is one QRLogin accepts: AddDeviceQRModal shows no withdrawn code at rest.
THEOREM ShownCodeHolds == Spec => []ShownCodeWorks
<1>1. PairingInv => ShownCodeWorks
    BY DEF PairingInv, OnScreen, ShownCodeWorks
<1> QED BY <1>1, PairingInvariant, PTL

\* QRLogin pairs one phone per token, outside the two cases that PairsOnce names.
THEOREM TokenPairsOnce == Spec => []PairsOnce
<1>1. PairingInv => PairsOnce
    <2> SUFFICES ASSUME PairingInv, NEW t \in Tokens \ raced
                 PROVE  Cardinality({p \in Phones : <<t, p>> \in paired}) <= 1
        BY DEF PairsOnce
    <2> DEFINE S == {p \in Phones : <<t, p>> \in paired}
    <2>1. \A p, q \in S : p = q
        BY DEF PairingInv, Singles, Single
    <2>2. CASE S = {}
        <3> HIDE DEF S
        <3>1. Cardinality({}) = 0
            BY FS_EmptySet
        <3>2. Cardinality(S) = 0
            BY <2>2, <3>1
        <3> QED BY <3>2 DEF S
    <2>3. ASSUME NEW p \in S PROVE Cardinality(S) <= 1
        <3>1. S = {p}
            BY <2>1, <2>3
        <3> HIDE DEF S
        <3>2. Cardinality({p}) = 1
            BY FS_Singleton
        <3> QED BY <3>1, <3>2
    <2> QED BY <2>2, <2>3
<1> QED BY <1>1, PairingInvariant, PTL

-----------------------------------------------------------------------------
(* The cards of the settings page.                                         *)

Follows == {"create", "revokeOthers"}
Settles == {"verify", "disable", "submit"}

\* The requests that each card sends, and the modals it opens.
CardOps(c) ==
    CASE c = "twofa" -> {"load", "setup", "verify", "disable"}
      [] c = "kyc" -> {"load", "submit"}
      [] c = "sessions" -> {"load", "revoke", "revokeOthers"}
      [] c = "keys" -> {"load", "reload", "revoke", "create"}
      [] c = "prefs" -> {"load", "save"}
      [] OTHER -> {"change"}
OfCard ==
    /\ \A r \in reqs : r.op \in CardOps(card)
    /\ \A f \in forms : f \in CardOps(card)

\* Ids are never used twice; requests sent later, with the loads that follow
\* accepted changes, stay within the bound.
Awaiting == {r.id : r \in {q \in reqs : q.op \in Follows}}
NumberedRequests ==
    /\ \A r \in reqs : r.id <= sent
    /\ \A r, q \in reqs : r.id = q.id => r = q
    /\ IsFiniteSet(Awaiting)
    /\ Cardinality(Awaiting) <= sent /\ sent + Cardinality(Awaiting) <= 2 * MaxSent

\* One request at a time holds a busy flag.
Holds(r) == r.op \in Exclusive \cup {"reload"}
OneHolds ==
    /\ \A r \in reqs : Holds(r) => busy
    /\ \A r, q \in reqs : Holds(r) /\ Holds(q) => r = q

\* No row is above those of the requests sent, and that of a key which is still
\* to be made is nowhere.
NewRows ==
    /\ \A x \in server \cup shown : x <= Others + sent
    /\ \A q \in reqs : \A x \in q.rows : x <= Others + sent
    /\ \A r \in reqs : r.op = "create" /\ ~r.ran =>
          Others + r.id \notin server \cup shown /\ \A q \in reqs : Others + r.id \notin q.rows

\* A load that nothing has overtaken carries rows that the server holds, all of them
\* if it read all; of the switches it always does.
FreshLoads ==
    \A r \in reqs : r.op \in Loads /\ r.ran /\ r.fresh =>
        /\ r.rows \subseteq server /\ (r.whole => r.rows = server)
        /\ card = "prefs" => r.whole

\* A change that ran and whose reply is awaited is still in force.
InForce ==
    \A r \in reqs : r.ran =>
        /\ r.op \in {"verify", "submit"} => server = {Own}
        /\ r.op = "disable" => server = {}
        /\ r.op = "save" => server = r.rows
        /\ r.op = "revoke" => r.rows \cap server = {}

\* Switches that were not moved since, and that no load has overwritten or will,
\* are those that the save in flight carries.
SavesShown ==
    ~doubt /\ ~dirty /\ (\A r \in reqs : r.op \notin Loads)
    => \A r \in reqs : r.op = "save" => r.rows = shown

\* Requests whose end will decide what the card shows.
Owes(r) == r.op \in Loads \cup {"save"} \/ (r.op \in Follows \cup Settles /\ r.ran)

\* Without these, the card shows rows that the server holds, all of them if the load
\* read all, and besides only rows whose revocation has run and was not yet accepted.
Kept(x) == \A r \in reqs : r.op = "revoke" /\ r.ran => x \notin r.rows
Agrees ==
    ~doubt /\ ~dirty /\ (\A r \in reqs : ~Owes(r)) =>
        /\ {x \in shown : Kept(x)} \subseteq server
        /\ ~partial => server = {x \in shown : Kept(x)}

\* Types, without the bounds of ids and rows: those follow.
SettingsShape ==
    /\ card \in Cards /\ server \subseteq Nat /\ shown \subseteq Nat
    /\ {loading, busy, dirty, doubt, partial} \subseteq BOOLEAN
    /\ forms \subseteq Forms /\ sent \in Nat /\ sent > 0
    /\ reqs \subseteq [id : Nat, op : Changes \cup Loads, rows : SUBSET Nat,
                       ran : BOOLEAN, whole : BOOLEAN, fresh : BOOLEAN]
    /\ \A r \in reqs : r.id > 0

SettingsInv == /\ SettingsShape /\ OfCard /\ NumberedRequests /\ OneHolds /\ NewRows
               /\ FreshLoads /\ InForce /\ SavesShown /\ Agrees

ReqSet == [id : Nat, op : Changes \cup Loads, rows : SUBSET Nat, ran : BOOLEAN, whole : BOOLEAN, fresh : BOOLEAN]

-----------------------------------------------------------------------------

\* Which cards send a request.
LEMMA OpsOfCard ==
    ASSUME SettingsInv, NEW r \in reqs
    PROVE  /\ r \in ReqSet /\ r.op \in CardOps(card) /\ card \in Cards
           /\ r.op \in {"setup", "verify", "disable"} => card = "twofa"
           /\ r.op = "submit" => card = "kyc"
           /\ r.op = "save" => card = "prefs"
           /\ r.op = "change" => card = "password"
           /\ r.op \in {"create", "reload"} => card = "keys"
           /\ r.op = "revokeOthers" => card = "sessions"
           /\ r.op = "revoke" => card \in Lists
<1>1. r \in ReqSet /\ r.op \in CardOps(card) /\ card \in Cards
    BY DEF SettingsInv, SettingsShape, OfCard, ReqSet
<1> QED BY <1>1 DEF CardOps, Cards, Lists

\* A request when it is sent.
LEMMA NewRequest ==
    ASSUME NEW i \in Nat, NEW op \in Changes \cup Loads, NEW rows \in SUBSET Nat
    PROVE  /\ Request(i, op, rows) \in ReqSet
           /\ Request(i, op, rows).id = i /\ Request(i, op, rows).op = op
           /\ Request(i, op, rows).rows = rows /\ ~Request(i, op, rows).ran
BY DEF Request, ReqSet

\* What the page is opened with.
LEMMA InitSettings == SettingsInit => SettingsInv
<1> SUFFICES ASSUME SettingsInit PROVE SettingsInv
    OBVIOUS
<1>0. Others \in Nat /\ MaxSent \in Nat \ {0}
    BY SettingsAssumption DEF SettingsAssumption
<1>1. card \in Cards /\ server \subseteq Old /\ shown \subseteq {Own} /\ forms = {} /\ sent = 1
    BY <1>0 DEF SettingsInit, Held, Old, Own, Cards
<1>2. \A r \in reqs : r = Request(1, "load", {}) /\ card # "password"
    BY DEF SettingsInit
<1>3. \A r \in reqs : r \in ReqSet /\ r.id = 1 /\ r.op = "load" /\ r.rows = {} /\ ~r.ran
    <2>1. 1 \in Nat /\ "load" \in Changes \cup Loads /\ {} \in SUBSET Nat
        BY DEF Loads
    <2> DEFINE q == Request(1, "load", {})
    <2>2. q \in ReqSet /\ q.id = 1 /\ q.op = "load" /\ q.rows = {} /\ ~q.ran
        BY <2>1, NewRequest
    <2>3. \A r \in reqs : r = q
        BY <1>2
    <2> HIDE DEF q
    <2> QED BY <2>2, <2>3
<1>4. SettingsShape
    <2>1. server \subseteq Nat /\ shown \subseteq Nat
        BY <1>0, <1>1 DEF Old, Own
    <2>2. reqs \subseteq ReqSet /\ \A r \in reqs : r.id > 0
        BY <1>3
    <2>3. {loading, busy, dirty, doubt, partial} \subseteq BOOLEAN
        <3> DEFINE listed == card \in Lists
                   read == card # "password"
        <3>1. listed \in BOOLEAN /\ read \in BOOLEAN
            OBVIOUS
        <3>0. loading = listed /\ doubt = read
            BY Zenon DEF SettingsInit
        <3> HIDE DEF listed, read
        <3>2. loading \in BOOLEAN /\ doubt \in BOOLEAN /\ busy \in BOOLEAN /\ dirty \in BOOLEAN /\ partial \in BOOLEAN
            BY <3>0, <3>1 DEF SettingsInit
        <3> QED BY <3>1, <3>2
    <2> QED BY <1>1, <2>1, <2>2, <2>3 DEF SettingsShape, ReqSet
<1>5. OfCard
    BY <1>1, <1>2, <1>3 DEF OfCard, CardOps, Cards
<1>6. Awaiting = {} /\ IsFiniteSet({}) /\ Cardinality({}) = 0
    BY <1>3, FS_EmptySet DEF Awaiting, Follows
<1>7. NumberedRequests
    BY <1>0, <1>1, <1>2, <1>3, <1>6 DEF NumberedRequests
<1>8. OneHolds
    BY <1>3 DEF OneHolds, Holds, Exclusive, Changes
<1>9. NewRows
    BY <1>0, <1>1, <1>3 DEF NewRows, Old, Own
<1>10. FreshLoads /\ InForce /\ SavesShown
    BY <1>3 DEF FreshLoads, InForce, SavesShown
<1>11. Agrees
    <2>1. SUFFICES ASSUME ~doubt, \A r \in reqs : ~Owes(r) PROVE server = {x \in shown : Kept(x)}
        BY Zenon DEF Agrees
    <2>2. card = "password" /\ server = {} /\ shown = {}
        BY <2>1, <1>1 DEF SettingsInit, Held
    <2> QED BY <2>2
<1> QED BY <1>4, <1>5, <1>7, <1>8, <1>9, <1>10, <1>11 DEF SettingsInv

-----------------------------------------------------------------------------
(* The user.                                                               *)

\* A request is sent: rows are shown ones, a save carries what is shown and means
\* that no switch has moved since; an exclusive request finds its flag down.
Sends(op, rows) ==
    /\ op \in Changes /\ op \in CardOps(card) /\ rows \subseteq shown
    /\ Send(op, rows)
    /\ op \in Exclusive => ~busy
    /\ busy' = (busy \/ op \in Exclusive)
    /\ op = "save" => rows = shown
    /\ dirty' = (dirty /\ op # "save")
    /\ UNCHANGED <<card, server, shown, loading, forms, doubt, partial>>

\* Such a request keeps the invariant.
LEMMA SendKeeps ==
    ASSUME SettingsInv, NEW op, NEW rows, Sends(op, rows)
    PROVE  SettingsInv'
<1> DEFINE r == Request(sent + 1, op, rows)
<1>0. /\ Others \in Nat /\ MaxSent \in Nat \ {0} /\ sent \in Nat /\ server \subseteq Nat /\ shown \subseteq Nat
      /\ reqs \subseteq ReqSet
      /\ \A q \in reqs : q \in ReqSet /\ q.id \in Nat /\ q.rows \subseteq Nat
    BY SettingsAssumption DEF SettingsAssumption, SettingsInv, SettingsShape, ReqSet
<1>1. /\ sent' = sent + 1 /\ sent < MaxSent /\ reqs' = reqs \cup {r}
      /\ op \in Changes /\ rows \subseteq shown /\ op \in CardOps(card)
      /\ UNCHANGED <<card, server, shown, loading, forms, doubt, partial>>
    BY DEF Sends, Send
<1>2. /\ r.id = sent + 1 /\ r.op = op /\ r.rows = rows /\ ~r.ran /\ r \in ReqSet
    BY <1>0, <1>1 DEF Request, ReqSet
<1>3. op \notin Loads /\ op # "reload"
    BY <1>1 DEF Changes, Loads
<1> HIDE DEF r
<1>4. SettingsShape'
    BY <1>0, <1>1, <1>2 DEF SettingsInv, SettingsShape, ReqSet, Sends
<1>5. OfCard'
    BY <1>1, <1>2 DEF SettingsInv, OfCard
<1>6. NumberedRequests'
    <2>1. \A q \in reqs : q.id <= sent
        BY DEF SettingsInv, NumberedRequests
    <2>2. IsFiniteSet(Awaiting) /\ Cardinality(Awaiting) <= sent /\ Cardinality(Awaiting) \in Nat
        BY FS_CardinalityType DEF SettingsInv, NumberedRequests
    <2>3. Awaiting' = IF op \in Follows THEN Awaiting \cup {sent + 1} ELSE Awaiting
        BY <1>1, <1>2 DEF Awaiting
    <2>4. /\ IsFiniteSet(Awaiting \cup {sent + 1})
          /\ Cardinality(Awaiting \cup {sent + 1}) <= Cardinality(Awaiting) + 1
          /\ Cardinality(Awaiting \cup {sent + 1}) \in Nat
        <3>1. /\ IsFiniteSet(Awaiting \cup {sent + 1})
              /\ Cardinality(Awaiting \cup {sent + 1})
                    = (IF sent + 1 \in Awaiting THEN Cardinality(Awaiting) ELSE Cardinality(Awaiting) + 1)
            BY <2>2, FS_AddElement, Zenon
        <3> QED BY <2>2, <3>1
    <2>5. /\ IsFiniteSet(Awaiting') /\ Cardinality(Awaiting') \in Nat
          /\ Cardinality(Awaiting') <= sent + 1
        BY <1>0, <2>2, <2>3, <2>4
    <2>6. \A q \in reqs' : q.id <= sent'
        BY <1>0, <1>1, <1>2, <2>1
    <2>7. \A p, q \in reqs' : p.id = q.id => p = q
        <3>1. \A q \in reqs : q.id # sent + 1
            BY <1>0, <2>1
        <3> QED BY <1>1, <1>2, <3>1 DEF SettingsInv, NumberedRequests
    <2>8. sent' + Cardinality(Awaiting') <= 2 * MaxSent
        BY <1>0, <1>1, <2>5
    <2> QED BY <1>1, <2>5, <2>6, <2>7, <2>8 DEF NumberedRequests
<1>7. OneHolds'
    <2>1. Holds(r) <=> op \in Exclusive
        BY <1>2, <1>3 DEF Holds
    <2>2. \A q \in reqs : Holds(q) => busy
        BY DEF SettingsInv, OneHolds
    <2> QED BY <1>1, <2>1, <2>2 DEF SettingsInv, OneHolds, Sends, Holds
<1>8. NewRows'
    <2>1. \A x \in server \cup shown \cup rows : x <= Others + sent /\ x \in Nat
        BY <1>0, <1>1 DEF SettingsInv, NewRows
    <2>2. \A q \in reqs : \A x \in q.rows : x <= Others + sent /\ x \in Nat
        BY <1>0 DEF SettingsInv, NewRows
    <2>3. /\ \A x \in server' \cup shown' : x <= Others + sent'
          /\ \A q \in reqs' : \A x \in q.rows : x <= Others + sent'
        <3>1. \A n : n \in Nat /\ n <= Others + sent => n <= Others + sent'
            BY <1>0, <1>1
        <3>2. \A q \in reqs' : q \in reqs \/ q.rows = rows
            BY <1>1, <1>2
        <3> QED BY <1>1, <2>1, <2>2, <3>1, <3>2
    <2>4. ASSUME NEW p \in reqs', p.op = "create", ~p.ran
          PROVE  Others + p.id \notin server \cup shown /\ \A q \in reqs' : Others + p.id \notin q.rows
        <3>1. CASE p \in reqs
            BY <1>1, <1>2, <2>4, <3>1 DEF SettingsInv, NewRows
        <3>2. CASE p = r
            BY <1>0, <1>1, <1>2, <2>1, <2>2, <3>2
        <3> QED BY <1>1, <3>1, <3>2
    <2> QED BY <1>1, <2>3, <2>4 DEF NewRows
<1>9. FreshLoads' /\ InForce'
    BY <1>1, <1>2 DEF SettingsInv, FreshLoads, InForce
<1>10. SavesShown'
    <2>1. CASE op = "save"
        <3>1. op \in Exclusive
            BY <2>1 DEF Exclusive, Changes
        <3>2. \A q \in reqs : q.op # "save"
            BY <2>1, <3>1 DEF SettingsInv, OneHolds, Holds, Sends
        <3> QED BY <1>1, <1>2, <2>1, <3>2 DEF SavesShown, Sends
    <2>2. CASE op # "save"
        <3> SUFFICES ASSUME ~doubt', ~dirty', \A q \in reqs' : q.op \notin Loads,
                            NEW p \in reqs', p.op = "save"
                     PROVE  p.rows = shown'
            BY DEF SavesShown
        <3>1. p \in reqs /\ \A q \in reqs : q.op \notin Loads
            BY <1>1, <1>2, <2>2
        <3>2. ~doubt /\ ~dirty
            <4>1. dirty \in BOOLEAN
                BY DEF SettingsInv, SettingsShape
            <4> QED BY <1>1, <2>2, <4>1 DEF Sends
        <3> QED BY <1>1, <3>1, <3>2 DEF SettingsInv, SavesShown
    <2> QED BY <2>1, <2>2
<1>11. Agrees'
    <2> SUFFICES ASSUME ~doubt, ~dirty', \A q \in reqs' : ~Owes(q)'
                 PROVE  /\ {x \in shown : Kept(x)'} \subseteq server
                        /\ ~partial => server = {x \in shown : Kept(x)'}
        BY <1>1 DEF Agrees
    <2>1. op # "save"
        BY <1>1, <1>2 DEF Owes
    <2>2. \A q \in reqs : ~Owes(q)
        BY <1>1 DEF Owes
    <2>3. {x \in shown : Kept(x)} \subseteq server /\ (~partial => server = {x \in shown : Kept(x)})
        BY <2>1, <2>2 DEF SettingsInv, Agrees, Sends
    <2>4. \A x \in shown : Kept(x)' <=> Kept(x)
        BY <1>1, <1>2 DEF Kept
    <2> QED BY <2>3, <2>4
<1> QED BY <1>4, <1>5, <1>6, <1>7, <1>8, <1>9, <1>10, <1>11 DEF SettingsInv

\* All requests of the user are sent that way.
LEMMA UserSends ==
    ASSUME SettingsInv,
           \/ handleSetup2FA \/ handleVerify2FA \/ handleDisable2FA
           \/ handleCreateApiKey \/ handleKYCSubmit \/ handlePasswordChange
           \/ \E x \in Rows : handleRevokeSession(x) \/ handleRevokeApiKey(x)
           \/ handleRevokeAllSessions \/ handleSaveNotifications
    PROVE  \E op, rows : Sends(op, rows)
<1>0. card \in Cards /\ busy \in BOOLEAN /\ dirty \in BOOLEAN /\ \A f \in forms : f \in CardOps(card)
    BY DEF SettingsInv, SettingsShape, OfCard
<1>c. \A f \in {"setup", "disable", "create", "submit"} : f \in CardOps(card) =>
         /\ f \in {"setup", "disable"} => card = "twofa"
         /\ f = "create" => card = "keys"
         /\ f = "submit" => card = "kyc"
    BY <1>0 DEF CardOps, Cards
<1>e. /\ {"setup", "verify", "disable", "create", "submit", "change", "save"} \subseteq Exclusive
      /\ Exclusive \subseteq Changes
    BY DEF Exclusive, Changes
<1>1. CASE handleSetup2FA
    BY <1>0, <1>1 DEF handleSetup2FA, SetupOffered, SendExclusive, Sends, CardOps, Exclusive, Changes
<1>2. CASE handleVerify2FA
    <2>1. card = "twofa"
        BY <1>0, <1>c, <1>2 DEF handleVerify2FA, VerifyOffered
    <2>2. "verify" \in CardOps(card)
        BY <2>1 DEF CardOps
    <2>3. Sends("verify", {})
        BY <1>0, <1>e, <1>2, <2>2 DEF handleVerify2FA, SendExclusive, Sends
    <2> QED BY <2>3
<1>3. CASE handleDisable2FA
    <2>1. card = "twofa"
        BY <1>0, <1>c, <1>3 DEF handleDisable2FA, DisableConfirmOffered
    <2>2. "disable" \in CardOps(card)
        BY <2>1 DEF CardOps
    <2>3. Sends("disable", {})
        BY <1>0, <1>e, <1>3, <2>2 DEF handleDisable2FA, SendExclusive, Sends
    <2> QED BY <2>3
<1>4. CASE handleCreateApiKey
    <2>1. card = "keys"
        BY <1>0, <1>c, <1>4 DEF handleCreateApiKey, KeyFormOffered
    <2>2. "create" \in CardOps(card)
        BY <2>1 DEF CardOps
    <2>3. Sends("create", {})
        BY <1>0, <1>e, <1>4, <2>2 DEF handleCreateApiKey, SendExclusive, Sends
    <2> QED BY <2>3
<1>5. CASE handleKYCSubmit
    <2>1. card = "kyc"
        BY <1>0, <1>c, <1>5 DEF handleKYCSubmit, KycFormOffered
    <2>2. "submit" \in CardOps(card)
        BY <2>1 DEF CardOps
    <2>3. Sends("submit", {})
        BY <1>0, <1>e, <1>5, <2>2 DEF handleKYCSubmit, SendExclusive, Sends
    <2> QED BY <2>3
<1>6. CASE handlePasswordChange
    BY <1>0, <1>6 DEF handlePasswordChange, PasswordOffered, SendExclusive, Sends, CardOps, Exclusive, Changes
<1>7. ASSUME NEW x \in Rows, handleRevokeSession(x) \/ handleRevokeApiKey(x)
      PROVE  Sends("revoke", {x})
    BY <1>0, <1>7 DEF handleRevokeSession, handleRevokeApiKey, SessionsOffered, KeysOffered,
                      Sends, CardOps, Exclusive, Changes
<1>8. CASE handleRevokeAllSessions
    BY <1>0, <1>8 DEF handleRevokeAllSessions, Sends, CardOps, Exclusive, Changes
<1>9. CASE handleSaveNotifications
    BY <1>0, <1>9 DEF handleSaveNotifications, Sends, CardOps, Exclusive, Changes
<1> QED BY <1>1, <1>2, <1>3, <1>4, <1>5, <1>6, <1>7, <1>8, <1>9

\* Modals open and close, switches move.
LEMMA PageKeeps ==
    ASSUME SettingsInv,
           \/ \E f \in Forms : OpenForm(f) \/ CloseForm(f)
           \/ \E x \in Old : MoveSwitch(x)
    PROVE  SettingsInv'
<1>0. Others \in Nat /\ MaxSent \in Nat \ {0} /\ sent \in Nat
    BY SettingsAssumption DEF SettingsAssumption, SettingsInv, SettingsShape
<1>1. ASSUME NEW f \in Forms, OpenForm(f) \/ CloseForm(f) PROVE SettingsInv'
    <2>1. UNCHANGED <<card, server, shown, loading, busy, reqs, sent, dirty, doubt, partial>>
        BY <1>1 DEF OpenForm, CloseForm
    <2>2. forms' \subseteq Forms /\ \A g \in forms' : g \in CardOps(card)
        BY <1>1 DEF OpenForm, CloseForm, DisableOffered, SubmitOffered, CardOps,
                    SettingsInv, SettingsShape, OfCard
    <2> QED BY <2>1, <2>2 DEF SettingsInv, SettingsShape, OfCard, NumberedRequests, Awaiting,
                OneHolds, Holds, NewRows, FreshLoads, InForce, SavesShown, Agrees, Owes, Kept
<1>2. ASSUME NEW x \in Old, MoveSwitch(x) PROVE SettingsInv'
    <2>1. /\ UNCHANGED <<card, server, loading, busy, forms, reqs, sent, doubt, partial>>
          /\ dirty' /\ card = "prefs" /\ x \in Nat /\ x <= Others
          /\ shown' \subseteq shown \cup {x}
        BY <1>0, <1>2 DEF MoveSwitch, SwitchesOffered, Old
    <2>2. SettingsShape'
        BY <1>2, <2>1 DEF SettingsInv, SettingsShape, MoveSwitch
    <2>3. NewRows'
        <3>1. \A r \in reqs : r.op # "create"
            BY <2>1, OpsOfCard
        <3>2. \A y \in server \cup shown' : y <= Others + sent
            BY <1>0, <2>1 DEF SettingsInv, NewRows
        <3> QED BY <2>1, <3>1, <3>2 DEF SettingsInv, NewRows
    <2>4. OfCard' /\ NumberedRequests' /\ OneHolds' /\ FreshLoads' /\ InForce'
        BY <2>1 DEF SettingsInv, OfCard, NumberedRequests, Awaiting, OneHolds, Holds,
                    FreshLoads, InForce
    <2>5. SavesShown' /\ Agrees'
        BY <2>1 DEF SavesShown, Agrees
    <2> QED BY <2>2, <2>3, <2>4, <2>5 DEF SettingsInv
<1> QED BY <1>1, <1>2

-----------------------------------------------------------------------------
(* The server.                                                             *)

\* p is what request q becomes when the server runs r.
Becomes(q, p, r) ==
    /\ p \in ReqSet /\ p.id = q.id /\ p.op = q.op
    /\ p.ran <=> q.ran \/ q = r
    /\ IF q = r /\ r.op \in Loads
       THEN /\ p.rows \subseteq server /\ (p.whole => p.rows = server)
            /\ card = "prefs" => p.whole
       ELSE p.rows = q.rows /\ p.whole = q.whole
    /\ p.fresh => q.fresh
    /\ p.fresh /\ p.ran => r.op \in Loads \/ p.op \notin Loads

\* A load reads rows of the server, of the switches all.
LEMMA ToldRows == \A s \in Told : s \subseteq server /\ (card = "prefs" => s = server)
BY DEF Told

\* A load that has read.
LEMMA ReadFields ==
    ASSUME NEW r \in ReqSet, NEW rows \in SUBSET Nat
    PROVE  /\ Read(r, rows) \in ReqSet /\ Read(r, rows).id = r.id /\ Read(r, rows).op = r.op
           /\ Read(r, rows).ran /\ Read(r, rows).rows = rows
           /\ Read(r, rows).whole <=> rows = server
           /\ Read(r, rows).fresh = r.fresh
<1> DEFINE all == rows = server
<1>1. all \in BOOLEAN
    OBVIOUS
<1>2. Read(r, rows) = [r EXCEPT !.ran = TRUE, !.rows = rows, !.whole = all]
    BY Zenon DEF Read
<1>3. Read(r, rows).whole <=> all
    <2> HIDE DEF all
    <2> QED BY <1>1, <1>2 DEF ReqSet
<1>4. /\ Read(r, rows) \in ReqSet /\ Read(r, rows).id = r.id /\ Read(r, rows).op = r.op
      /\ Read(r, rows).ran /\ Read(r, rows).rows = rows
      /\ Read(r, rows).fresh = r.fresh
    <2> HIDE DEF all
    <2> QED BY <1>1, <1>2 DEF ReqSet
<1> QED BY <1>3, <1>4

\* Every request in flight becomes one, and no other appears.
LEMMA ServeShape ==
    ASSUME SettingsInv, NEW r \in reqs, Serve(r)
    PROVE  /\ \A p \in reqs' : \E q \in reqs : Becomes(q, p, r)
           /\ \A q \in reqs : \E p \in reqs' : Becomes(q, p, r)
           /\ \A p1, p2 \in reqs' : p1.id = p2.id => p1 = p2
<1> DEFINE n == [r EXCEPT !.ran = TRUE]
           older(q) == [q EXCEPT !.fresh = ~q.ran /\ @]
<1>0. /\ \A q \in reqs : q \in ReqSet
      /\ server \in SUBSET Nat
      /\ \A p, q \in reqs : p.id = q.id => p = q
    BY DEF SettingsInv, SettingsShape, NumberedRequests, ReqSet
<1>1. ~r.ran /\ (r.op \in Changes \/ r.op \in Loads) /\ ~(r.op \in Changes /\ r.op \in Loads)
    BY <1>0 DEF Serve, ReqSet, Changes, Loads
<1>2. /\ n \in ReqSet /\ n.id = r.id /\ n.op = r.op /\ n.ran /\ n.rows = r.rows
      /\ n.whole = r.whole /\ n.fresh = r.fresh
    BY <1>0 DEF ReqSet
<1>4. ASSUME NEW q \in reqs
      PROVE  /\ older(q) \in ReqSet /\ older(q).id = q.id /\ older(q).op = q.op
             /\ older(q).ran = q.ran /\ older(q).rows = q.rows /\ older(q).whole = q.whole
             /\ older(q).fresh <=> ~q.ran /\ q.fresh
    BY <1>0 DEF ReqSet
<1>5. r.op \in Changes => reqs' = {older(q) : q \in reqs \ {r}} \cup {n}
    BY DEF Serve
<1> HIDE DEF n, older
<1>6. r.op \in Changes => Becomes(r, n, r)
    BY <1>0, <1>1, <1>2 DEF Becomes
<1>8. \A q \in reqs \ {r} : r.op \in Changes => Becomes(q, older(q), r)
    BY <1>0, <1>1, <1>4 DEF Becomes
<1>9. \A q \in reqs \ {r} : r.op \in Loads => Becomes(q, q, r)
    BY <1>0, <1>1 DEF Becomes
<1>10. CASE r.op \in Changes
    <2>1. reqs' = {older(q) : q \in reqs \ {r}} \cup {n}
        BY <1>5, <1>10
    <2>2. \A p \in reqs' : \E q \in reqs : Becomes(q, p, r)
        BY <1>6, <1>8, <1>10, <2>1
    <2>3. ASSUME NEW q \in reqs PROVE \E p \in reqs' : Becomes(q, p, r)
        <3>1. CASE q = r
            BY <1>6, <1>10, <2>1, <3>1
        <3>2. CASE q # r
            BY <1>8, <1>10, <2>1, <3>2
        <3> QED BY <3>1, <3>2
    <2>4. ASSUME NEW p1 \in reqs', NEW p2 \in reqs', p1.id = p2.id PROVE p1 = p2
        BY <1>0, <1>2, <1>4, <2>1, <2>4
    <2> QED BY <2>2, <2>3, <2>4
<1>11. CASE r.op \in Loads
    <2>1. PICK rows \in Told : reqs' = (reqs \ {r}) \cup {Read(r, rows)}
        BY <1>1, <1>11 DEF Serve
    <2> DEFINE l == Read(r, rows)
    <2>2. rows \subseteq server /\ (card = "prefs" => rows = server)
        BY ToldRows
    <2>3. /\ l \in ReqSet /\ l.id = r.id /\ l.op = r.op /\ l.ran /\ l.rows = rows
          /\ (l.whole <=> rows = server) /\ l.fresh = r.fresh
        <3>1. r \in ReqSet /\ rows \in SUBSET Nat
            BY <1>0, <2>2
        <3> QED BY <3>1, ReadFields
    <2> HIDE DEF l
    <2>4. Becomes(r, l, r)
        BY <1>0, <1>1, <1>11, <2>2, <2>3 DEF Becomes
    <2>5. reqs' = (reqs \ {r}) \cup {l}
        BY <2>1 DEF l
    <2>6. \A p \in reqs' : \E q \in reqs : Becomes(q, p, r)
        BY <1>9, <1>11, <2>4, <2>5
    <2>7. ASSUME NEW q \in reqs PROVE \E p \in reqs' : Becomes(q, p, r)
        <3>1. CASE q = r
            BY <2>4, <2>5, <3>1
        <3>2. CASE q # r
            BY <1>9, <1>11, <2>5, <3>2
        <3> QED BY <3>1, <3>2
    <2>8. ASSUME NEW p1 \in reqs', NEW p2 \in reqs', p1.id = p2.id PROVE p1 = p2
        BY <1>0, <2>3, <2>5, <2>8
    <2> QED BY <2>6, <2>7, <2>8
<1> QED BY <1>1, <1>10, <1>11

\* What the server holds after it ran r, by the kind of r.
LEMMA ServeEffect ==
    ASSUME SettingsInv, NEW r \in reqs, Serve(r)
    PROVE  /\ r.op \in {"verify", "submit"} => server' = {Own}
           /\ r.op = "disable" => server' = {}
           /\ r.op = "save" => server' = r.rows
           /\ r.op = "create" => server' = server \cup {Others + r.id}
           /\ r.op = "revoke" => server' = server \ r.rows
           /\ r.op = "revokeOthers" => server' = server \cap {Own}
           /\ r.op \in Loads \cup {"setup", "change"} => server' = server
BY DEF Serve, Effect, Loads

\* The server runs a request.
LEMMA ServeKeeps ==
    ASSUME SettingsInv, NEW r \in reqs, Serve(r)
    PROVE  SettingsInv'
<1>0. /\ Others \in Nat /\ MaxSent \in Nat \ {0} /\ sent \in Nat
      /\ server \subseteq Nat /\ shown \subseteq Nat
      /\ \A q \in reqs : q \in ReqSet /\ q.id \in Nat /\ q.id > 0 /\ q.rows \subseteq Nat
    BY SettingsAssumption DEF SettingsAssumption, SettingsInv, SettingsShape, ReqSet
<1>1. ~r.ran /\ UNCHANGED <<card, shown, loading, busy, forms, sent, dirty, doubt, partial>>
    BY DEF Serve
<1>2. r.op \in Changes \cup Loads
    BY <1>0 DEF ReqSet
<1>f. \A p \in reqs' : \E q \in reqs : Becomes(q, p, r)
    BY ServeShape
<1>t. \A q \in reqs : \E p \in reqs' : Becomes(q, p, r)
    BY ServeShape
<1>3. server' \subseteq Nat /\ \A x \in server' : x <= Others + sent
    <2>1. /\ \A x \in server : x <= Others + sent
          /\ \A x \in r.rows : x <= Others + sent
          /\ r.id <= sent
        BY DEF SettingsInv, NewRows, NumberedRequests
    <2>2. server' \subseteq server \cup r.rows \cup {Own, Others + r.id}
        BY <1>2, ServeEffect DEF Changes
    <2> QED BY <1>0, <2>1, <2>2 DEF Own
<1>4. SettingsShape'
    <2>1. \A p \in reqs' : p \in ReqSet /\ p.id > 0
        BY <1>0, <1>f DEF Becomes
    <2> QED BY <1>1, <1>3, <2>1 DEF SettingsInv, SettingsShape, ReqSet
<1>5. OfCard'
    BY <1>1, <1>f DEF SettingsInv, OfCard, Becomes
<1>6. NumberedRequests'
    <2>1. Awaiting' = Awaiting
        <3>1. \A i \in Awaiting' : i \in Awaiting
            BY <1>f DEF Awaiting, Becomes
        <3>2. \A i \in Awaiting : i \in Awaiting'
            BY <1>t DEF Awaiting, Becomes
        <3> QED BY <3>1, <3>2
    <2>2. \A p \in reqs' : p.id <= sent'
        BY <1>1, <1>f DEF SettingsInv, NumberedRequests, Becomes
    <2>3. \A p, q \in reqs' : p.id = q.id => p = q
        BY ServeShape
    <2> QED BY <1>1, <2>1, <2>2, <2>3 DEF SettingsInv, NumberedRequests
<1>7. OneHolds'
    <2>1. \A p \in reqs' : Holds(p) => busy'
        BY <1>1, <1>f DEF SettingsInv, OneHolds, Holds, Becomes
    <2>2. ASSUME NEW p1 \in reqs', NEW p2 \in reqs', Holds(p1), Holds(p2) PROVE p1 = p2
        <3>1. PICK q1 \in reqs : Becomes(q1, p1, r)
            BY <1>f
        <3>2. PICK q2 \in reqs : Becomes(q2, p2, r)
            BY <1>f
        <3>3. Holds(q1) /\ Holds(q2) /\ q1.id = p1.id /\ q2.id = p2.id
            BY <2>2, <3>1, <3>2 DEF Holds, Becomes
        <3>4. p1.id = p2.id
            BY <3>3 DEF SettingsInv, OneHolds
        <3> QED BY <3>4, ServeShape
    <2> QED BY <2>1, <2>2 DEF OneHolds, Holds
<1>8. NewRows'
    <2>1. ASSUME NEW p \in reqs' PROVE \A x \in p.rows : x <= Others + sent
        BY <1>f DEF Becomes, SettingsInv, NewRows
    <2>2. ASSUME NEW p \in reqs', p.op = "create", ~p.ran
          PROVE  /\ Others + p.id \notin server' \cup shown
                 /\ \A p2 \in reqs' : Others + p.id \notin p2.rows
        <3>1. PICK q \in reqs : Becomes(q, p, r)
            BY <1>f
        <3>2. q.op = "create" /\ ~q.ran /\ q.id = p.id /\ q # r
            BY <2>2, <3>1 DEF Becomes
        <3>3. /\ Others + q.id \notin server \cup shown
              /\ \A q2 \in reqs : Others + q.id \notin q2.rows
            BY <3>2 DEF SettingsInv, NewRows
        <3>4. r.op \notin Exclusive
            BY <3>2 DEF SettingsInv, OneHolds, Holds, Exclusive, Changes
        <3>5. server' \subseteq server
            BY <1>2, <3>4, ServeEffect DEF Exclusive, Changes
        <3>6. \A p2 \in reqs' : Others + q.id \notin p2.rows
            BY <1>f, <3>3 DEF Becomes
        <3> QED BY <3>2, <3>3, <3>5, <3>6
    <2> QED BY <1>1, <1>3, <2>1, <2>2 DEF SettingsInv, NewRows
<1>9. FreshLoads'
    <2> SUFFICES ASSUME NEW p \in reqs', p.op \in Loads, p.ran, p.fresh
                 PROVE  /\ p.rows \subseteq server' /\ (p.whole => p.rows = server')
                        /\ card = "prefs" => p.whole
        BY <1>1 DEF FreshLoads
    <2>1. PICK q \in reqs : Becomes(q, p, r)
        BY <1>f
    <2>2. r.op \in Loads /\ server' = server
        BY <2>1, ServeEffect DEF Becomes
    <2>3. CASE q = r
        BY <2>1, <2>2, <2>3 DEF Becomes
    <2>4. CASE q # r
        BY <2>1, <2>2, <2>4 DEF Becomes, SettingsInv, FreshLoads
    <2> QED BY <2>3, <2>4
<1>10. InForce'
    <2> SUFFICES ASSUME NEW p \in reqs', p.ran
                 PROVE  /\ p.op \in {"verify", "submit"} => server' = {Own}
                        /\ p.op = "disable" => server' = {}
                        /\ p.op = "save" => server' = p.rows
                        /\ p.op = "revoke" => p.rows \cap server' = {}
        BY DEF InForce
    <2>1. PICK q \in reqs : Becomes(q, p, r)
        BY <1>f
    <2>2. p.op = q.op /\ (p.op \notin Loads => p.rows = q.rows)
        BY <2>1 DEF Becomes
    <2>3. CASE q = r
        <3>1. p.op \notin Loads => p.op = r.op /\ p.rows = r.rows
            BY <2>2, <2>3
        <3> QED BY <3>1, ServeEffect DEF Loads
    <2>4. CASE q # r
        <3>1. q.ran
            BY <2>1, <2>4 DEF Becomes
        <3>2. /\ q.op \in {"verify", "submit"} => server = {Own}
              /\ q.op = "disable" => server = {}
              /\ q.op = "save" => server = q.rows
              /\ q.op = "revoke" => q.rows \cap server = {}
            BY <3>1 DEF SettingsInv, InForce
        <3>3. CASE q.op \in {"verify", "submit", "disable", "save"}
            <4>1. r.op \notin Exclusive
                BY <2>4, <3>3 DEF SettingsInv, OneHolds, Holds, Exclusive, Changes
            <4>2. r.op \notin {"revoke", "revokeOthers"}
                BY <3>3, OpsOfCard DEF Lists
            <4>3. server' = server
                BY <1>2, <4>1, <4>2, ServeEffect DEF Exclusive
            <4> QED BY <2>2, <3>2, <3>3, <4>3 DEF Loads
        <3>4. CASE q.op = "revoke"
            <4>1. r.op \notin {"verify", "submit", "disable", "save"}
                BY <3>4, OpsOfCard DEF Lists
            <4>2. r.op = "create" => Others + r.id \notin q.rows
                BY <1>1 DEF SettingsInv, NewRows
            <4>3. server' \subseteq server \cup {Others + r.id} /\ (r.op # "create" => server' \subseteq server)
                BY <1>2, <4>1, ServeEffect DEF Changes
            <4> QED BY <2>2, <3>2, <3>4, <4>2, <4>3 DEF Loads
        <3>5. CASE q.op \notin {"verify", "submit", "disable", "save", "revoke"}
            BY <2>2, <3>5
        <3> QED BY <3>3, <3>4, <3>5
    <2> QED BY <2>3, <2>4
<1>11. SavesShown'
    <2> SUFFICES ASSUME ~doubt, ~dirty, \A p \in reqs' : p.op \notin Loads, NEW p \in reqs', p.op = "save"
                 PROVE  p.rows = shown
        BY <1>1 DEF SavesShown
    <2>1. \A q \in reqs : q.op \notin Loads
        BY <1>t DEF Becomes
    <2>2. PICK q \in reqs : Becomes(q, p, r)
        BY <1>f
    <2>3. q.op = "save" /\ q.rows = p.rows
        BY <2>1, <2>2 DEF Becomes
    <2> QED BY <2>1, <2>3 DEF SettingsInv, SavesShown
<1>12. Agrees'
    <2> SUFFICES ASSUME ~doubt, ~dirty, \A p \in reqs' : ~Owes(p)'
                 PROVE  /\ {x \in shown : Kept(x)'} \subseteq server'
                        /\ ~partial => server' = {x \in shown : Kept(x)'}
        BY <1>1 DEF Agrees
    <2>1. \A q \in reqs : ~Owes(q) /\ (q = r => q.op \notin Follows \cup Settles)
        BY <1>t DEF Becomes, Owes
    <2>2. r.op \in {"setup", "change", "revoke"}
        BY <1>2, <2>1 DEF Owes, Follows, Settles, Changes
    <2>3. {x \in shown : Kept(x)} \subseteq server /\ (~partial => server = {x \in shown : Kept(x)})
        BY <2>1 DEF SettingsInv, Agrees
    <2>4. CASE r.op = "revoke"
        <3>1. server' = server \ r.rows
            BY <2>4, ServeEffect
        <3>2. ASSUME NEW x \in shown PROVE Kept(x)' <=> Kept(x) /\ x \notin r.rows
            <4>1. \A p \in reqs' : p.op = "revoke" /\ p.ran =>
                     \E q \in reqs : q.op = "revoke" /\ q.rows = p.rows /\ (q.ran \/ q = r)
                BY <1>f DEF Becomes, Loads
            <4>2. \A q \in reqs : q.op = "revoke" /\ (q.ran \/ q = r) =>
                     \E p \in reqs' : p.op = "revoke" /\ p.rows = q.rows /\ p.ran
                BY <1>t DEF Becomes, Loads
            <4> QED BY <2>4, <4>1, <4>2 DEF Kept
        <3> QED BY <2>3, <3>1, <3>2
    <2>5. CASE r.op # "revoke"
        <3>1. server' = server
            BY <2>2, <2>5, ServeEffect
        <3>2. ASSUME NEW x \in shown PROVE Kept(x)' <=> Kept(x)
            <4>1. \A p \in reqs' : p.op = "revoke" /\ p.ran =>
                     \E q \in reqs : q.op = "revoke" /\ q.rows = p.rows /\ q.ran
                BY <1>f, <2>5 DEF Becomes, Loads
            <4>2. \A q \in reqs : q.op = "revoke" /\ q.ran =>
                     \E p \in reqs' : p.op = "revoke" /\ p.rows = q.rows /\ p.ran
                BY <1>t DEF Becomes, Loads
            <4> QED BY <4>1, <4>2 DEF Kept
        <3> QED BY <2>3, <3>1, <3>2
    <2> QED BY <2>4, <2>5
<1> QED BY <1>4, <1>5, <1>6, <1>7, <1>8, <1>9, <1>10, <1>11, <1>12 DEF SettingsInv

-----------------------------------------------------------------------------
(* Replies.                                                                *)

\* What holds of the requests in flight holds of those that are left when one has
\* been answered.
LEMMA LeftInFlight ==
    ASSUME SettingsInv, NEW r \in reqs, NEW left, left = reqs \ {r}
    PROVE  /\ left \subseteq reqs /\ \A q \in left : q \in ReqSet
           /\ Holds(r) => \A q \in left : ~Holds(q)
           /\ {q.id : q \in {p \in left : p.op \in Follows}} =
                 IF r.op \in Follows THEN Awaiting \ {r.id} ELSE Awaiting
           /\ r.op \in Follows => r.id \in Awaiting
<1>1. \A q \in left : q \in reqs /\ q # r /\ q.id # r.id
    BY DEF SettingsInv, NumberedRequests
<1>2. \A q \in reqs : q = r \/ q \in left
    OBVIOUS
<1>3. left \subseteq reqs /\ \A q \in left : q \in ReqSet
    BY DEF SettingsInv, SettingsShape, ReqSet
<1>4. Holds(r) => \A q \in left : ~Holds(q)
    BY <1>1 DEF SettingsInv, OneHolds, Holds
<1>5. {q.id : q \in {p \in left : p.op \in Follows}} =
         IF r.op \in Follows THEN Awaiting \ {r.id} ELSE Awaiting
    BY <1>1, <1>2 DEF Awaiting
<1>6. r.op \in Follows => r.id \in Awaiting
    BY DEF Awaiting
<1> QED BY <1>3, <1>4, <1>5, <1>6

\* A request leaves, and nothing is sent in its place.
LEMMA Leaves ==
    ASSUME SettingsInv, NEW r \in reqs, reqs' = reqs \ {r},
           UNCHANGED <<card, server, sent>>,
           shown' \subseteq shown \cup r.rows \cup {Own},
           {loading', busy', dirty', doubt', partial'} \subseteq BOOLEAN,
           forms' \subseteq Forms, \A f \in forms' : f \in CardOps(card),
           Holds(r) \/ busy' = busy
    PROVE  /\ SettingsShape' /\ OfCard' /\ NumberedRequests' /\ OneHolds' /\ NewRows'
           /\ FreshLoads' /\ InForce'
<1>0. /\ Others \in Nat /\ MaxSent \in Nat \ {0} /\ sent \in Nat
      /\ server \subseteq Nat /\ shown \subseteq Nat
      /\ \A q \in reqs : q \in ReqSet /\ q.id \in Nat /\ q.id > 0 /\ q.rows \subseteq Nat
    BY SettingsAssumption DEF SettingsAssumption, SettingsInv, SettingsShape, ReqSet
<1>1. SettingsShape'
    BY <1>0 DEF SettingsInv, SettingsShape, Own
<1>2. OfCard'
    BY DEF SettingsInv, OfCard
<1>3. NumberedRequests'
    <2>1. Awaiting' = IF r.op \in Follows THEN Awaiting \ {r.id} ELSE Awaiting
        BY LeftInFlight DEF Awaiting
    <2>2. IsFiniteSet(Awaiting) /\ Cardinality(Awaiting) \in Nat
        BY FS_CardinalityType DEF SettingsInv, NumberedRequests
    <2>3. IsFiniteSet(Awaiting') /\ Cardinality(Awaiting') <= Cardinality(Awaiting)
        <3>1. /\ IsFiniteSet(Awaiting \ {r.id})
              /\ Cardinality(Awaiting \ {r.id})
                    = (IF r.id \in Awaiting THEN Cardinality(Awaiting) - 1 ELSE Cardinality(Awaiting))
            BY <2>2, FS_RemoveElement, Zenon
        <3> QED BY <2>1, <2>2, <3>1
    <2>4. Cardinality(Awaiting') \in Nat
        BY <2>3, FS_CardinalityType
    <2>5. /\ Cardinality(Awaiting') <= sent'
          /\ sent' + Cardinality(Awaiting') <= 2 * MaxSent
        BY <1>0, <2>2, <2>3, <2>4 DEF SettingsInv, NumberedRequests
    <2> QED BY <2>3, <2>5 DEF SettingsInv, NumberedRequests
<1>4. OneHolds'
    <2>1. Holds(r) => \A q \in reqs' : ~Holds(q)
        BY LeftInFlight
    <2> QED BY <2>1 DEF SettingsInv, OneHolds, Holds
<1>5. NewRows'
    <2>1. \A x \in shown' : x \in shown \/ x \in r.rows \/ x = 0
        BY DEF Own
    <2>2. \A x \in server \cup shown' : x <= Others + sent
        BY <1>0, <2>1 DEF SettingsInv, NewRows
    <2>3. ASSUME NEW p \in reqs', p.op = "create", ~p.ran
          PROVE  /\ Others + p.id \notin server \cup shown'
                 /\ \A q \in reqs' : Others + p.id \notin q.rows
        <3>1. /\ Others + p.id \notin server \cup shown
              /\ \A q \in reqs : Others + p.id \notin q.rows
            BY <2>3 DEF SettingsInv, NewRows
        <3>2. Others + p.id # 0
            BY <1>0
        <3> QED BY <2>1, <3>1, <3>2
    <2> QED BY <2>2, <2>3 DEF SettingsInv, NewRows
<1>6. FreshLoads' /\ InForce'
    BY DEF SettingsInv, FreshLoads, InForce
<1> QED BY <1>1, <1>2, <1>3, <1>4, <1>5, <1>6

\* The forms that are open when a change is accepted are of the card.
LEMMA FormsOfCard ==
    ASSUME SettingsInv, NEW r \in reqs
    PROVE  FormsAfter(r) \subseteq Forms /\ \A f \in FormsAfter(r) : f \in CardOps(card)
<1>1. FormsAfter(r) \subseteq forms \cup (IF r.op = "setup" THEN {r.op} ELSE {})
    BY DEF FormsAfter
<1>2. forms \subseteq Forms /\ \A f \in forms : f \in CardOps(card)
    BY DEF SettingsInv, SettingsShape, OfCard
<1> QED BY <1>1, <1>2, OpsOfCard DEF Forms

\* A change is accepted and nothing is loaded after it.
LEMMA AcceptKeeps ==
    ASSUME SettingsInv, NEW r \in reqs, Accept(r), r.op \notin Follows
    PROVE  SettingsInv'
<1>0. /\ {loading, busy, dirty, doubt, partial} \subseteq BOOLEAN /\ r.op \in Changes /\ r.ran
      /\ card \in Cards
      /\ reqs' = reqs \ {r} /\ UNCHANGED <<card, server, dirty, loading, sent>>
    BY DEF Accept, Follows, SettingsInv, SettingsShape
<1>1. /\ r.op \in {"verify", "submit"} => shown' = {Own} /\ server = {Own}
      /\ r.op = "disable" => shown' = {} /\ server = {}
      /\ r.op = "revoke" => shown' = shown \ r.rows /\ r.rows \cap server = {}
      /\ r.op = "save" => shown' = shown /\ server = r.rows
      /\ r.op \in {"setup", "change"} => shown' = shown
    BY <1>0 DEF Accept, Accepted, SettingsInv, InForce
<1>2. r.op \in {"setup", "verify", "disable", "revoke", "submit", "save", "change"}
    BY <1>0 DEF Changes, Follows
<1>3. shown' \subseteq shown \cup r.rows \cup {Own}
    BY <1>1, <1>2
<1>4. busy' \in BOOLEAN /\ (Holds(r) \/ busy' = busy)
    <2>1. r.op \notin Exclusive => busy' = busy
        BY <1>0 DEF Accept
    <2>2. r.op \in Exclusive => busy' \in BOOLEAN
        BY <1>0 DEF Accept
    <2> QED BY <1>0, <2>1, <2>2 DEF Holds
<1>5. /\ doubt' \in BOOLEAN /\ (r.op \notin Settles => doubt' = doubt)
      /\ partial' \in BOOLEAN /\ (r.op \notin Settles => partial' = partial)
    BY <1>0 DEF Accept, Settles
<1>6. forms' \subseteq Forms /\ \A f \in forms' : f \in CardOps(card)
    BY FormsOfCard DEF Accept
<1>7. /\ SettingsShape' /\ OfCard' /\ NumberedRequests' /\ OneHolds' /\ NewRows'
      /\ FreshLoads' /\ InForce'
    BY <1>0, <1>3, <1>4, <1>5, <1>6, Leaves
<1>8. SavesShown'
    <2> SUFFICES ASSUME ~doubt', ~dirty', \A q \in reqs' : q.op \notin Loads,
                        NEW p \in reqs', p.op = "save"
                 PROVE  p.rows = shown'
        BY DEF SavesShown
    <2>1. card = "prefs" /\ p \in reqs /\ p # r
        BY <1>0, OpsOfCard
    <2>2. ~Holds(r)
        BY <1>0, <2>1 DEF SettingsInv, OneHolds, Holds, Exclusive, Changes
    <2>3. FALSE
        BY <1>2, <2>1, <2>2, OpsOfCard DEF Holds, Exclusive, Changes, Lists
    <2> QED BY <2>3
<1>9. Agrees'
    <2> SUFFICES ASSUME ~doubt', ~dirty', \A q \in reqs' : ~Owes(q)'
                 PROVE  /\ {x \in shown' : Kept(x)'} \subseteq server
                        /\ ~partial' => server = {x \in shown' : Kept(x)'}
        BY <1>0 DEF Agrees
    <2>0. ~dirty /\ \A q \in reqs : q = r \/ (q \in reqs' /\ ~Owes(q))
        BY <1>0 DEF Owes
    <2>1. CASE r.op \in Settles
        <3>1. server = shown'
            BY <1>1, <2>1 DEF Settles
        <3>2. \A q \in reqs' : q.op # "revoke"
            BY <1>0, <2>1, OpsOfCard DEF Settles, Lists
        <3> QED BY <3>1, <3>2 DEF Kept
    <2>2. CASE r.op = "save"
        <3>1. ~doubt /\ \A q \in reqs : q.op \notin Loads
            BY <1>5, <2>0, <2>2 DEF Owes, Settles, Loads
        <3>2. r.rows = shown
            BY <2>0, <2>2, <3>1 DEF SettingsInv, SavesShown
        <3>3. \A q \in reqs' : q.op # "revoke"
            BY <1>0, <2>2, OpsOfCard DEF Lists
        <3> QED BY <1>1, <2>2, <3>2, <3>3 DEF Kept
    <2>3. CASE r.op \in {"setup", "change", "revoke"}
        <3>1. ~doubt /\ \A q \in reqs : ~Owes(q)
            BY <1>5, <2>0, <2>3 DEF Owes, Settles, Follows, Loads
        <3>2. {x \in shown : Kept(x)} \subseteq server /\ (~partial' => server = {x \in shown : Kept(x)})
            BY <1>5, <2>0, <2>3, <3>1 DEF SettingsInv, Agrees, Settles
        <3>3. CASE r.op = "revoke"
            <4>1. \A x \in shown : Kept(x) <=> x \notin r.rows /\ Kept(x)'
                BY <1>0, <3>3 DEF Kept
            <4> QED BY <1>1, <3>2, <3>3, <4>1
        <3>4. CASE r.op # "revoke"
            <4>1. \A x \in shown : Kept(x) <=> Kept(x)'
                BY <1>0, <3>4 DEF Kept
            <4> QED BY <1>1, <2>3, <3>2, <3>4, <4>1
        <3> QED BY <3>3, <3>4
    <2> QED BY <1>2, <2>1, <2>2, <2>3 DEF Settles
<1> QED BY <1>7, <1>8, <1>9 DEF SettingsInv

\* A key was made, or all other sessions ended: the list is loaded again.
LEMMA FollowKeeps ==
    ASSUME SettingsInv, NEW r \in reqs, Accept(r), r.op \in Follows
    PROVE  SettingsInv'
<1> DEFINE op == IF r.op = "create" THEN "reload" ELSE "load"
           n == Request(sent + 1, op, {})
<1>0. /\ Others \in Nat /\ MaxSent \in Nat \ {0} /\ sent \in Nat
      /\ server \subseteq Nat /\ shown \subseteq Nat
      /\ {loading, busy, dirty, doubt, partial} \subseteq BOOLEAN
      /\ reqs \subseteq ReqSet
      /\ \A q \in reqs : q \in ReqSet /\ q.id \in Nat /\ q.id > 0 /\ q.rows \subseteq Nat
    BY SettingsAssumption DEF SettingsAssumption, SettingsInv, SettingsShape, ReqSet
<1>1. /\ sent' = sent + 1 /\ loading' = TRUE /\ reqs' = (reqs \ {r}) \cup {n}
      /\ shown' = shown /\ forms' = FormsAfter(r) /\ r.ran
      /\ UNCHANGED <<card, server, dirty>>
    BY DEF Accept, Accepted, Follows
<1>2. /\ n \in ReqSet /\ n.id = sent + 1 /\ n.op = op /\ n.rows = {} /\ ~n.ran
    <2>1. sent + 1 \in Nat /\ op \in Changes \cup Loads /\ {} \in SUBSET Nat
        BY <1>0 DEF Loads
    <2> HIDE DEF op
    <2> QED BY <2>1, NewRequest
<1>3. busy' = busy /\ doubt' = doubt /\ partial' = partial
    <2>1. r.op \notin Exclusive \/ r.op = "create"
        BY DEF Follows, Exclusive
    <2>2. r.op \notin {"verify", "disable", "submit"}
        BY DEF Follows
    <2> QED BY <1>0, <2>1, <2>2 DEF Accept
<1>4. op \in Loads /\ op \notin Follows /\ op \in CardOps(card) /\ (op = "reload" <=> r.op = "create")
    BY OpsOfCard DEF Loads, Follows, CardOps
<1> HIDE DEF n, op
<1>5. SettingsShape'
    <2>1. reqs' \subseteq ReqSet /\ \A q \in reqs' : q.id > 0
        BY <1>0, <1>1, <1>2
    <2> QED BY <1>0, <1>1, <1>3, <2>1, FormsOfCard DEF SettingsInv, SettingsShape, ReqSet
<1>6. OfCard'
    BY <1>1, <1>2, <1>4, FormsOfCard DEF SettingsInv, OfCard
<1>7. NumberedRequests'
    <2>1. Awaiting' = Awaiting \ {r.id} /\ r.id \in Awaiting
        <3>1. Awaiting' = {q.id : q \in {p \in reqs \ {r} : p.op \in Follows}}
            BY <1>1, <1>2, <1>4 DEF Awaiting
        <3> QED BY <3>1, LeftInFlight
    <2>2. IsFiniteSet(Awaiting) /\ Cardinality(Awaiting) \in Nat
        BY FS_CardinalityType DEF SettingsInv, NumberedRequests
    <2>3. IsFiniteSet(Awaiting') /\ Cardinality(Awaiting') = Cardinality(Awaiting) - 1
        BY <2>1, <2>2, FS_RemoveElement
    <2>4. /\ Cardinality(Awaiting') <= sent'
          /\ sent' + Cardinality(Awaiting') <= 2 * MaxSent
        BY <1>0, <1>1, <2>2, <2>3 DEF SettingsInv, NumberedRequests
    <2>5. \A q \in reqs : q.id <= sent
        BY DEF SettingsInv, NumberedRequests
    <2>6. \A q \in reqs' : q.id <= sent'
        BY <1>0, <1>1, <1>2, <2>5
    <2>7. \A p, q \in reqs' : p.id = q.id => p = q
        <3>1. \A q \in reqs : q.id # sent + 1
            BY <1>0, <2>5
        <3> QED BY <1>1, <1>2, <3>1 DEF SettingsInv, NumberedRequests
    <2> QED BY <2>3, <2>4, <2>6, <2>7 DEF NumberedRequests
<1>8. OneHolds'
    <2>1. Holds(n) => r.op = "create"
        BY <1>2, <1>4 DEF Holds, Exclusive, Changes, Loads
    <2>2. r.op = "create" => Holds(r)
        BY DEF Holds, Exclusive, Changes
    <2>3. Holds(n) => busy /\ \A q \in reqs \ {r} : ~Holds(q)
        BY <2>1, <2>2, LeftInFlight DEF SettingsInv, OneHolds
    <2> QED BY <1>1, <1>3, <2>3 DEF SettingsInv, OneHolds, Holds
<1>9. NewRows'
    <2>1. /\ \A x \in server \cup shown : x <= Others + sent /\ x \in Nat
          /\ \A q \in reqs : \A x \in q.rows : x <= Others + sent /\ x \in Nat
        BY <1>0 DEF SettingsInv, NewRows
    <2>2. \A x : x \in Nat /\ x <= Others + sent => x <= Others + sent'
        BY <1>0, <1>1
    <2>3. \A p \in reqs' : p.op = "create" /\ ~p.ran => p \in reqs
        BY <1>1, <1>2, <1>4 DEF Loads
    <2> QED BY <1>1, <1>2, <2>1, <2>2, <2>3 DEF SettingsInv, NewRows
<1>10. FreshLoads' /\ InForce'
    BY <1>1, <1>2 DEF SettingsInv, FreshLoads, InForce
<1>11. SavesShown' /\ Agrees'
    <2>1. n \in reqs' /\ n.op \in Loads
        BY <1>1, <1>2, <1>4
    <2> QED BY <2>1 DEF SavesShown, Agrees, Owes
<1> QED BY <1>5, <1>6, <1>7, <1>8, <1>9, <1>10, <1>11 DEF SettingsInv

\* A load overwrites what is shown.
LEMMA DeliverKeeps ==
    ASSUME SettingsInv, NEW r \in reqs, Deliver(r)
    PROVE  SettingsInv'
<1>0. /\ {loading, busy, dirty, doubt, partial} \subseteq BOOLEAN /\ r.op \in Loads /\ r.ran
      /\ r \in ReqSet /\ {r.fresh, r.whole} \subseteq BOOLEAN /\ partial' = ~r.whole /\ shown' = r.rows /\ loading' = FALSE /\ dirty' = FALSE
      /\ reqs' = reqs \ {r} /\ UNCHANGED <<card, server, forms, sent>>
    BY DEF Deliver, SettingsInv, SettingsShape, ReqSet
<1>1. busy' \in BOOLEAN /\ (Holds(r) \/ busy' = busy)
    <2>1. r.op # "reload" => busy' = busy
        BY <1>0 DEF Deliver
    <2>2. r.op = "reload" => busy' \in BOOLEAN /\ Holds(r)
        BY <1>0 DEF Deliver, Holds
    <2> QED BY <1>0, <2>1, <2>2
<1>2. doubt' = (~r.fresh \/ \E q \in reqs : q.op = "save" /\ ~q.ran)
    BY DEF Deliver
<1>3. doubt' \in BOOLEAN
    BY <1>2, Zenon
<1>4. /\ SettingsShape' /\ OfCard' /\ NumberedRequests' /\ OneHolds' /\ NewRows'
      /\ FreshLoads' /\ InForce'
    <2>1. shown' \subseteq shown \cup r.rows \cup {Own}
        BY <1>0
    <2>2. forms' \subseteq Forms /\ \A f \in forms' : f \in CardOps(card)
        BY <1>0 DEF SettingsInv, SettingsShape, OfCard
    <2>3. {loading', busy', dirty', doubt', partial'} \subseteq BOOLEAN
        BY <1>0, <1>1, <1>3
    <2> QED BY <1>0, <1>1, <2>1, <2>2, <2>3, Leaves
<1>5. ~doubt' => /\ r.rows \subseteq server /\ (~partial' => r.rows = server)
                 /\ card = "prefs" => r.rows = server
    BY <1>0, <1>2 DEF SettingsInv, FreshLoads
<1>6. SavesShown'
    <2> SUFFICES ASSUME ~doubt', NEW p \in reqs', p.op = "save" PROVE p.rows = shown'
        BY DEF SavesShown
    <2>1. p \in reqs /\ p.ran
        BY <1>0, <1>2
    <2>2. server = p.rows /\ card = "prefs"
        BY <2>1, OpsOfCard DEF SettingsInv, InForce
    <2> QED BY <1>0, <1>5, <2>2
<1>7. Agrees'
    <2> SUFFICES ASSUME ~doubt'
                 PROVE  /\ {x \in shown' : Kept(x)'} \subseteq server
                        /\ ~partial' => server = {x \in shown' : Kept(x)'}
        BY <1>0 DEF Agrees
    <2>1. \A x \in server : Kept(x)'
        BY <1>0 DEF Kept, SettingsInv, InForce
    <2> QED BY <1>0, <1>5, <2>1
<1> QED BY <1>4, <1>6, <1>7 DEF SettingsInv

\* A request fails, before or after the server ran it.
LEMMA FailKeeps ==
    ASSUME SettingsInv, NEW r \in reqs, Fail(r)
    PROVE  SettingsInv'
<1>0. /\ {loading, busy, dirty, doubt, partial} \subseteq BOOLEAN /\ r \in ReqSet /\ r.ran \in BOOLEAN
      /\ reqs' = reqs \ {r} /\ UNCHANGED <<card, server, shown, forms, sent, partial>>
    BY DEF Fail, SettingsInv, SettingsShape, ReqSet
<1>1. busy' \in BOOLEAN /\ (Holds(r) \/ busy' = busy)
    <2>1. ~Holds(r) => busy' = busy
        BY <1>0 DEF Fail, BusyAfter, Holds
    <2>2. Holds(r) => busy' = FALSE
        BY <1>0 DEF Fail, BusyAfter, Holds
    <2> QED BY <1>0, <2>1, <2>2
<1>2. {loading', dirty', doubt', partial'} \subseteq BOOLEAN
    <2>1. loading' \in BOOLEAN
        BY <1>0 DEF Fail
    <2>2. dirty' \in BOOLEAN
        BY <1>0 DEF Fail
    <2>3. doubt' \in BOOLEAN
        BY <1>0 DEF Fail
    <2> QED BY <1>0, <2>1, <2>2, <2>3
<1>3. /\ SettingsShape' /\ OfCard' /\ NumberedRequests' /\ OneHolds' /\ NewRows'
      /\ FreshLoads' /\ InForce'
    <2>1. forms' \subseteq Forms /\ \A f \in forms' : f \in CardOps(card)
        BY <1>0 DEF SettingsInv, SettingsShape, OfCard
    <2>2. {loading', busy', dirty', doubt', partial'} \subseteq BOOLEAN
        BY <1>1, <1>2
    <2> QED BY <1>0, <1>1, <2>1, <2>2, Leaves
<1>4. ~doubt' => ~doubt /\ r.op \notin Loads /\ ~r.ran
    BY <1>0 DEF Fail
<1>5. ~dirty' => ~dirty /\ r.op # "save"
    BY <1>0 DEF Fail
<1>6. SavesShown'
    <2> SUFFICES ASSUME ~doubt', ~dirty', \A q \in reqs' : q.op \notin Loads,
                        NEW p \in reqs', p.op = "save"
                 PROVE  p.rows = shown'
        BY DEF SavesShown
    <2>1. \A q \in reqs : q.op \notin Loads
        BY <1>0, <1>4
    <2> QED BY <1>0, <1>4, <1>5, <2>1 DEF SettingsInv, SavesShown
<1>7. Agrees'
    <2> SUFFICES ASSUME ~doubt', ~dirty', \A q \in reqs' : ~Owes(q)'
                 PROVE  /\ {x \in shown : Kept(x)'} \subseteq server
                        /\ ~partial => server = {x \in shown : Kept(x)'}
        BY <1>0 DEF Agrees
    <2>1. \A q \in reqs : ~Owes(q)
        BY <1>0, <1>4, <1>5 DEF Owes
    <2>2. {x \in shown : Kept(x)} \subseteq server /\ (~partial => server = {x \in shown : Kept(x)})
        BY <1>4, <1>5, <2>1 DEF SettingsInv, Agrees
    <2>3. \A x \in shown : Kept(x)' <=> Kept(x)
        BY <1>0, <1>4 DEF Kept
    <2> QED BY <2>2, <2>3
<1> QED BY <1>3, <1>6, <1>7 DEF SettingsInv

\* Every step of the page keeps the invariant.
LEMMA SettingsKept == SettingsInv /\ SettingsNext => SettingsInv'
<1> SUFFICES ASSUME SettingsInv, SettingsNext PROVE SettingsInv'
    OBVIOUS
<1>1. ASSUME NEW r \in reqs, Answer(r) PROVE SettingsInv'
    BY <1>1, ServeKeeps, AcceptKeeps, FollowKeeps, DeliverKeeps, FailKeeps, Zenon DEF Answer
<1>2. CASE \/ handleSetup2FA \/ handleVerify2FA \/ handleDisable2FA
           \/ handleCreateApiKey \/ handleKYCSubmit \/ handlePasswordChange
           \/ \E x \in Rows : handleRevokeSession(x) \/ handleRevokeApiKey(x)
           \/ handleRevokeAllSessions \/ handleSaveNotifications
    BY <1>2, UserSends, SendKeeps, Zenon
<1>3. CASE \/ \E f \in Forms : OpenForm(f) \/ CloseForm(f)
           \/ \E x \in Old : MoveSwitch(x)
    BY <1>3, PageKeeps, Zenon
<1> QED BY <1>1, <1>2, <1>3 DEF SettingsNext

\* What the invariant says of the types and of a card at rest.
LEMMA SettingsInvUse == SettingsInv => SettingsTypeOK /\ AtRestAgrees
<1> SUFFICES ASSUME SettingsInv PROVE SettingsTypeOK /\ AtRestAgrees
    OBVIOUS
<1>0. /\ Others \in Nat /\ MaxSent \in Nat \ {0} /\ sent \in Nat
      /\ server \subseteq Nat /\ shown \subseteq Nat
      /\ reqs \subseteq ReqSet
      /\ \A q \in reqs : q \in ReqSet /\ q.id \in Nat /\ q.id > 0 /\ q.rows \subseteq Nat
    BY SettingsAssumption DEF SettingsAssumption, SettingsInv, SettingsShape, ReqSet
<1>1. sent <= 2 * MaxSent
    <2>1. Cardinality(Awaiting) \in Nat
        BY FS_CardinalityType DEF SettingsInv, NumberedRequests
    <2> QED BY <1>0, <2>1 DEF SettingsInv, NumberedRequests
<1>2. \A x \in Nat : x <= Others + sent => x \in Rows
    BY <1>0, <1>1 DEF Rows
<1>3. server \subseteq Rows /\ shown \subseteq Rows
    BY <1>0, <1>2 DEF SettingsInv, NewRows
<1>4. ASSUME NEW q \in reqs
      PROVE  q \in [id : Ids, op : Changes \cup Loads, rows : SUBSET Rows, ran : BOOLEAN, whole : BOOLEAN, fresh : BOOLEAN]
    <2>1. q.rows \subseteq Rows
        BY <1>0, <1>2 DEF SettingsInv, NewRows
    <2>2. q.id \in Ids
        BY <1>0, <1>1 DEF SettingsInv, NumberedRequests, Ids
    <2> QED BY <1>0, <2>1, <2>2 DEF ReqSet
<1>5. SettingsTypeOK
    <2>1. sent \in Ids
        BY <1>0, <1>1 DEF SettingsInv, SettingsShape, Ids
    <2> QED BY <1>3, <1>4, <2>1 DEF SettingsTypeOK, SettingsInv, SettingsShape
<1>6. AtRestAgrees
    BY DEF AtRestAgrees, SettingsInv, Agrees, Kept
<1> QED BY <1>5, <1>6

-----------------------------------------------------------------------------
(* The staff users page.                                                   *)

UiSet == [page : 1..MaxUsers, role : Roles \cup {"all"}, text : BOOLEAN, typed : BOOLEAN,
          rows : Tables, total : 0..MaxUsers, loading : BOOLEAN, selected : SUBSET Users,
          form : {{}} \cup {{u} : u \in Users \cup {NewUser}}, saving : BOOLEAN,
          deleting : 0..MaxUsers, bulkDeleting : BOOLEAN, broken : BOOLEAN]
CallSet == [id : Nat, op : Edits \cup {"load"}, on : SUBSET Users, role : Roles \cup {"none"},
            view : Views, counted : BOOLEAN, ran : BOOLEAN, rows : Tables, total : 0..MaxUsers,
            mine : BOOLEAN, fresh : BOOLEAN]

\* Types, without the bound of ids.
StaffShape ==
    /\ users \in [Users -> Roles \cup {"none"}] /\ ui \in UiSet /\ unsure \in BOOLEAN
    /\ called \in Nat /\ called > 0
    /\ calls \subseteq CallSet /\ \A c \in calls : c.id > 0

\* Ids are never used twice; calls made later, with the loads that follow changes,
\* stay within the bound.
Editing == {c.id : c \in {d \in calls : d.op \in Edits}}
NumberedCalls ==
    /\ \A c \in calls : c.id <= called
    /\ \A c, d \in calls : c.id = d.id => c = d
    /\ IsFiniteSet(Editing)
    /\ Cardinality(Editing) <= called /\ called + Cardinality(Editing) <= 2 * MaxCalls

Shows(rows, total, v) == rows = Page(v) /\ total = Cardinality(Matching(v))

\* A load that no change has overtaken since it counted carries the total of its
\* view and, once it has its rows, these too.
ReadsRight(c) == c.total = Cardinality(Matching(c.view)) /\ (c.ran => c.rows = Page(c.view))
FreshTables ==
    \A c \in calls : c.op = "load" =>
        (c.ran => c.counted) /\ (c.counted /\ c.fresh => ReadsRight(c))

\* When nothing in flight will decide what the table shows, it shows what it asks for.
Decides(c) == c.op = "load" \/ c.ran
TableHolds ==
    ~unsure /\ (\A c \in calls : ~Decides(c)) =>
        \A v \in Views : v = ViewOf(ui) => Shows(ui.rows, ui.total, v)

StaffInv == StaffShape /\ NumberedCalls /\ FreshTables /\ TableHolds

-----------------------------------------------------------------------------
(* What the page's state and its calls keep.                               *)

\* w shows the same rows under the same search, filter and page as u.
Alike(u, w) ==
    /\ w \in UiSet /\ ViewOf(w) = ViewOf(u) /\ w.rows = u.rows /\ w.total = u.total

\* A setState of one field keeps the type of the state, and of most fields what the
\* table shows too.
LEMMA UiWith ==
    ASSUME NEW u \in UiSet
    PROVE  /\ \A x \in BOOLEAN : /\ Alike(u, [u EXCEPT !.typed = x])
                                 /\ Alike(u, [u EXCEPT !.loading = x])
                                 /\ Alike(u, [u EXCEPT !.saving = x])
                                 /\ Alike(u, [u EXCEPT !.bulkDeleting = x])
           /\ \A x \in SUBSET Users : Alike(u, [u EXCEPT !.selected = x])
           /\ \A x \in 0..MaxUsers : Alike(u, [u EXCEPT !.deleting = x])
           /\ \A x \in {{}} \cup {{v} : v \in Users \cup {NewUser}} : Alike(u, [u EXCEPT !.form = x])
<1>1. ASSUME NEW x \in BOOLEAN
      PROVE  /\ Alike(u, [u EXCEPT !.typed = x]) /\ Alike(u, [u EXCEPT !.loading = x])
    BY DEF UiSet, Alike, ViewOf
<1>2. ASSUME NEW x \in BOOLEAN
      PROVE  /\ Alike(u, [u EXCEPT !.saving = x]) /\ Alike(u, [u EXCEPT !.bulkDeleting = x])
    BY DEF UiSet, Alike, ViewOf
<1>3. ASSUME NEW x \in SUBSET Users PROVE Alike(u, [u EXCEPT !.selected = x])
    BY DEF UiSet, Alike, ViewOf
<1>4. ASSUME NEW x \in 0..MaxUsers PROVE Alike(u, [u EXCEPT !.deleting = x])
    BY DEF UiSet, Alike, ViewOf
<1>5. ASSUME NEW x \in {{}} \cup {{v} : v \in Users \cup {NewUser}}
      PROVE  Alike(u, [u EXCEPT !.form = x])
    BY DEF UiSet, Alike, ViewOf
<1> QED BY <1>1, <1>2, <1>3, <1>4, <1>5

\* The rest of the fields.
LEMMA UiWithView ==
    ASSUME NEW u \in UiSet
    PROVE  /\ \A x \in 1..MaxUsers : [u EXCEPT !.page = x] \in UiSet
           /\ \A x \in Roles \cup {"all"} : [u EXCEPT !.role = x] \in UiSet
           /\ \A x \in BOOLEAN : [u EXCEPT !.text = x] \in UiSet
           /\ \A x \in Tables : [u EXCEPT !.rows = x] \in UiSet
           /\ \A x \in 0..MaxUsers : [u EXCEPT !.total = x] \in UiSet
           /\ \A x \in BOOLEAN : [u EXCEPT !.broken = x] \in UiSet
<1>1. \A x \in 1..MaxUsers : [u EXCEPT !.page = x] \in UiSet
    BY DEF UiSet
<1>2. \A x \in Roles \cup {"all"} : [u EXCEPT !.role = x] \in UiSet
    BY DEF UiSet
<1>3. \A x \in BOOLEAN : [u EXCEPT !.text = x] \in UiSet
    BY DEF UiSet
<1>4. \A x \in Tables : [u EXCEPT !.rows = x] \in UiSet
    BY DEF UiSet
<1>5. \A x \in 0..MaxUsers : [u EXCEPT !.total = x] \in UiSet
    BY DEF UiSet
<1>6. \A x \in BOOLEAN : [u EXCEPT !.broken = x] \in UiSet
    BY DEF UiSet
<1> QED BY <1>1, <1>2, <1>3, <1>4, <1>5, <1>6

\* Two such steps make one.
LEMMA AlikeAlike ==
    ASSUME NEW u, NEW v, NEW w, Alike(u, v), Alike(v, w) PROVE Alike(u, w)
BY DEF Alike

\* The view that a page asks for.
LEMMA ViewTypes == ASSUME NEW u \in UiSet PROVE ViewOf(u) \in Views
BY DEF UiSet, ViewOf, Views

\* An empty table.
LEMMA NoRows == <<>> \in Tables
<1>1. {} \in SUBSET Users /\ <<>> \in [{} -> Roles]
    OBVIOUS
<1> QED BY <1>1, Zenon DEF Tables

\* A call when it is sent.
LEMMA NewCall ==
    ASSUME NEW i \in Nat, NEW op \in Edits \cup {"load"}, NEW on \in SUBSET Users,
           NEW role \in Roles \cup {"none"}, NEW v \in Views
    PROVE  /\ Call(i, op, on, role, v) \in CallSet
           /\ Call(i, op, on, role, v).id = i /\ Call(i, op, on, role, v).op = op
           /\ Call(i, op, on, role, v).view = v /\ ~Call(i, op, on, role, v).ran
           /\ ~Call(i, op, on, role, v).counted
<1> DEFINE c == Call(i, op, on, role, v)
<1>0. MaxUsers \in Nat /\ 0 \in 0..MaxUsers
    BY StaffAssumption DEF StaffAssumption
<1>1. c \in CallSet
    BY <1>0, NoRows DEF Call, CallSet
<1>2. c.id = i /\ c.op = op /\ c.view = v /\ ~c.ran /\ ~c.counted
    BY DEF Call
<1> QED BY <1>1, <1>2

\* The page of a view is a table of users, and there are no more matches than users.
LEMMA PageTypes ==
    ASSUME users \in [Users -> Roles \cup {"none"}], NEW v
    PROVE  Page(v) \in Tables /\ Cardinality(Matching(v)) \in 0..MaxUsers
<1>0. MaxUsers \in Nat
    BY StaffAssumption DEF StaffAssumption
<1>1. Matching(v) \subseteq Users /\ \A u \in Matching(v) : users[u] \in Roles
    BY DEF Matching
<1>2. OnPage(v) \in SUBSET Users /\ \A u \in OnPage(v) : users[u] \in Roles
    BY <1>1 DEF OnPage
<1>3. Page(v) \in [OnPage(v) -> Roles]
    BY <1>2 DEF Page
<1>4. Page(v) \in Tables
    BY <1>2, <1>3, Zenon DEF Tables
<1>5. IsFiniteSet(Users) /\ Cardinality(Users) = MaxUsers
    <2>1. /\ IsFiniteSet(1..MaxUsers)
          /\ Cardinality(1..MaxUsers) = IF 1 > MaxUsers THEN 0 ELSE MaxUsers - 1 + 1
        BY <1>0, FS_Interval
    <2> QED BY <1>0, <2>1 DEF Users
<1>6. Cardinality(Matching(v)) \in Nat /\ Cardinality(Matching(v)) <= MaxUsers
    BY <1>1, <1>5, FS_Subset, FS_CardinalityType
<1> QED BY <1>0, <1>4, <1>6

\* While the users stay, what a load read stays right.
LEMMA SameTables ==
    ASSUME UNCHANGED users, NEW c
    PROVE  ReadsRight(c)' <=> ReadsRight(c)
<1>1. Page(c.view)' = Page(c.view) /\ Matching(c.view)' = Matching(c.view)
    BY DEF Page, OnPage, Matching
<1> QED BY <1>1 DEF ReadsRight

\* So does what the table shows of a view.
LEMMA SameRows ==
    ASSUME UNCHANGED users, NEW rows, NEW total, NEW v, Shows(rows, total, v),
           ui'.rows = rows, ui'.total = total
    PROVE  Shows(ui.rows, ui.total, v)'
<1>1. Page(v)' = Page(v) /\ Matching(v)' = Matching(v)
    BY DEF Page, OnPage, Matching
<1> QED BY <1>1 DEF Shows

\* The first render: an empty table that loads.
LEMMA InitStaff == StaffInit => StaffInv
<1> SUFFICES ASSUME StaffInit PROVE StaffInv
    OBVIOUS
<1>0. MaxUsers \in Nat \ {0} /\ MaxCalls \in Nat \ {0}
    BY StaffAssumption DEF StaffAssumption
<1>1. ui \in UiSet
    <2>1. /\ 1 \in 1..MaxUsers /\ 0 \in 0..MaxUsers /\ {} \in SUBSET Users
          /\ {} \in {{}} \cup {{u} : u \in Users \cup {NewUser}}
        BY <1>0
    <2> QED BY <2>1, NoRows DEF StaffInit, UiSet
<1> DEFINE l == Load(1, ViewOf(ui))
<1>2. l \in CallSet /\ l.id = 1 /\ l.op = "load" /\ ~l.ran /\ ~l.counted
    <2>1. /\ 1 \in Nat /\ "load" \in Edits \cup {"load"} /\ {} \in SUBSET Users
          /\ "none" \in Roles \cup {"none"}
        OBVIOUS
    <2> DEFINE v == ViewOf(ui)
    <2>2. v \in Views
        BY <1>1, ViewTypes
    <2> HIDE DEF v
    <2> QED BY <2>1, <2>2, NewCall DEF Load, v
<1>3. calls = {l} /\ called = 1 /\ unsure = TRUE
    BY DEF StaffInit
<1> HIDE DEF l
<1>4. StaffShape
    BY <1>1, <1>2, <1>3 DEF StaffInit, StaffShape
<1>5. Editing = {} /\ IsFiniteSet({}) /\ Cardinality({}) = 0
    BY <1>2, <1>3, FS_EmptySet DEF Editing, Edits, Saves
<1>6. NumberedCalls
    BY <1>0, <1>2, <1>3, <1>5 DEF NumberedCalls
<1>7. FreshTables /\ TableHolds
    BY <1>2, <1>3 DEF FreshTables, TableHolds
<1> QED BY <1>4, <1>6, <1>7 DEF StaffInv

-----------------------------------------------------------------------------
(* Calls and their numbers.                                                *)

\* What a step leaves of the calls has the ids and operations of calls there were,
\* and these allow for one more call, or for one less edit, than before.
LEMMA Renumbered ==
    ASSUME StaffInv, NEW k \in {0, 1}, called' = called + k, NEW E, Editing' \subseteq E,
           IsFiniteSet(E), Cardinality(E) <= called + k,
           called + k + Cardinality(E) <= 2 * MaxCalls,
           \A c \in calls' : c.id <= called', \A c, d \in calls' : c.id = d.id => c = d
    PROVE  NumberedCalls'
<1>1. /\ MaxCalls \in Nat /\ called \in Nat
    BY StaffAssumption DEF StaffAssumption, StaffInv, StaffShape
<1>2. IsFiniteSet(Editing') /\ Cardinality(Editing') <= Cardinality(E)
    BY FS_Subset
<1>3. Cardinality(Editing') \in Nat /\ Cardinality(E) \in Nat
    BY <1>2, FS_CardinalityType
<1> QED BY <1>1, <1>2, <1>3 DEF NumberedCalls

\* d is call c, but for what its modal and the server have since made of it.
Same(c, d) == d \in CallSet /\ d.id = c.id /\ d.op = c.op /\ d.view = c.view
\* nothing ran meanwhile
Kind(c, d) == /\ Same(c, d) /\ d.counted = c.counted /\ d.ran = c.ran /\ d.fresh = c.fresh
              /\ d.rows = c.rows /\ d.total = c.total

\* A modal that closes leaves its calls in flight.
LEMMA LeftShape ==
    ASSUME StaffInv, NEW S, S \subseteq calls
    PROVE  /\ \A d \in Left(S) : \E c \in S : Kind(c, d)
           /\ \A c \in S : \E d \in Left(S) : Kind(c, d)
           /\ \A d, e \in Left(S) : d.id = e.id => d = e
<1> DEFINE left(c) == [c EXCEPT !.mine = FALSE]
<1>1. ASSUME NEW c \in S PROVE Kind(c, left(c))
    <2>1. c \in CallSet
        BY DEF StaffInv, StaffShape
    <2> QED BY <2>1 DEF CallSet, Kind, Same
<1>2. \A c, d \in S : c.id = d.id => c = d
    BY DEF StaffInv, NumberedCalls
<1>3. Left(S) = {left(c) : c \in S}
    BY DEF Left
<1> HIDE DEF left
<1> QED BY <1>1, <1>2, <1>3 DEF Kind, Same

\* A call is sent.
LEMMA CallKeeps ==
    ASSUME StaffInv, NEW n \in CallSet, n.id = called + 1, ~n.ran, ~n.counted,
           called < MaxCalls, called' = called + 1, calls' = calls \cup {n},
           UNCHANGED <<users, unsure>>, ui' \in UiSet, n.op = "load" \/ Alike(ui, ui')
    PROVE  StaffInv'
<1>0. /\ MaxCalls \in Nat /\ called \in Nat /\ calls \subseteq CallSet
      /\ \A c \in calls : c \in CallSet /\ c.id \in Nat /\ c.id > 0 /\ c.id <= called
    BY StaffAssumption DEF StaffAssumption, StaffInv, StaffShape, NumberedCalls, CallSet
<1>1. StaffShape'
    BY <1>0 DEF StaffInv, StaffShape
<1>2. NumberedCalls'
    <2>1. IsFiniteSet(Editing) /\ Cardinality(Editing) \in Nat /\ Cardinality(Editing) <= called
        BY FS_CardinalityType DEF StaffInv, NumberedCalls
    <2> DEFINE E == Editing \cup {called + 1}
    <2>2. /\ IsFiniteSet(E)
          /\ Cardinality(E) = IF called + 1 \in Editing THEN Cardinality(Editing)
                              ELSE Cardinality(Editing) + 1
        BY <2>1, FS_AddElement, Zenon
    <2>3. Editing' \subseteq E
        BY DEF Editing
    <2>4. Cardinality(E) \in Nat /\ Cardinality(E) <= called + 1
        <3> HIDE DEF E
        <3> QED BY <1>0, <2>1, <2>2
    <2>5. called + 1 + Cardinality(E) <= 2 * MaxCalls
        <3> HIDE DEF E
        <3> QED BY <1>0, <2>4
    <2>6. \A c, d \in calls' : c.id = d.id => c = d
        <3>1. \A c \in calls : c.id # called + 1
            BY <1>0
        <3> QED BY <3>1 DEF StaffInv, NumberedCalls
    <2>7. \A c \in calls' : c.id <= called'
        BY <1>0
    <2> HIDE DEF E
    <2> QED BY <2>2, <2>3, <2>4, <2>5, <2>6, <2>7, Renumbered
<1>3. FreshTables'
    BY SameTables DEF StaffInv, FreshTables
<1>4. TableHolds'
    <2> SUFFICES ASSUME ~unsure', \A c \in calls' : ~Decides(c)', NEW v \in Views, v = ViewOf(ui)'
                 PROVE  Shows(ui.rows, ui.total, v)'
        BY DEF TableHolds
    <2>1. Alike(ui, ui') /\ \A c \in calls : ~Decides(c)
        BY DEF Decides
    <2>2. v = ViewOf(ui) /\ ui'.rows = ui.rows /\ ui'.total = ui.total
        BY <2>1 DEF Alike, ViewOf
    <2>3. Shows(ui.rows, ui.total, v)
        BY <2>1, <2>2 DEF StaffInv, TableHolds
    <2> QED BY <2>2, <2>3, SameRows
<1> QED BY <1>1, <1>2, <1>3, <1>4 DEF StaffInv

\* Nothing is sent; the calls in flight may have been left by their modal.
LEMMA StillKeeps ==
    ASSUME StaffInv, UNCHANGED <<users, called, unsure>>, calls' = calls \/ calls' = Left(calls),
           Alike(ui, ui')
    PROVE  StaffInv'
<1>0. /\ MaxCalls \in Nat /\ called \in Nat
      /\ \A c \in calls : c \in CallSet /\ c.id > 0 /\ c.id <= called
    BY StaffAssumption DEF StaffAssumption, StaffInv, StaffShape, NumberedCalls
<1>1. /\ \A d \in calls' : \E c \in calls : Kind(c, d)
      /\ \A c \in calls : \E d \in calls' : Kind(c, d)
      /\ \A d, e \in calls' : d.id = e.id => d = e
    <2>1. \A c \in calls : Kind(c, c)
        BY <1>0 DEF Kind, Same
    <2> QED BY <2>1, LeftShape DEF StaffInv, NumberedCalls
<1>2. StaffShape'
    <2>1. \A d \in calls' : d \in CallSet /\ d.id > 0
        BY <1>0, <1>1 DEF Kind, Same
    <2> QED BY <2>1 DEF StaffInv, StaffShape, Alike
<1>3. NumberedCalls'
    <2>1. Editing' \subseteq Editing
        BY <1>1 DEF Editing, Kind, Same
    <2>2. \A d \in calls' : d.id <= called
        BY <1>0, <1>1 DEF Kind, Same
    <2>3. called' = called + 0 /\ called + 0 = called
        BY <1>0
    <2> QED BY <1>1, <2>1, <2>2, <2>3, Renumbered DEF StaffInv, NumberedCalls
<1>4. FreshTables'
    <2>1. \A c \in calls : c.op = "load" =>
             (c.ran => c.counted) /\ (c.counted /\ c.fresh => ReadsRight(c))
        BY DEF StaffInv, FreshTables
    <2>2. \A c \in calls : \A d : Kind(c, d) => (ReadsRight(c) <=> ReadsRight(d))
        BY DEF Kind, Same, ReadsRight
    <2>3. \A d \in calls' : d.op = "load" =>
             (d.ran => d.counted) /\ (d.counted /\ d.fresh => ReadsRight(d))
        BY <1>1, <2>1, <2>2 DEF Kind, Same
    <2> QED BY <2>3, SameTables DEF FreshTables
<1>5. TableHolds'
    <2> SUFFICES ASSUME ~unsure', \A c \in calls' : ~Decides(c)', NEW v \in Views, v = ViewOf(ui)'
                 PROVE  Shows(ui.rows, ui.total, v)'
        BY DEF TableHolds
    <2>1. \A c \in calls : ~Decides(c)
        BY <1>1 DEF Decides, Kind, Same
    <2>2. v = ViewOf(ui) /\ ui'.rows = ui.rows /\ ui'.total = ui.total
        BY DEF Alike, ViewOf
    <2>3. Shows(ui.rows, ui.total, v)
        BY <2>1, <2>2 DEF StaffInv, TableHolds
    <2> QED BY <2>2, <2>3, SameRows
<1> QED BY <1>2, <1>3, <1>4, <1>5 DEF StaffInv

-----------------------------------------------------------------------------
(* The user and the timer of the search.                                   *)

\* The effect on loadUsers, after a setState that leaves the table.
LEMMA ShowKeeps ==
    ASSUME StaffInv, NEW u \in UiSet, u.rows = ui.rows, u.total = ui.total, Show(u)
    PROVE  StaffInv'
<1>1. CASE ViewOf(u) = ViewOf(ui)
    <2>1. ui' = u /\ UNCHANGED <<users, calls, called, unsure>>
        BY <1>1 DEF Show
    <2>2. Alike(ui, ui')
        BY <1>1, <2>1 DEF Alike
    <2> QED BY <2>1, <2>2, StillKeeps
<1>2. CASE ViewOf(u) # ViewOf(ui)
    <2> DEFINE v == ViewOf(u)
               n == Load(called + 1, v)
    <2>1. /\ called < MaxCalls /\ called' = called + 1 /\ UNCHANGED <<users, unsure>>
          /\ ui' = [u EXCEPT !.loading = TRUE] /\ calls' = calls \cup {n}
        BY <1>2 DEF Show
    <2>2. ui' \in UiSet
        BY <2>1, UiWith DEF Alike
    <2>3. n \in CallSet /\ n.id = called + 1 /\ n.op = "load" /\ ~n.ran /\ ~n.counted
        <3>1. v \in Views
            BY ViewTypes
        <3>2. /\ called + 1 \in Nat /\ "load" \in Edits \cup {"load"} /\ {} \in SUBSET Users
              /\ "none" \in Roles \cup {"none"}
            BY DEF StaffInv, StaffShape
        <3> HIDE DEF v
        <3> QED BY <3>1, <3>2, NewCall DEF Load
    <2> HIDE DEF n
    <2> QED BY <2>1, <2>2, <2>3, CallKeeps
<1> QED BY <1>1, <1>2

\* Search, filters and page buttons.
LEMMA ViewSteps ==
    ASSUME StaffInv,
           \/ \E t \in BOOLEAN : Type(t)
           \/ Debounced
           \/ \E r \in Filters \cup {"all"} : Filter(r)
           \/ \E p \in 1..MaxUsers : Turn(p)
    PROVE  StaffInv'
<1>0. ui \in UiSet /\ 1 \in 1..MaxUsers /\ Filters \subseteq Roles
    BY StaffAssumption DEF StaffAssumption, StaffInv, StaffShape
<1>1. ASSUME NEW t \in BOOLEAN, Type(t) PROVE StaffInv'
    <2> DEFINE u == [ui EXCEPT !.typed = t, !.page = 1]
    <2>1. [ui EXCEPT !.typed = t] \in UiSet
        BY <1>0, UiWith DEF Alike
    <2>2. u \in UiSet
        BY <1>0, <2>1, UiWithView
    <2>3. u.rows = ui.rows /\ u.total = ui.total
        BY <1>0 DEF UiSet
    <2>4. Show(u)
        BY <1>1, Zenon DEF Type
    <2> HIDE DEF u
    <2> QED BY <2>2, <2>3, <2>4, ShowKeeps
<1>2. CASE Debounced
    <2> DEFINE u == [ui EXCEPT !.text = ui.typed]
    <2>1. ui.typed \in BOOLEAN
        BY <1>0 DEF UiSet
    <2>2. u \in UiSet
        BY <1>0, <2>1, UiWithView
    <2>3. u.rows = ui.rows /\ u.total = ui.total
        BY <1>0 DEF UiSet
    <2>4. Show(u)
        BY <1>2 DEF Debounced
    <2> HIDE DEF u
    <2> QED BY <2>2, <2>3, <2>4, ShowKeeps
<1>3. ASSUME NEW r \in Filters \cup {"all"}, Filter(r) PROVE StaffInv'
    <2> DEFINE u == [ui EXCEPT !.role = r, !.page = 1]
    <2>1. [ui EXCEPT !.role = r] \in UiSet
        BY <1>0, UiWithView
    <2>2. u \in UiSet
        BY <1>0, <2>1, UiWithView
    <2>3. u.rows = ui.rows /\ u.total = ui.total
        BY <1>0 DEF UiSet
    <2>4. Show(u)
        BY <1>3, Zenon DEF Filter
    <2> HIDE DEF u
    <2> QED BY <2>2, <2>3, <2>4, ShowKeeps
<1>4. ASSUME NEW p \in 1..MaxUsers, Turn(p) PROVE StaffInv'
    <2> DEFINE u == [ui EXCEPT !.page = p]
    <2>1. u \in UiSet
        BY <1>0, UiWithView
    <2>2. u.rows = ui.rows /\ u.total = ui.total
        BY <1>0 DEF UiSet
    <2>3. Show(u)
        BY <1>4 DEF Turn
    <2> HIDE DEF u
    <2> QED BY <2>1, <2>2, <2>3, ShowKeeps
<1> QED BY <1>1, <1>2, <1>3, <1>4

\* A button that sends a change.
LEMMA SendCallKeeps ==
    ASSUME StaffInv, NEW op \in Edits, NEW on \in SUBSET Users, NEW role \in Roles \cup {"none"},
           SendCall(op, on, role), Alike(ui, ui')
    PROVE  StaffInv'
<1> DEFINE v == ViewOf(ui)
           n == Call(called + 1, op, on, role, v)
<1>1. /\ called < MaxCalls /\ called' = called + 1 /\ UNCHANGED <<users, unsure>>
      /\ calls' = calls \cup {n}
    BY DEF SendCall
<1>2. n \in CallSet /\ n.id = called + 1 /\ ~n.ran /\ ~n.counted
    <2>1. v \in Views
        BY ViewTypes DEF StaffInv, StaffShape
    <2>2. called + 1 \in Nat /\ op \in Edits \cup {"load"}
        BY DEF StaffInv, StaffShape
    <2> HIDE DEF v
    <2> QED BY <2>1, <2>2, NewCall
<1>3. ui' \in UiSet
    BY DEF Alike
<1> HIDE DEF n
<1> QED BY <1>1, <1>2, <1>3, CallKeeps

\* Rows, their buttons and the modal.
LEMMA RowSteps ==
    ASSUME StaffInv,
           \/ \E u \in Users : handleSelectRow(u) \/ handleDelete(u)
           \/ handleSelectAll \/ handleBulkDelete
           \/ \E u \in Users \cup {NewUser} : OpenUser(u)
           \/ \E u \in Users \cup {NewUser}, r \in Roles : handleSubmit(u, r)
           \/ CloseUser
    PROVE  StaffInv'
<1>0. /\ MaxUsers \in Nat \ {0} /\ ui \in UiSet /\ ui.selected \in SUBSET Users
      /\ ui.rows \in Tables
    BY StaffAssumption DEF StaffAssumption, StaffInv, StaffShape, UiSet
<1>r. TableRows \subseteq Users
    BY <1>0 DEF TableRows, Tables
<1>1. ASSUME NEW u \in Users, handleSelectRow(u) PROVE StaffInv'
    <2> DEFINE s == (ui.selected \ {u}) \cup ({u} \ ui.selected)
    <2>1. s \in SUBSET Users
        BY <1>0
    <2>2. ui' = [ui EXCEPT !.selected = s] /\ UNCHANGED <<users, calls, called, unsure>>
        BY <1>1 DEF handleSelectRow
    <2> HIDE DEF s
    <2>3. Alike(ui, ui')
        BY <1>0, <2>1, <2>2, UiWith
    <2> QED BY <2>2, <2>3, StillKeeps
<1>2. ASSUME NEW u \in Users, handleDelete(u) PROVE StaffInv'
    <2>1. u \in 0..MaxUsers /\ {u} \in SUBSET Users /\ "delete" \in Edits /\ "none" \in Roles \cup {"none"}
        BY <1>0 DEF Users, Edits
    <2>2. ui' = [ui EXCEPT !.deleting = u] /\ SendCall("delete", {u}, "none")
        BY <1>2 DEF handleDelete
    <2>3. Alike(ui, ui')
        BY <1>0, <2>1, <2>2, UiWith
    <2> QED BY <2>1, <2>2, <2>3, SendCallKeeps
<1>3. CASE handleSelectAll
    <2> DEFINE s == IF TableRows \subseteq ui.selected THEN {} ELSE TableRows
    <2>1. s \in SUBSET Users
        BY <1>r
    <2>2. ui' = [ui EXCEPT !.selected = s] /\ UNCHANGED <<users, calls, called, unsure>>
        BY <1>3 DEF handleSelectAll
    <2> HIDE DEF s
    <2>3. Alike(ui, ui')
        BY <1>0, <2>1, <2>2, UiWith
    <2> QED BY <2>2, <2>3, StillKeeps
<1>4. CASE handleBulkDelete
    <2>1. TRUE \in BOOLEAN /\ "bulkDelete" \in Edits /\ "none" \in Roles \cup {"none"}
        BY DEF Edits
    <2>2. ui' = [ui EXCEPT !.bulkDeleting = TRUE] /\ SendCall("bulkDelete", ui.selected, "none")
        BY <1>4 DEF handleBulkDelete
    <2>3. Alike(ui, ui')
        BY <1>0, <2>1, <2>2, UiWith
    <2> QED BY <1>0, <2>1, <2>2, <2>3, SendCallKeeps
<1>5. ASSUME NEW u \in Users \cup {NewUser}, OpenUser(u) PROVE StaffInv'
    <2>1. {u} \in {{}} \cup {{v} : v \in Users \cup {NewUser}}
        OBVIOUS
    <2>2. ui' = [ui EXCEPT !.form = {u}] /\ UNCHANGED <<users, calls, called, unsure>>
        BY <1>5 DEF OpenUser
    <2>3. Alike(ui, ui')
        BY <1>0, <2>1, <2>2, UiWith
    <2> QED BY <2>2, <2>3, StillKeeps
<1>6. ASSUME NEW u \in Users \cup {NewUser}, NEW r \in Roles, handleSubmit(u, r) PROVE StaffInv'
    <2> DEFINE op == IF u = NewUser THEN "create" ELSE "update"
    <2>1. op \in Edits /\ {u} \ {NewUser} \in SUBSET Users /\ r \in Roles \cup {"none"}
        BY DEF Edits, Saves
    <2>2. ui' = [ui EXCEPT !.saving = TRUE] /\ SendCall(op, {u} \ {NewUser}, r)
        BY <1>6 DEF handleSubmit
    <2>3. Alike(ui, ui')
        BY <1>0, <2>2, UiWith
    <2> HIDE DEF op
    <2> QED BY <2>1, <2>2, <2>3, SendCallKeeps
<1>7. CASE CloseUser
    <2> DEFINE w == [ui EXCEPT !.form = {}]
    <2>1. ui' = [w EXCEPT !.saving = FALSE] /\ calls' = Left(calls) /\ UNCHANGED <<users, called, unsure>>
        BY <1>7 DEF CloseUser
    <2>2. Alike(ui, w)
        BY <1>0, UiWith
    <2> HIDE DEF w
    <2>3. Alike(w, ui')
        BY <2>1, <2>2, UiWith DEF Alike
    <2>4. Alike(ui, ui')
        BY <2>2, <2>3, AlikeAlike
    <2> QED BY <2>1, <2>4, StillKeeps
<1> QED BY <1>1, <1>2, <1>3, <1>4, <1>5, <1>6, <1>7

-----------------------------------------------------------------------------
(* The server.                                                             *)

\* d is what call c becomes when the server runs the change e.
Runs(c, d, e) ==
    /\ Same(c, d)
    /\ c = e => d.ran
    /\ c # e => /\ d.counted = c.counted /\ d.ran = c.ran
                /\ ~(d.counted /\ d.fresh)

\* Every call in flight becomes one, and no other appears.
LEMMA RunShape ==
    ASSUME StaffInv, NEW e \in calls, Run(e)
    PROVE  /\ \A d \in calls' : \E c \in calls : Runs(c, d, e)
           /\ \A c \in calls : \E d \in calls' : Runs(c, d, e)
           /\ \A c, d \in calls' : c.id = d.id => c = d
<1> DEFINE n == [e EXCEPT !.ran = TRUE]
           older(c) == [c EXCEPT !.fresh = ~c.counted /\ @]
<1>0. /\ \A c \in calls : c \in CallSet
      /\ \A c, d \in calls : c.id = d.id => c = d
    BY DEF StaffInv, StaffShape, NumberedCalls
<1>1. calls' = {older(c) : c \in calls \ {e}} \cup {n}
    BY DEF Run
<1>2. n \in CallSet /\ n.id = e.id /\ n.op = e.op /\ n.view = e.view /\ n.ran
    BY <1>0 DEF CallSet
<1>3. ASSUME NEW c \in calls
      PROVE  /\ older(c) \in CallSet /\ older(c).id = c.id /\ older(c).op = c.op
             /\ older(c).view = c.view /\ older(c).counted = c.counted /\ older(c).ran = c.ran
             /\ ~(older(c).counted /\ older(c).fresh)
    <2>1. /\ older(c) \in CallSet /\ older(c).id = c.id /\ older(c).op = c.op
          /\ older(c).view = c.view /\ older(c).counted = c.counted /\ older(c).ran = c.ran
        BY <1>0 DEF CallSet
    <2>2. older(c).fresh <=> ~c.counted /\ c.fresh
        BY <1>0 DEF CallSet
    <2> QED BY <2>1, <2>2
<1> HIDE DEF n, older
<1>4. Runs(e, n, e)
    BY <1>2 DEF Runs, Same
<1>5. \A c \in calls \ {e} : Runs(c, older(c), e)
    BY <1>3 DEF Runs, Same
<1>6. \A d \in calls' : \E c \in calls : Runs(c, d, e)
    BY <1>1, <1>4, <1>5
<1>7. \A c \in calls : \E d \in calls' : Runs(c, d, e)
    BY <1>1, <1>4, <1>5
<1>8. \A c, d \in calls' : c.id = d.id => c = d
    BY <1>0, <1>1, <1>2, <1>3
<1> QED BY <1>6, <1>7, <1>8

\* The server runs a change.
LEMMA RunKeeps ==
    ASSUME StaffInv, NEW e \in calls, Run(e)
    PROVE  StaffInv'
<1>0. /\ called \in Nat /\ users \in [Users -> Roles \cup {"none"}]
      /\ \A c \in calls : c \in CallSet /\ c.id > 0 /\ c.id <= called
      /\ UNCHANGED <<ui, called, unsure>>
      /\ e.op \in Edits /\ "load" \notin Edits
    BY DEF StaffInv, StaffShape, NumberedCalls, Run, CallSet, Edits, Saves
<1>f. \A d \in calls' : \E c \in calls : Runs(c, d, e)
    BY RunShape
<1>t. \A c \in calls : \E d \in calls' : Runs(c, d, e)
    BY RunShape
<1>1. users' \in [Users -> Roles \cup {"none"}]
    <2>1. users' \in Stored(e) /\ e.role \in Roles \cup {"none"}
        BY <1>0 DEF Run, CallSet
    <2>2. ASSUME NEW s \in Stored(e) PROVE s \in [Users -> Roles \cup {"none"}]
        BY <1>0, <2>1, <2>2 DEF Stored
    <2> QED BY <2>1, <2>2
<1>2. StaffShape'
    <2>1. \A d \in calls' : d \in CallSet /\ d.id > 0
        BY <1>0, <1>f DEF Runs, Same
    <2> QED BY <1>0, <1>1, <2>1 DEF StaffInv, StaffShape
<1>3. NumberedCalls'
    <2>1. Editing' \subseteq Editing
        BY <1>f DEF Editing, Runs, Same
    <2>2. \A d \in calls' : d.id <= called
        BY <1>0, <1>f DEF Runs, Same
    <2>3. called' = called + 0 /\ called + 0 = called
        BY <1>0
    <2>4. \A c, d \in calls' : c.id = d.id => c = d
        BY RunShape
    <2> QED BY <2>1, <2>2, <2>3, <2>4, Renumbered DEF StaffInv, NumberedCalls
<1>4. FreshTables'
    <2>1. ASSUME NEW d \in calls', d.op = "load"
          PROVE  (d.ran => d.counted) /\ ~(d.counted /\ d.fresh)
        <3>1. PICK c \in calls : Runs(c, d, e)
            BY <1>f
        <3>2. c.op = "load" /\ c # e
            BY <1>0, <2>1, <3>1 DEF Runs, Same
        <3> QED BY <3>1, <3>2 DEF Runs, StaffInv, FreshTables
    <2> QED BY <2>1 DEF FreshTables
<1>5. TableHolds'
    <2>1. \E d \in calls' : d.ran
        BY <1>t DEF Runs
    <2> QED BY <2>1 DEF TableHolds, Decides
<1> QED BY <1>2, <1>3, <1>4, <1>5 DEF StaffInv

\* A load comes further: n takes the place of e.
LEMMA LoadKeeps ==
    ASSUME StaffInv, NEW e \in calls, NEW n, Same(e, n), n.op = "load",
           n.ran => n.counted, n.counted /\ n.fresh => ReadsRight(n),
           calls' = (calls \ {e}) \cup {n}, UNCHANGED <<users, ui, called, unsure>>
    PROVE  StaffInv'
<1>0. /\ called \in Nat /\ n \in CallSet /\ n.id = e.id /\ n.op = e.op
      /\ \A c \in calls : c \in CallSet /\ c.id > 0 /\ c.id <= called
    BY DEF StaffInv, StaffShape, NumberedCalls, Same
<1>1. StaffShape'
    <2>1. \A d \in calls' : d \in CallSet /\ d.id > 0
        BY <1>0
    <2> QED BY <1>0, <2>1 DEF StaffInv, StaffShape
<1>2. NumberedCalls'
    <2>1. Editing' \subseteq Editing
        BY <1>0 DEF Editing
    <2>2. \A d \in calls' : d.id <= called
        BY <1>0
    <2>3. called' = called + 0 /\ called + 0 = called
        BY <1>0
    <2>4. \A c, d \in calls' : c.id = d.id => c = d
        BY <1>0 DEF StaffInv, NumberedCalls
    <2> QED BY <2>1, <2>2, <2>3, <2>4, Renumbered DEF StaffInv, NumberedCalls
<1>3. FreshTables'
    <2>1. \A d \in calls' : d.op = "load" =>
             (d.ran => d.counted) /\ (d.counted /\ d.fresh => ReadsRight(d))
        BY DEF StaffInv, FreshTables
    <2> QED BY <2>1, SameTables DEF FreshTables
<1>4. TableHolds'
    <2>1. n \in calls' /\ n.op = "load"
        OBVIOUS
    <2> QED BY <2>1 DEF TableHolds, Decides
<1> QED BY <1>1, <1>2, <1>3, <1>4 DEF StaffInv

\* The server counts.
LEMMA CountKeeps ==
    ASSUME StaffInv, NEW e \in calls, Count(e)
    PROVE  StaffInv'
<1> DEFINE total == Cardinality(Matching(e.view))
           n == [e EXCEPT !.counted = TRUE, !.total = total]
<1>0. e \in CallSet /\ e.op = "load" /\ ~e.ran
    BY DEF StaffInv, StaffShape, FreshTables, Count
<1>1. total \in 0..MaxUsers
    BY PageTypes DEF StaffInv, StaffShape
<1>2. calls' = (calls \ {e}) \cup {n} /\ UNCHANGED <<users, ui, called, unsure>>
    BY DEF Count
<1> HIDE DEF total
<1>3. /\ n \in CallSet /\ n.id = e.id /\ n.op = e.op /\ n.view = e.view /\ n.counted
      /\ n.ran = e.ran /\ n.total = total
    BY <1>0, <1>1 DEF CallSet
<1> HIDE DEF n
<1>4. ReadsRight(n)
    BY <1>0, <1>3 DEF ReadsRight, total
<1>5. Same(e, n)
    BY <1>3 DEF Same
<1> QED BY <1>0, <1>2, <1>3, <1>4, <1>5, LoadKeeps

\* The server reads the rows, or those before they broke off.
LEMMA SelectKeeps ==
    ASSUME StaffInv, NEW e \in calls, Select(e)
    PROVE  StaffInv'
<1>1. PICK h \in Heads(OnPage(e.view)) :
         calls' = (calls \ {e}) \cup
                  {[e EXCEPT !.ran = TRUE, !.rows = [u \in h |-> users[u]],
                             !.fresh = @ /\ h = OnPage(e.view)]}
    BY Zenon DEF Select
<1> DEFINE rows == [u \in h |-> users[u]]
           all == h = OnPage(e.view)
           f == e.fresh /\ all
           n == [e EXCEPT !.ran = TRUE, !.rows = rows, !.fresh = f]
<1>0. e \in CallSet /\ e.op = "load" /\ e.counted /\ e.fresh \in BOOLEAN
    <2>1. e \in CallSet
        BY DEF StaffInv, StaffShape
    <2>2. e.op = "load" /\ e.counted
        BY Zenon DEF Select
    <2> QED BY <2>1, <2>2 DEF CallSet
<1>2. rows \in Tables
    <2>1. h \in SUBSET Users /\ \A u \in h : users[u] \in Roles
        BY DEF Heads, OnPage, Matching, StaffInv, StaffShape
    <2>2. rows \in [h -> Roles]
        BY <2>1
    <2> QED BY <2>1, <2>2, Zenon DEF Tables
<1>3. all \in BOOLEAN
    OBVIOUS
<1>4. all => rows = Page(e.view)
    BY DEF Page
<1>5. calls' = (calls \ {e}) \cup {n}
    BY <1>1, Zenon
<1> HIDE DEF rows, all
<1>6. f \in BOOLEAN /\ (f => e.fresh /\ all)
    BY <1>0, <1>3
<1> HIDE DEF f
<1>7. /\ n \in CallSet /\ n.id = e.id /\ n.op = e.op /\ n.view = e.view /\ n.counted = e.counted
      /\ n.total = e.total /\ n.rows = rows /\ n.fresh = f
    BY <1>0, <1>2, <1>6 DEF CallSet
<1> HIDE DEF n
<1>8. n.counted /\ n.fresh => ReadsRight(n)
    <2>1. e.fresh => e.total = Cardinality(Matching(e.view))
        BY <1>0 DEF StaffInv, FreshTables, ReadsRight
    <2> QED BY <1>4, <1>6, <1>7, <2>1 DEF ReadsRight
<1>9. Same(e, n) /\ n.op = "load" /\ n.counted
    BY <1>0, <1>7 DEF Same
<1>10. UNCHANGED <<users, ui, called, unsure>>
    BY Zenon DEF Select
<1> QED BY <1>5, <1>8, <1>9, <1>10, LoadKeeps

-----------------------------------------------------------------------------
(* Replies.                                                                *)

\* The flag of an operation falls.
LEMMA SettledAlike ==
    ASSUME StaffInv, NEW c \in calls
    PROVE  Alike(ui, Settled(c))
<1> DEFINE d == IF c.op = "delete" THEN 0 ELSE ui.deleting
           b == ui.bulkDeleting /\ c.op # "bulkDelete"
           s == ui.saving /\ ~(c.op \in Saves /\ c.mine)
           w == [ui EXCEPT !.deleting = d]
           z == [w EXCEPT !.bulkDeleting = b]
<1>0. /\ MaxUsers \in Nat /\ ui \in UiSet /\ ui.deleting \in 0..MaxUsers
      /\ ui.bulkDeleting \in BOOLEAN /\ ui.saving \in BOOLEAN
    BY StaffAssumption DEF StaffAssumption, StaffInv, StaffShape, UiSet
<1>1. d \in 0..MaxUsers /\ b \in BOOLEAN /\ s \in BOOLEAN
    <2>1. d \in 0..MaxUsers
        BY <1>0
    <2>2. b \in BOOLEAN
        BY <1>0
    <2>3. s \in BOOLEAN
        BY <1>0
    <2> QED BY <2>1, <2>2, <2>3
<1>2. w.bulkDeleting = ui.bulkDeleting /\ z.saving = ui.saving
    BY <1>0 DEF UiSet
<1>3. Settled(c) = [z EXCEPT !.saving = s]
    BY <1>2 DEF Settled
<1> HIDE DEF d, b, s
<1>4. Alike(ui, w)
    BY <1>0, <1>1, UiWith
<1> HIDE DEF w
<1>w. w \in UiSet
    BY <1>4 DEF Alike
<1>5. Alike(w, z)
    BY <1>1, <1>w, UiWith
<1> HIDE DEF z
<1>z. z \in UiSet
    BY <1>5 DEF Alike
<1>6. Alike(z, Settled(c))
    BY <1>1, <1>3, <1>z, UiWith
<1> QED BY <1>4, <1>5, <1>6 DEF Alike

\* A change is accepted: the table is loaded again.
LEMMA SavedKeeps ==
    ASSUME StaffInv, NEW e \in calls, Saved(e)
    PROVE  StaffInv'
<1> DEFINE n == Load(called + 1, e.view)
           S == calls \ {e}
           T == IF e.op \in Saves THEN Left(S) ELSE S
<1>0. /\ MaxCalls \in Nat /\ called \in Nat /\ e.view \in Views
      /\ \A c \in calls : c \in CallSet /\ c.id \in Nat /\ c.id > 0 /\ c.id <= called
      /\ e.op \in Edits /\ called' = called + 1 /\ UNCHANGED <<users, unsure>>
      /\ calls' = T \cup {n}
    BY StaffAssumption DEF StaffAssumption, StaffInv, StaffShape, NumberedCalls, CallSet, Saved, Followed
<1>1. n \in CallSet /\ n.id = called + 1 /\ n.op = "load" /\ ~n.ran /\ ~n.counted
    <2>1. /\ called + 1 \in Nat /\ "load" \in Edits \cup {"load"} /\ {} \in SUBSET Users
          /\ "none" \in Roles \cup {"none"}
        BY <1>0
    <2> QED BY <1>0, <2>1, NewCall DEF Load
<1>2. /\ \A d \in T : \E c \in S : Kind(c, d)
      /\ \A d1, d2 \in T : d1.id = d2.id => d1 = d2
    <2>1. \A c \in calls : Kind(c, c)
        BY <1>0 DEF Kind, Same
    <2>2. S \subseteq calls
        OBVIOUS
    <2>3. \A c, d \in S : c.id = d.id => c = d
        BY DEF StaffInv, NumberedCalls
    <2> HIDE DEF S
    <2> QED BY <2>1, <2>2, <2>3, LeftShape
<1>3. \A c \in S : c \in calls /\ c.id # e.id
    BY DEF StaffInv, NumberedCalls
<1> HIDE DEF n, S, T
<1>4. ui' \in UiSet
    <2> DEFINE u == Settled(e)
               v == [u EXCEPT !.loading = TRUE]
               sel == IF e.op = "bulkDelete" THEN {} ELSE u.selected
               w == [v EXCEPT !.selected = sel]
               f == IF e.op \in Saves THEN {} ELSE u.form
               x == [w EXCEPT !.form = f]
               s == u.saving /\ e.op \notin Saves
    <2>1. u \in UiSet
        BY SettledAlike DEF Alike
    <2> HIDE DEF u
    <2>2. /\ sel \in SUBSET Users /\ f \in {{}} \cup {{y} : y \in Users \cup {NewUser}}
          /\ s \in BOOLEAN
        <3>1. sel \in SUBSET Users
            BY <2>1 DEF UiSet
        <3>2. f \in {{}} \cup {{y} : y \in Users \cup {NewUser}}
            BY <2>1 DEF UiSet
        <3>3. s \in BOOLEAN
            BY <2>1 DEF UiSet
        <3> QED BY <3>1, <3>2, <3>3
    <2>3. v.selected = u.selected /\ w.form = u.form /\ x.saving = u.saving
        BY <2>1 DEF UiSet
    <2>4. ui' = [x EXCEPT !.saving = s]
        BY <2>3 DEF Saved, u
    <2> HIDE DEF sel, f, s
    <2>5. v \in UiSet
        BY <2>1, UiWith DEF Alike
    <2> HIDE DEF v
    <2>6. w \in UiSet
        BY <2>2, <2>5, UiWith DEF Alike
    <2> HIDE DEF w
    <2>7. x \in UiSet
        BY <2>2, <2>6, UiWith DEF Alike
    <2> HIDE DEF x
    <2> QED BY <2>2, <2>4, <2>7, UiWith DEF Alike
<1>5. StaffShape'
    <2>1. \A d \in calls' : d \in CallSet /\ d.id > 0
        BY <1>0, <1>1, <1>2, <1>3 DEF Kind, Same
    <2> QED BY <1>0, <1>4, <2>1 DEF StaffInv, StaffShape
<1>6. NumberedCalls'
    <2> DEFINE E == Editing \ {e.id}
    <2>1. IsFiniteSet(Editing) /\ Cardinality(Editing) \in Nat /\ e.id \in Editing
        BY <1>0, FS_CardinalityType DEF StaffInv, NumberedCalls, Editing
    <2>2. IsFiniteSet(E) /\ Cardinality(E) = Cardinality(Editing) - 1
        BY <2>1, FS_RemoveElement
    <2>3. Editing' \subseteq E
        <3>1. n.op \notin Edits
            BY <1>1 DEF Edits, Saves
        <3>2. \A d \in T : \E c \in calls : d.id = c.id /\ d.op = c.op /\ c.id # e.id
            BY <1>2, <1>3 DEF Kind, Same
        <3> QED BY <1>0, <3>1, <3>2 DEF Editing
    <2> HIDE DEF E
    <2>4. Cardinality(E) <= called + 1 /\ called + 1 + Cardinality(E) <= 2 * MaxCalls
        BY <1>0, <2>1, <2>2 DEF StaffInv, NumberedCalls
    <2>5. \A d \in T : d.id \in Nat /\ d.id <= called
        BY <1>0, <1>2, <1>3 DEF Kind, Same
    <2>6. \A d \in calls' : d.id <= called'
        BY <1>0, <1>1, <2>5
    <2>7. \A c, d \in calls' : c.id = d.id => c = d
        <3>1. \A d \in T : d.id # called + 1
            BY <1>0, <2>5
        <3> QED BY <1>0, <1>1, <1>2, <3>1
    <2> QED BY <1>0, <2>2, <2>3, <2>4, <2>6, <2>7, Renumbered
<1>7. FreshTables'
    <2>1. \A c \in S : c.op = "load" =>
             (c.ran => c.counted) /\ (c.counted /\ c.fresh => ReadsRight(c))
        BY <1>3 DEF StaffInv, FreshTables
    <2>2. \A c \in S : \A d : Kind(c, d) => (ReadsRight(c) <=> ReadsRight(d))
        BY DEF Kind, Same, ReadsRight
    <2>3. \A d \in calls' : d.op = "load" =>
             (d.ran => d.counted) /\ (d.counted /\ d.fresh => ReadsRight(d))
        BY <1>0, <1>1, <1>2, <2>1, <2>2 DEF Kind, Same
    <2> QED BY <1>0, <2>3, SameTables DEF FreshTables
<1>8. TableHolds'
    <2>1. n \in calls' /\ n.op = "load"
        BY <1>0, <1>1
    <2> QED BY <2>1 DEF TableHolds, Decides
<1> QED BY <1>5, <1>6, <1>7, <1>8 DEF StaffInv

\* A call leaves and nothing is sent in its place.
LEMMA CallLeaves ==
    ASSUME StaffInv, NEW e \in calls, calls' = calls \ {e}, UNCHANGED <<users, called>>,
           ui' \in UiSet, unsure' \in BOOLEAN
    PROVE  StaffShape' /\ NumberedCalls' /\ FreshTables'
<1>0. called \in Nat
    BY DEF StaffInv, StaffShape
<1>1. StaffShape'
    BY DEF StaffInv, StaffShape
<1>2. NumberedCalls'
    <2>1. Editing' \subseteq Editing
        BY DEF Editing
    <2>2. called' = called + 0 /\ called + 0 = called
        BY <1>0
    <2>3. /\ \A d \in calls' : d.id <= called'
          /\ \A c, d \in calls' : c.id = d.id => c = d
        BY DEF StaffInv, NumberedCalls
    <2> QED BY <2>1, <2>2, <2>3, Renumbered DEF StaffInv, NumberedCalls
<1>3. FreshTables'
    BY SameTables DEF StaffInv, FreshTables
<1> QED BY <1>1, <1>2, <1>3

\* A load overwrites the table.
LEMMA LoadedKeeps ==
    ASSUME StaffInv, NEW e \in calls, Loaded(e)
    PROVE  StaffInv'
<1>0. /\ ui \in UiSet /\ e \in CallSet /\ e.op = "load" /\ e.ran
      /\ e.rows \in Tables /\ e.total \in 0..MaxUsers
      /\ calls' = calls \ {e} /\ UNCHANGED <<users, called>>
    BY DEF StaffInv, StaffShape, CallSet, Loaded
<1> DEFINE w == [ui EXCEPT !.rows = e.rows]
           x == [w EXCEPT !.total = e.total]
           y == [x EXCEPT !.loading = FALSE]
           none == DOMAIN e.rows = {}
<1>1. w \in UiSet /\ x \in UiSet
    BY <1>0, UiWithView
<1>y. y \in UiSet
    <2> HIDE DEF x
    <2> QED BY <1>1, UiWith DEF Alike
<1>u. ui' = [ui EXCEPT !.rows = e.rows, !.total = e.total, !.loading = FALSE, !.broken = none]
    BY Zenon DEF Loaded
<1>n. none \in BOOLEAN
    OBVIOUS
<1> HIDE DEF none
<1>2. ui' \in UiSet
    <2>1. ui' = [y EXCEPT !.broken = none]
        BY <1>u
    <2> HIDE DEF y
    <2> QED BY <1>y, <1>n, <2>1, UiWithView
<1>3. ui'.rows = e.rows /\ ui'.total = e.total /\ ViewOf(ui') = ViewOf(ui)
    BY <1>0, <1>u DEF UiSet, ViewOf
<1>4. unsure' = (~e.fresh \/ e.view # ViewOf(ui))
    BY DEF Loaded
<1>5. unsure' \in BOOLEAN
    BY <1>4, Zenon
<1>6. StaffShape' /\ NumberedCalls' /\ FreshTables'
    BY <1>0, <1>2, <1>5, CallLeaves
<1>7. TableHolds'
    <2> SUFFICES ASSUME ~unsure', NEW v \in Views, v = ViewOf(ui)'
                 PROVE  Shows(ui.rows, ui.total, v)'
        BY DEF TableHolds
    <2>1. v = ViewOf(ui)
        BY <1>3 DEF ViewOf
    <2>2. e.fresh /\ e.view = v
        BY <1>4, <2>1
    <2>3. Shows(e.rows, e.total, v)
        BY <1>0, <2>2 DEF StaffInv, FreshTables, ReadsRight, Shows
    <2> QED BY <1>0, <1>3, <2>3, SameRows
<1> QED BY <1>6, <1>7 DEF StaffInv

\* A call fails, before or after the server ran it.
LEMMA CallFailsKeeps ==
    ASSUME StaffInv, NEW e \in calls, CallFails(e)
    PROVE  StaffInv'
<1>0. /\ calls' = calls \ {e} /\ UNCHANGED <<users, called>>
      /\ unsure \in BOOLEAN /\ e \in CallSet /\ e.ran \in BOOLEAN
    BY DEF StaffInv, StaffShape, CallSet, CallFails
<1>1. Alike(ui, ui')
    <2> DEFINE u == Settled(e)
               l == u.loading /\ e.op # "load"
    <2>1. Alike(ui, u)
        BY SettledAlike
    <2>2. ui' = [u EXCEPT !.loading = l]
        BY DEF CallFails
    <2> HIDE DEF u
    <2>3. l \in BOOLEAN
        BY <2>1 DEF Alike, UiSet
    <2> HIDE DEF l
    <2>4. Alike(u, ui')
        BY <2>1, <2>2, <2>3, UiWith DEF Alike
    <2> QED BY <2>1, <2>4, AlikeAlike
<1>2. unsure' \in BOOLEAN /\ (~unsure' => ~unsure /\ e.op # "load" /\ ~e.ran)
    <2>1. unsure' \in BOOLEAN
        BY <1>0 DEF CallFails
    <2>2. ~unsure' => ~unsure /\ e.op # "load" /\ ~e.ran
        BY <1>0 DEF CallFails
    <2> QED BY <2>1, <2>2
<1>3. StaffShape' /\ NumberedCalls' /\ FreshTables'
    BY <1>0, <1>1, <1>2, CallLeaves DEF Alike
<1>4. TableHolds'
    <2> SUFFICES ASSUME ~unsure', \A c \in calls' : ~Decides(c)', NEW v \in Views, v = ViewOf(ui)'
                 PROVE  Shows(ui.rows, ui.total, v)'
        BY DEF TableHolds
    <2>1. \A c \in calls : ~Decides(c)
        BY <1>0, <1>2 DEF Decides
    <2>2. v = ViewOf(ui) /\ ui'.rows = ui.rows /\ ui'.total = ui.total
        BY <1>1 DEF Alike, ViewOf
    <2>3. Shows(ui.rows, ui.total, v)
        BY <1>2, <2>1, <2>2 DEF StaffInv, TableHolds
    <2> QED BY <1>0, <2>2, <2>3, SameRows
<1> QED BY <1>3, <1>4 DEF StaffInv

\* Every step of the page keeps the invariant.
LEMMA StaffKept == StaffInv /\ StaffNext => StaffInv'
<1> SUFFICES ASSUME StaffInv, StaffNext PROVE StaffInv'
    OBVIOUS
<1>1. ASSUME NEW c \in calls, Reply(c) PROVE StaffInv'
    BY <1>1, RunKeeps, CountKeeps, SelectKeeps, SavedKeeps, LoadedKeeps, CallFailsKeeps, Zenon
    DEF Reply
<1>2. CASE \/ \E t \in BOOLEAN : Type(t)
           \/ Debounced
           \/ \E r \in Filters \cup {"all"} : Filter(r)
           \/ \E p \in 1..MaxUsers : Turn(p)
    BY <1>2, ViewSteps, Zenon
<1>3. CASE \/ \E u \in Users : handleSelectRow(u) \/ handleDelete(u)
           \/ handleSelectAll \/ handleBulkDelete
           \/ \E u \in Users \cup {NewUser} : OpenUser(u)
           \/ \E u \in Users \cup {NewUser}, r \in Roles : handleSubmit(u, r)
           \/ CloseUser
    BY <1>3, RowSteps, Zenon
<1> QED BY <1>1, <1>2, <1>3, Zenon DEF StaffNext, Uses

\* What the invariant says of the types and of a table at rest.
LEMMA StaffInvUse == StaffInv => StaffTypeOK /\ TableAgrees
<1> SUFFICES ASSUME StaffInv PROVE StaffTypeOK /\ TableAgrees
    OBVIOUS
<1>0. /\ MaxCalls \in Nat /\ MaxUsers \in Nat /\ called \in Nat /\ called > 0 /\ ui \in UiSet
      /\ \A c \in calls : c \in CallSet /\ c.id \in Nat /\ c.id > 0 /\ c.id <= called
    BY StaffAssumption DEF StaffAssumption, StaffInv, StaffShape, NumberedCalls, CallSet
<1>1. called <= 2 * MaxCalls
    <2>1. Cardinality(Editing) \in Nat
        BY FS_CardinalityType DEF StaffInv, NumberedCalls
    <2> QED BY <1>0, <2>1 DEF StaffInv, NumberedCalls
<1>2. called \in Calls /\ \A c \in calls : c.id \in Calls
    BY <1>0, <1>1 DEF Calls
<1>3. \A c \in calls : c.op \in Edits \cup {"load"} /\ c.view \in Views
    BY <1>0 DEF CallSet
<1>4. ViewOf(ui) \in Views
    BY <1>0, ViewTypes
<1>5. /\ ui.rows \in Tables /\ ui.total \in 0..MaxUsers
      /\ {ui.typed, ui.loading, ui.saving, ui.bulkDeleting, ui.broken} \subseteq BOOLEAN
      /\ ui.selected \subseteq Users /\ ui.deleting \in Users \cup {0}
      /\ ui.form \in {{}} \cup {{u} : u \in Users \cup {NewUser}}
    <2>1. /\ ui.rows \in Tables /\ ui.total \in 0..MaxUsers /\ ui.selected \subseteq Users
          /\ ui.form \in {{}} \cup {{u} : u \in Users \cup {NewUser}}
        BY <1>0 DEF UiSet
    <2>2. {ui.typed, ui.loading, ui.saving, ui.bulkDeleting, ui.broken} \subseteq BOOLEAN
        BY <1>0 DEF UiSet
    <2>3. ui.deleting \in Users \cup {0}
        <3>1. ui.deleting \in 0..MaxUsers
            BY <1>0 DEF UiSet
        <3> QED BY <1>0, <3>1 DEF Users
    <2> QED BY <2>1, <2>2, <2>3
<1>6. StaffTypeOK
    BY <1>2, <1>3, <1>4, <1>5 DEF StaffTypeOK, StaffInv, StaffShape
<1>7. TableAgrees
    BY <1>4 DEF TableAgrees, StaffInv, TableHolds, Shows
<1> QED BY <1>6, <1>7

-----------------------------------------------------------------------------
(* Theorems on the settings page and the staff page.                       *)

\* The invariant of the settings page holds on every page of the portal.
LEMMA SettingsInvariant == Spec => []SettingsInv
<1>1. Init => SettingsInv
    BY InitSettings DEF Init
<1>2. SettingsInv /\ [Next]_vars => SettingsInv'
    <2> SUFFICES ASSUME SettingsInv, [Next]_vars PROVE SettingsInv'
        OBVIOUS
    <2>1. CASE SettingsNext
        BY <2>1, SettingsKept
    <2>2. CASE UNCHANGED settingsVars
        <3>1. SettingsShape' /\ OfCard' /\ NumberedRequests' /\ OneHolds' /\ NewRows'
            BY <2>2 DEF settingsVars, SettingsInv, SettingsShape, OfCard, NumberedRequests,
                        Awaiting, OneHolds, Holds, NewRows
        <3>2. FreshLoads' /\ InForce' /\ SavesShown' /\ Agrees'
            BY <2>2 DEF settingsVars, SettingsInv, FreshLoads, InForce, SavesShown, Agrees,
                        Owes, Kept
        <3> QED BY <3>1, <3>2 DEF SettingsInv
    <2>3. SettingsNext \/ UNCHANGED settingsVars
        BY DEF Next, vars
    <2> QED BY <2>1, <2>2, <2>3
<1> QED BY <1>1, <1>2, PTL DEF Spec

\* So does that of the staff page.
LEMMA StaffInvariant == Spec => []StaffInv
<1>1. Init => StaffInv
    BY InitStaff DEF Init
<1>2. StaffInv /\ [Next]_vars => StaffInv'
    <2> SUFFICES ASSUME StaffInv, [Next]_vars PROVE StaffInv'
        OBVIOUS
    <2>1. CASE StaffNext
        BY <2>1, StaffKept
    <2>2. CASE UNCHANGED staffVars
        <3>1. UNCHANGED <<users, called, unsure>> /\ calls' = calls /\ ui' = ui
            BY <2>2 DEF staffVars
        <3>2. Alike(ui, ui')
            BY <3>1 DEF Alike, StaffInv, StaffShape
        <3> QED BY <3>1, <3>2, StillKeeps
    <2>3. StaffNext \/ UNCHANGED staffVars
        BY DEF Next, vars
    <2> QED BY <2>1, <2>2, <2>3
<1> QED BY <1>1, <1>2, PTL DEF Spec

\* A card of the settings page at rest shows no row that the server no longer holds
\* and, unless the load it shows read only a part, all that it holds, in whatever
\* order replies came: for any number of requests, rows, switches and rows per page.
THEOREM CardAtRestAgrees == Spec => []AtRestAgrees
<1>1. SettingsInv => AtRestAgrees
    BY SettingsInvUse
<1> QED BY <1>1, SettingsInvariant, PTL

\* The staff table at rest, if the page has not broken, shows the page of users that
\* its search, filters and page number ask for: for any number of users, calls and
\* users per page.
THEOREM TableAtRestAgrees == Spec => []TableAgrees
<1>1. StaffInv => TableAgrees
    BY StaffInvUse
<1> QED BY <1>1, StaffInvariant, PTL

\* The state of the three pages keeps its types, for all bounds: requests in flight
\* and the loads that follow changes never outrun their ids.
THEOREM TypeCorrect == Spec => []TypeOK
<1>1. SettingsInv /\ PairingInv /\ StaffInv => TypeOK
    BY SettingsInvUse, StaffInvUse DEF TypeOK, PairingInv
<1> QED BY <1>1, SettingsInvariant, PairingInvariant, StaffInvariant, PTL

=============================================================================
