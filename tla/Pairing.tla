------------------------------ MODULE Pairing ------------------------------
(***************************************************************************)
(* Pairing a phone: the modal that shows a QR code (AddDeviceQRModal.tsx), *)
(* the handler that makes its token and the handler of the phone's login   *)
(* (qr_pairing_handler.go).  Each database statement of a handler is a     *)
(* step.  Time is counted in ticks; the countdown of the modal may miss    *)
(* some (a browser slows timers down), the server's clock does not.        *)
(***************************************************************************)
EXTENDS Integers, FiniteSets

CONSTANTS
    Phones,
    Life,        \* life of a token in ticks, five minutes in the code
    MaxFetches   \* bound: codes asked for

ASSUME PairingAssumption == Life \in Nat \ {0} /\ MaxFetches \in Nat

Tokens == 1..MaxFetches    \* the token of request i is i

VARIABLES
    modal,       \* the state of the component; code 0: no qrData
    fetches,     \* requests for a code: [id, stage]
    fetched,
    tokens,      \* rows of qr_pairing_tokens
    scans,       \* logins in progress: [phone, token, stage]
    paired,      \* history: <<token, phone>> of logins that succeeded
    spent,       \* history: tokens a login marked
    overlapped,  \* history: requests for a code that ran beside another
    late,        \* history: codes that came after they expired
    raced        \* history: tokens two logins had checked before either marked
                 \* them, or that could not be marked

component == <<modal, late>>
logins == <<scans, paired, spent, raced>>
pairingVars == <<component, fetches, fetched, overlapped, tokens, logins>>

PairingInit ==
    /\ modal = [open |-> FALSE, loading |-> FALSE, error |-> FALSE, code |-> 0,
                status |-> "idle", left |-> 0]
    /\ fetches = {} /\ fetched = 0
    /\ tokens = [t \in Tokens |-> [made |-> FALSE, used |-> FALSE, left |-> 0]]
    /\ scans = {}
    /\ paired = {} /\ spent = {} /\ overlapped = {} /\ late = {} /\ raced = {}

-----------------------------------------------------------------------------
(* The modal.                                                              *)

fetchQRCode(m) ==
    /\ fetched < MaxFetches
    /\ fetched' = fetched + 1
    /\ fetches' = fetches \cup {[id |-> fetched', stage |-> "sent"]}
    /\ modal' = [m EXCEPT !.loading = TRUE, !.error = FALSE]
    /\ overlapped' = IF fetches = {} THEN overlapped
                     ELSE overlapped \cup {f.id : f \in fetches'}
    /\ UNCHANGED <<late, tokens, logins>>

\* The effect of "open" fetches whether or not a request is still on.
Open == ~modal.open /\ fetchQRCode([modal EXCEPT !.open = TRUE])

Close ==
    /\ modal.open
    /\ modal' = [modal EXCEPT !.open = FALSE, !.code = 0, !.status = "idle", !.left = 0]
    /\ UNCHANGED <<late, fetches, fetched, overlapped, tokens, logins>>

\* Try Again, Generate New Code, Refresh Code
Again ==
    /\ modal.open /\ ~modal.loading
    /\ modal.error \/ modal.status \in {"waiting", "expired"}
    /\ fetchQRCode(modal)

\* A reply is taken whether or not the modal is open or has asked again.
Receive(f) ==
    /\ f.stage = "inserted"
    /\ modal' = [modal EXCEPT !.loading = FALSE, !.code = f.id, !.status = "waiting",
                              !.left = tokens[f.id].left]
    /\ late' = IF tokens[f.id].left = 0 THEN late \cup {f.id} ELSE late
    /\ fetches' = fetches \ {f}
    /\ UNCHANGED <<fetched, overlapped, tokens, logins>>

\* Mistake: an error leaves the code on screen.
FailedShown == [modal EXCEPT !.loading = FALSE, !.error = TRUE]
Failed == [modal EXCEPT !.loading = FALSE, !.error = TRUE, !.status = "error"]

\* The request fails at any stage; the server's statements so far stand.
FetchFails(f) ==
    /\ modal' = Failed
    /\ fetches' = fetches \ {f}
    /\ UNCHANGED <<late, fetched, overlapped, tokens, logins>>

Counting == modal.status = "waiting" /\ modal.left > 0

Counted == IF modal.left <= 1 THEN [modal EXCEPT !.left = 0, !.status = "expired"]
           ELSE [modal EXCEPT !.left = @ - 1]

\* Mistake: the clock of a token runs on below zero.
OlderBelow == [t \in Tokens |-> [tokens[t] EXCEPT !.left = @ - 1]]
Older == [t \in Tokens |-> [tokens[t] EXCEPT !.left = IF @ = 0 THEN 0 ELSE @ - 1]]

\* A tick passes, and the interval of the countdown fires or not.
Tick ==
    /\ Counting
    /\ modal' = Counted
    /\ tokens' = Older
    /\ UNCHANGED <<late, fetches, fetched, overlapped, logins>>

TickUnseen ==
    /\ \E t \in Tokens : tokens[t].left > 0
    /\ tokens' = Older
    /\ UNCHANGED <<component, fetches, fetched, overlapped, logins>>

-----------------------------------------------------------------------------
(* GenerateQRCode.                                                         *)

\* The life of the new token begins; unused tokens of the account are marked,
\* and an error of that statement is ignored.
Invalidate(f) ==
    /\ f.stage = "sent"
    /\ \E ok \in BOOLEAN :
         tokens' = [t \in Tokens |->
                      IF t = f.id THEN [tokens[t] EXCEPT !.left = Life]
                      ELSE [tokens[t] EXCEPT !.used = @ \/ (ok /\ tokens[t].made)]]
    /\ fetches' = (fetches \ {f}) \cup {[f EXCEPT !.stage = "cleared"]}
    /\ UNCHANGED <<component, fetched, overlapped, logins>>

Insert(f) ==
    /\ f.stage = "cleared"
    /\ tokens' = [tokens EXCEPT ![f.id].made = TRUE]
    /\ fetches' = (fetches \ {f}) \cup {[f EXCEPT !.stage = "inserted"]}
    /\ UNCHANGED <<component, fetched, overlapped, logins>>

-----------------------------------------------------------------------------
(* QRLogin.                                                                *)

\* A phone scans the code on screen.
Scan(p) ==
    /\ modal.open /\ modal.status = "waiting"
    /\ ~\E s \in scans : s.phone = p
    /\ scans' = scans \cup {[phone |-> p, token |-> modal.code, stage |-> "sent"]}
    /\ UNCHANGED <<component, fetches, fetched, overlapped, tokens, paired, spent, raced>>

\* Mistake: a used token is accepted.
ValidUsed(t) == tokens[t].left > 0
Valid(t) == ~tokens[t].used /\ tokens[t].left > 0

Check(s) ==
    /\ s.stage = "sent"
    /\ Valid(s.token)
    /\ scans' = (scans \ {s}) \cup {[s EXCEPT !.stage = "checked"]}
    /\ raced' = IF \E q \in scans : q.token = s.token /\ q.stage = "checked"
                THEN raced \cup {s.token} ELSE raced
    /\ UNCHANGED <<component, fetches, fetched, overlapped, tokens, paired, spent>>

\* The token is marked; an error of that statement is ignored.
Mark(s) ==
    /\ s.stage = "checked"
    /\ \/ /\ tokens' = [tokens EXCEPT ![s.token].used = TRUE]
          /\ spent' = spent \cup {s.token}
          /\ UNCHANGED raced
       \/ /\ raced' = raced \cup {s.token}
          /\ UNCHANGED <<tokens, spent>>
    /\ scans' = (scans \ {s}) \cup {[s EXCEPT !.stage = "marked"]}
    /\ UNCHANGED <<component, fetches, fetched, overlapped, paired>>

\* The device row is made or updated and its credentials are made.
Register(s) ==
    /\ s.stage = "marked"
    /\ paired' = paired \cup {<<s.token, s.phone>>}
    /\ scans' = scans \ {s}
    /\ UNCHANGED <<component, fetches, fetched, overlapped, tokens, spent, raced>>

\* The token is not valid, the account is not active, the phone is another
\* account's, or a statement fails; a token that was marked stays so.
LoginFails(s) ==
    /\ s.stage = "sent" \/ s.stage = "marked"
    /\ scans' = scans \ {s}
    /\ UNCHANGED <<component, fetches, fetched, overlapped, tokens, paired, spent, raced>>

PairingNext ==
    \/ Open \/ Close \/ Again \/ Tick \/ TickUnseen
    \/ \E f \in fetches : Invalidate(f) \/ Insert(f) \/ Receive(f) \/ FetchFails(f)
    \/ \E p \in Phones : Scan(p)
    \/ \E s \in scans : Check(s) \/ Mark(s) \/ Register(s) \/ LoginFails(s)

\* the interval keeps firing
PairingFairness == WF_pairingVars(Tick)
PairingSpec == PairingInit /\ [][PairingNext]_pairingVars /\ PairingFairness

-----------------------------------------------------------------------------
(* Properties.                                                             *)

Statuses == {"idle", "waiting", "expired", "error"}

\* Types.
PairingTypeOK ==
    /\ modal \in [open : BOOLEAN, loading : BOOLEAN, error : BOOLEAN, code : 0..MaxFetches,
                  status : Statuses, left : 0..Life]
    /\ fetches \subseteq [id : Tokens, stage : {"sent", "cleared", "inserted"}]
    /\ fetched \in 0..MaxFetches
    /\ tokens \in [Tokens -> [made : BOOLEAN, used : BOOLEAN, left : 0..Life]]
    /\ scans \subseteq [phone : Phones, token : Tokens, stage : {"sent", "checked", "marked"}]
    /\ paired \subseteq Tokens \X Phones
    /\ spent \cup overlapped \cup late \cup raced \subseteq Tokens

\* The code on screen can be used, when no other is being asked for and no phone
\* has used it: closing, reopening, refreshing and failed requests never leave
\* the code of an earlier request behind that the server has since withdrawn.
\* Excepted are codes of requests that ran beside another one, which closing and
\* reopening the modal allows: the later reply wins, whichever token survived.
ShownCodeWorks ==
    /\ modal.status = "waiting" /\ fetches = {}
    /\ modal.code \notin overlapped \cup spent
    => tokens[modal.code].made /\ ~tokens[modal.code].used

\* A token pairs one phone, unless two logins had both read it before either
\* marked it or the statement that marks it failed.
PairsOnce == \A t \in Tokens \ raced : Cardinality({p \in Phones : <<t, p>> \in paired}) <= 1

\* A code is on screen whose countdown has started.
Waiting == modal.status = "waiting" /\ modal.code \notin late

=============================================================================
