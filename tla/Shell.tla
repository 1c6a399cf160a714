------------------------------- MODULE Shell -------------------------------
(***************************************************************************)
(* The frame around the pages of the console: the toasts and their history *)
(* (components/ui/Toast.tsx), the header with the bell, the history panel  *)
(* and the user menu (layouts/Header.tsx), the sidebar with its count of   *)
(* flags (layouts/Sidebar.tsx).                                            *)
(*                                                                         *)
(* The header reads the history from a module variable when it happens to  *)
(* render; a change of the history alone does not make it render.  A       *)
(* click is a mousedown, whose effects are committed, and then the click.  *)
(***************************************************************************)
EXTENDS Integers, Sequences, FiniteSets

CONSTANTS
    Variants,      \* "warning" among them
    Messages, FlagMessage,
    MaxVisible,    \* MAX_VISIBLE
    MaxHistory,    \* MAX_HISTORY
    MaxAdds,       \* bound: toasts added
    MaxFlags       \* bound: the count of the sidebar

ASSUME ShellAssumption ==
    /\ "warning" \in Variants /\ FlagMessage \in Messages
    /\ MaxVisible \in Nat /\ MaxHistory \in Nat \ {0}
    /\ MaxAdds \in Nat /\ MaxFlags \in Nat

VARIABLES
    toasts,      \* at most one per variant; a higher id is newer
    timers,      \* running: [timer, toast]
    history,     \* oldest entry first
    showAll,
    armed,       \* the mousedown listener is registered, 100 ms after a change
    shown,       \* the history as the header rendered it last
    panel, menu, \* what the header has open
    prevLength,
    sidebar, mobile,
    count,       \* flags, as the sidebar was told last
    made, gone,  \* history variables: notices added; dropped or cleared
    seen         \* history variable: entries that an open panel listed

notices == <<toasts, timers, history, showAll, armed, made, gone>>
header == <<shown, panel, menu, prevLength, seen>>
frame == <<sidebar, mobile, count>>
shellVars == <<notices, header, frame>>

ShellInit ==
    /\ toasts = {} /\ timers = {} /\ history = <<>> /\ showAll = FALSE /\ armed = FALSE
    /\ shown = <<>> /\ panel = FALSE /\ menu = FALSE /\ prevLength = 0
    /\ sidebar = TRUE /\ mobile \in BOOLEAN /\ count = 0
    /\ made = 0 /\ gone = 0 /\ seen = {}

-----------------------------------------------------------------------------
(* Toasts.                                                                 *)

Timer(t) == [timer |-> t.timer, toast |-> t.id]

\* Mistake: the timer of the toast that is merged into is not cleared.
MergedTimersKept(t) == timers \cup {[timer |-> made + 1, toast |-> t.id]}
\* Mistake: it is cleared and none is started.
MergedTimersNone(t) == timers \ {Timer(t)}
MergedTimers(t) == (timers \ {Timer(t)}) \cup {[timer |-> made + 1, toast |-> t.id]}

\* A toast of the same variant takes the new message and a new timer.
AddToast(m, v) ==
    /\ made < MaxAdds
    /\ made' = made + 1
    /\ \/ \E t \in toasts :
             /\ t.variant = v
             /\ toasts' = (toasts \ {t}) \cup
                   {[t EXCEPT !.message = m, !.count = @ + 1, !.timer = made + 1]}
             /\ timers' = MergedTimers(t)
       \/ /\ \A t \in toasts : t.variant # v
          /\ toasts' = toasts \cup {[id |-> made + 1, variant |-> v, message |-> m,
                                     count |-> 1, timer |-> made + 1]}
          /\ timers' = timers \cup {[timer |-> made + 1, toast |-> made + 1]}
    /\ armed' = FALSE
    /\ UNCHANGED <<history, showAll, gone>>

Same(e, t) == e.variant = t.variant /\ e.message = t.message

\* Mistake: merging forgets the earlier count.
MergedReset(h, t) == [i \in DOMAIN h |-> IF Same(h[i], t) THEN [h[i] EXCEPT !.count = t.count]
                                         ELSE h[i]]
Merged(h, t) == [i \in DOMAIN h |-> IF Same(h[i], t) THEN [h[i] EXCEPT !.count = @ + t.count]
                                    ELSE h[i]]

\* Mistake: the oldest entry stays.
PushUncapped(r, t) ==
    IF \E i \in DOMAIN r.list : Same(r.list[i], t)
    THEN [r EXCEPT !.list = Merged(r.list, t)]
    ELSE [r EXCEPT !.list = Append(r.list, [id |-> t.id, variant |-> t.variant,
                                            message |-> t.message, count |-> t.count])]
\* pushToHistory on [list, gone]: merge, or append and drop the oldest
Push(r, t) ==
    LET new == Append(r.list, [id |-> t.id, variant |-> t.variant,
                               message |-> t.message, count |-> t.count])
    IN  IF \E i \in DOMAIN r.list : Same(r.list[i], t)
        THEN [r EXCEPT !.list = Merged(r.list, t)]
        ELSE IF Len(new) > MaxHistory
             THEN [list |-> Tail(new), gone |-> r.gone + Head(new).count]
             ELSE [r EXCEPT !.list = new]

\* The toast numbered i is pushed if it is one of ts; numbers are ages.
PushId(r, ts, i) ==
    IF \E t \in ts : t.id = i THEN Push(r, CHOOSE t \in ts : t.id = i) ELSE r
Pushes(ts) ==
    LET f[i \in 0..made] == IF i = 0 THEN [list |-> history, gone |-> gone]
                                      ELSE PushId(f[i - 1], ts, i)
    IN  f
PushAll(ts) == Pushes(ts)[made]

\* One element for every notice that the toasts or entries in the range of f count.
Behind(f) == UNION {{x} \X (1..f[x].count) : x \in DOMAIN f}
Total(f) == Cardinality(Behind(f))

\* The toasts ts leave the screen and the timers xs end.
Leave(ts, xs) ==
    /\ toasts' = toasts \ ts
    /\ timers' = timers \ xs
    /\ armed' = (armed /\ ts = {})
    /\ showAll' = (showAll /\ Cardinality(toasts') > MaxVisible)
    /\ made' = made

\* removeToast, clearAll: the toasts ts go to the history, the oldest first
removeToast(ts) ==
    /\ Leave(ts, {Timer(t) : t \in ts})
    /\ history' = PushAll(ts).list
    /\ gone' = PushAll(ts).gone

Newest == {t \in toasts : \A u \in toasts : u.id <= t.id}
Visible == IF showAll THEN toasts
           ELSE {t \in toasts : Cardinality({u \in toasts : u.id > t.id}) < MaxVisible}

-----------------------------------------------------------------------------
(* Renders and clicks.                                                     *)

Listed(h) == {h[i].id : i \in DOMAIN h}

\* The header renders the history h; its effect notes the length while open.
\* p is the length noted before.
RenderHeader(h, open, p) ==
    /\ shown' = h /\ panel' = open
    /\ prevLength' = IF open THEN Len(h) ELSE p
    /\ seen' = IF open THEN seen \cup Listed(h) ELSE seen

\* A mousedown outside the toasts dismisses the newest.
Outside == IF armed THEN Newest ELSE {}
OutsideDismisses == removeToast(Outside)

\* A mousedown outside what is open closes it: the header renders, before the
\* effect that publishes a history changed by the same mousedown.
ClosesAll ==
    /\ menu' = FALSE
    /\ IF panel \/ menu THEN RenderHeader(history, FALSE, prevLength)
       ELSE UNCHANGED <<shown, panel, prevLength, seen>>
AfterMenuCloses == IF menu THEN history ELSE shown

\* any page, or the event stream
Notify(m, v) == AddToast(m, v) /\ UNCHANGED <<header, frame>>

Arm ==
    /\ toasts # {} /\ ~armed
    /\ armed' = TRUE
    /\ UNCHANGED <<toasts, timers, history, showAll, made, gone, header, frame>>

\* scheduleRemove, after TOAST_DURATION
Expire(x) ==
    /\ x \in timers
    /\ LET ts == {t \in toasts : t.id = x.toast}
       IN  /\ Leave(ts, {x})
           /\ history' = PushAll(ts).list
           /\ gone' = PushAll(ts).gone
    /\ UNCHANGED <<header, frame>>

\* a click on a toast, on its cross, or a drag
Dismiss(t) ==
    /\ t \in Visible
    /\ removeToast({t}) /\ ClosesAll
    /\ UNCHANGED frame

ShowMore ==
    /\ Cardinality(toasts) > MaxVisible /\ ~showAll
    /\ showAll' = TRUE
    /\ ClosesAll
    /\ UNCHANGED <<toasts, timers, history, armed, made, gone, frame>>

DismissAll ==
    /\ Cardinality(toasts) > MaxVisible /\ ~showAll
    /\ removeToast(toasts) /\ ClosesAll
    /\ UNCHANGED frame

\* Mistake: closing the panel forgets what it listed.
BellNotedNone == 0
BellNoted == Len(AfterMenuCloses)

ClickBell ==
    /\ OutsideDismisses
    /\ RenderHeader(history', ~panel, BellNoted)
    /\ menu' = FALSE
    /\ UNCHANGED frame

ClickMenu ==
    /\ OutsideDismisses
    /\ RenderHeader(history', FALSE, prevLength)
    /\ menu' = ~menu
    /\ UNCHANGED frame

\* "Clear all" does not make the header render.
ClickClear ==
    /\ panel /\ shown # <<>>
    /\ Leave(Outside, {Timer(t) : t \in Outside})
    /\ history' = <<>>
    /\ gone' = PushAll(Outside).gone + Total(PushAll(Outside).list)
    /\ UNCHANGED <<header, frame>>

ClickElsewhere ==
    /\ OutsideDismisses /\ ClosesAll
    /\ UNCHANGED frame

\* The header uses the whole store: a change of sidebarOpen makes it render.
ToggleSidebar ==
    /\ OutsideDismisses
    /\ menu' = FALSE /\ RenderHeader(history', FALSE, prevLength)
    /\ sidebar' = ~sidebar
    /\ UNCHANGED <<mobile, count>>

\* a link of the sidebar; so does a navigation
handleNavClick ==
    /\ mobile => sidebar
    /\ OutsideDismisses
    /\ menu' = FALSE /\ RenderHeader(history', FALSE, prevLength)
    /\ sidebar' = (sidebar /\ ~mobile)
    /\ UNCHANGED <<mobile, count>>

\* the profile changes, or code navigates
Refresh ==
    /\ RenderHeader(history, panel, prevLength)
    /\ UNCHANGED <<notices, menu, frame>>

\* The count of flags arrives; a rise from a count above 0 is announced.
Counted(n) ==
    /\ n # count
    /\ count' = n
    /\ IF count > 0 /\ n > count THEN AddToast(FlagMessage, "warning") ELSE UNCHANGED notices
    /\ UNCHANGED <<header, sidebar, mobile>>

ShellNext ==
    \/ \E m \in Messages, v \in Variants : Notify(m, v)
    \/ Arm \/ ShowMore \/ DismissAll
    \/ \E x \in timers : Expire(x)
    \/ \E t \in toasts : Dismiss(t)
    \/ ClickBell \/ ClickMenu \/ ClickClear \/ ClickElsewhere
    \/ ToggleSidebar \/ handleNavClick \/ Refresh
    \/ \E n \in 0..MaxFlags : Counted(n)

ShellSpec == ShellInit /\ [][ShellNext]_shellVars
\* a timer that runs fires
FairShellSpec == ShellSpec /\ \A i, j \in 1..MaxAdds : WF_shellVars(Expire([timer |-> i, toast |-> j]))

-----------------------------------------------------------------------------
(* Properties.                                                             *)

Ids == 1..MaxAdds
Entries == [id : Ids, variant : Variants, message : Messages, count : Nat]

\* Types.
ShellTypeOK ==
    /\ toasts \subseteq [id : Ids, variant : Variants, message : Messages,
                         count : Nat, timer : Ids]
    /\ timers \subseteq [timer : Ids, toast : Ids]
    /\ history \in Seq(Entries) /\ Len(history) <= MaxHistory
    /\ shown \in Seq(Entries) /\ Len(shown) <= MaxHistory
    /\ showAll \in BOOLEAN /\ armed \in BOOLEAN /\ panel \in BOOLEAN /\ menu \in BOOLEAN
    /\ prevLength \in Nat /\ sidebar \in BOOLEAN /\ mobile \in BOOLEAN
    /\ count \in 0..MaxFlags /\ made \in 0..MaxAdds /\ gone \in Nat /\ seen \subseteq Ids

\* Every toast has one running timer, the last that was started for it, and no
\* timer outlives its toast: merging, dismissing and expiring in any order
\* neither leave a toast for good nor let an old timer cut a renewed one short.
OneTimerPerToast == timers = {Timer(t) : t \in toasts}

\* Every notice is counted once: in a toast, in the history, or among those
\* the history dropped at its limit or the user cleared.
NoticesConserved == Total([t \in toasts |-> t]) + Total(history) + gone = made

\* The bell is lit only if the list behind it has an entry that no open panel
\* listed, in spite of merges, drops at the limit, Clear all and late renders.
BellMeansNew == Len(shown) > prevLength => ~(Listed(shown) \subseteq seen)

\* Once no more notices come, every toast leaves the screen.
ToastsGo == toasts # {} ~> toasts = {}

=============================================================================
