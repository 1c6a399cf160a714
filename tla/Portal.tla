------------------------------- MODULE Portal -------------------------------
(***************************************************************************)
(* The pages of the console that keep server data in their own state: the  *)
(* settings page, the pairing modal of the devices page and the staff      *)
(* users page.  They share no state and only one is mounted, so a          *)
(* behaviour follows one of them.                                          *)
(***************************************************************************)
EXTENDS Settings, Pairing, Staff

VARIABLE page

vars == <<page, settingsVars, pairingVars, staffVars>>

Init ==
    /\ page \in {"settings", "devices", "users"}
    /\ SettingsInit /\ PairingInit /\ StaffInit
    \* of the pages that are not mounted, one first state
    /\ page # "settings" => card = "password"
    /\ page # "users" => users = [u \in Users |-> "admin"]

Next ==
    \/ page = "settings" /\ SettingsNext /\ UNCHANGED <<page, pairingVars, staffVars>>
    \/ page = "devices" /\ PairingNext /\ UNCHANGED <<page, settingsVars, staffVars>>
    \/ page = "users" /\ StaffNext /\ UNCHANGED <<page, settingsVars, pairingVars>>

\* Requests of the mounted page are answered and its interval keeps firing; one
\* page is mounted, so these never compete.
Goes ==
    \/ page = "settings" /\ (\E r \in reqs : Answer(r)) /\ UNCHANGED <<page, pairingVars, staffVars>>
    \/ page = "users" /\ (\E c \in calls : Reply(c)) /\ UNCHANGED <<page, settingsVars, pairingVars>>
    \/ page = "devices" /\ Tick /\ UNCHANGED <<page, settingsVars, staffVars>>

Spec == Init /\ [][Next]_vars /\ WF_vars(Goes)

\* Types of the three pages.
TypeOK == SettingsTypeOK /\ PairingTypeOK /\ StaffTypeOK

\* Whatever fails and in whatever order replies come, no button of the mounted page
\* stays disabled and no list stays a skeleton: the flags that the handlers raise
\* fall again.  And a code is taken off the screen once its countdown ends, but for
\* one that arrives when it has already expired: its countdown does not start.
Unsettled ==
    (page = "settings" /\ Waits) \/ (page = "users" /\ Spins) \/ (page = "devices" /\ Waiting)
PageSettles == Unsettled ~> ~Unsettled

=============================================================================
