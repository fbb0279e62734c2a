----------------------------- MODULE StatusView -----------------------------
(***************************************************************************)
(* What the user is promised about the status of the VPN: the connection   *)
(* changes as it likes, the app's status is only ever taken from it, the   *)
(* header's only from the app's, and both catch up.  A restart of the app  *)
(* begins with "off", whatever the connection is.                          *)
(***************************************************************************)
Off == "off"
Status == {Off, "connecting", "on", "disconnecting"}

VARIABLES
    actual, \* the status of the connection
    status, \* the status the app has
    shown   \* the status the header draws

vars == <<actual, status, shown>>

Init == actual \in Status /\ status = Off /\ shown = Off

Change ==
    /\ actual' \in Status
    /\ UNCHANGED <<status, shown>>

Update ==
    /\ status' = actual
    /\ UNCHANGED <<actual, shown>>

Show ==
    /\ shown' = status
    /\ UNCHANGED <<actual, status>>

Restart ==
    /\ status' = Off /\ shown' = Off
    /\ UNCHANGED actual

Next == Change \/ Update \/ Show \/ Restart

Spec == Init /\ [][Next]_vars /\ WF_vars(Update) /\ WF_vars(Show)
============================================================================
