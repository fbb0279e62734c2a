---------------------------- MODULE MCVPNManager ----------------------------
(***************************************************************************)
(* Instances of VPNManager.  Installed: the user's one manager was saved   *)
(* by an earlier launch.  Empty: nothing is saved yet, and there are       *)
(* managers enough for two to be made at a time.                           *)
(***************************************************************************)
EXTENDS VPNManager

CONSTANTS C1, D1, D2, M1, M2

OneConfig == {C1}
OneData == {D1}
TwoData == {D1, D2}
OneManager == {M1}
TwoManagers == {M1, M2}
InstalledOne == <<M1>>
InstalledNone == <<>>
============================================================================
