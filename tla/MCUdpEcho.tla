----------------------------- MODULE MCUdpEcho -----------------------------
(***************************************************************************)
(* The instance of UdpEcho that TLC checks.                                *)
(***************************************************************************)
EXTENDS UdpEcho

CONSTANTS C1, C2, C3

MCClient == {C1, C2, C3}
============================================================================
