----------------------------- MODULE MCLeadApp -----------------------------
(***************************************************************************)
(* The instance of LeadApp that TLC checks: two configurations, whose port *)
(* can be edited, and one manager.                                         *)
(***************************************************************************)
EXTENDS LeadApp

CONSTANTS A, B, P1, P2, Text, Aes, M1

MCId == {A, B}
MCServer == {Text}
MCPort == {P1, P2}
MCCrypto == {Aes}
MCManager == {M1}
InstalledOne == <<M1>>

\* Ids and ports are only compared; no port text is junk here, so that the
\* default port is never asked for.
IdAndPortSymmetry == Permutations(MCId) \cup Permutations(MCPort)
============================================================================
