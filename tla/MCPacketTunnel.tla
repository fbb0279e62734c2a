--------------------------- MODULE MCPacketTunnel ---------------------------
(***************************************************************************)
(* The instances of PacketTunnel that TLC checks.                          *)
(***************************************************************************)
EXTENDS PacketTunnel

CONSTANTS N1, N2, N3, C1, C2

MCThreeNetworks == {N1, N2, N3}
MCTwoConfs == {C1, C2}
============================================================================
