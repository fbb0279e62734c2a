---------------------------- MODULE MCTcpReceive ----------------------------
(* TcpReceive for TLC; Reassembly.cfg gives the constants values. *)
EXTENDS TcpReceive
=============================================================================
