----------------------------- MODULE MCTcpSend -----------------------------
(* TcpSend for the model checker; Sending.cfg gives the constants values. *)
EXTENDS TcpSend
=============================================================================
