------------------------------ MODULE MCTimers ------------------------------
(* Instances of Timers: one periodic handler, one one-shot handler. *)
EXTENDS Timers

MCInterval == [h \in {Tcp} \cup Periodic |-> IF h = Tcp THEN 2 ELSE 3]
=============================================================================
