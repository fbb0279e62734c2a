--------------------------- MODULE MCConnections ---------------------------
(***************************************************************************)
(* Connections for TLC.  It begins where a restart of the slow timer's     *)
(* walk, a shortage of memory and the end of a closed connection are all   *)
(* near: memory is full with two open connections and one whose socket was *)
(* closed, and another client waits.                                       *)
(***************************************************************************)
EXTENDS Connections, TLC

Symmetry == Permutations(Pcb) \cup Permutations(Conn)

\* The order of the list and the ends are the same up to the names.
List == CHOOSE list \in [1..Cardinality(Pcb) -> Pcb] : IsInjective(list)
Ends == CHOOSE f \in [Pcb -> Conn] : IsInjective(f)

\* Everything is written; the data of the first are on their way, and so is
\* the FIN of the last, whose socket has been told of its close.
FullInit ==
    LET n == Len(List)
        open(i) == [Freed EXCEPT !.state = "ESTABLISHED", !.conn = Ends[List[i]], !.arg = i,
                                 !.flight = IF i = 1 THEN {"data"} ELSE {}]
        closed == [Freed EXCEPT !.state = "FIN_WAIT_1", !.conn = Ends[List[n]],
                                !.rxclosed = TRUE, !.flight = {"fin"}]
        written(i) == [pcb |-> List[i], told |-> 0, written |-> MaxWrites,
                       sent |-> IF i = 1 THEN 0 ELSE MaxWrites]
    IN /\ tcp = [pcb |-> [p \in Pcb |->
                            LET i == CHOOSE i \in 1..n : List[i] = p
                            IN IF i = n THEN closed ELSE open(i)],
                 active |-> List, tw |-> {}, changed |-> FALSE]
       /\ sockets = [i \in 1..n |->
                       IF i = n THEN [pcb |-> Nil, told |-> 1, written |-> 0, sent |-> 0]
                       ELSE written(i)]
       /\ frame = NoFrame

FullSpec == FullInit /\ [][Next]_vars
=============================================================================
