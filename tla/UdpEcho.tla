------------------------------ MODULE UdpEcho ------------------------------
(***************************************************************************)
(* The UDP test pair: udp_server_start answers every datagram, and each    *)
(* udp_client_start sends a numbered message, waits for whatever arrives   *)
(* at its socket, sleeps and sends the next.  Neither has a timeout.  The  *)
(* answer says only how many bytes came, always 1024; the model keeps with *)
(* it, as a ghost, the number of the message it answers.  Numbers are kept *)
(* modulo Numbers: nothing compares them.                                  *)
(*                                                                         *)
(* External: the kernel keeps datagrams in any order, may lose them, and   *)
(* throws away those for a port nobody has bound.                          *)
(*                                                                         *)
(* The names every specification has carry an Echo, for ExtensionProofs    *)
(* extends this module beside two others.                                  *)
(***************************************************************************)
EXTENDS Naturals, FiniteSets

CONSTANTS
    Client,
    Numbers,    \* how many numbers are told apart
    NoDatagram,
    EchoFaults  \* "loss" of datagrams; "server": it may not run, and may fail

ASSUME EchoConstants ==
    /\ Numbers \in Nat \ {0}
    /\ NoDatagram \notin [kind : {"question", "answer"}, client : Client, n : 0..(Numbers - 1)]
    /\ EchoFaults \subseteq {"loss", "server"}

VARIABLES
    count,    \* of udp_msg_sender: the number of the next or current message
    waiting,  \* whether the client is in recvfrom
    server,   \* "down" or "ready": in recvfrom of handle_udp_datagram
    serving,  \* the datagram it has received and not answered yet, or NoDatagram
    net,      \* datagrams sent and not received
    lost      \* history: the clients one of whose datagrams was lost

echo == <<count, waiting, server, serving, net, lost>>

Datagram == [kind : {"question", "answer"}, client : Client, n : 0..(Numbers - 1)]

EchoTypeOK ==
    /\ count \in [Client -> 0..(Numbers - 1)]
    /\ waiting \in [Client -> BOOLEAN]
    /\ server \in {"down", "ready"}
    /\ serving \in Datagram \cup {NoDatagram}
    /\ net \subseteq Datagram
    /\ lost \subseteq Client
----------------------------------------------------------------------------
\* The loop of udp_msg_sender up to recvfrom; the result of sendto is not
\* looked at.
Ask(c) ==
    /\ ~ waiting[c]
    /\ waiting' = [waiting EXCEPT ![c] = TRUE]
    /\ net' = net \cup {[kind |-> "question", client |-> c, n |-> count[c]]}
    /\ UNCHANGED <<count, server, serving, lost>>

\* recvfrom returns with any datagram for the client's port.
TakeAnswer(c) ==
    /\ waiting[c]
    /\ \E d \in net :
         /\ d.kind = "answer" /\ d.client = c
         /\ net' = net \ {d}
    /\ waiting' = [waiting EXCEPT ![c] = FALSE]
    /\ count' = [count EXCEPT ![c] = (@ + 1) % Numbers]
    /\ UNCHANGED <<server, serving, lost>>

\* upd_server: a socket, bound, or an error and handle_udp_datagram(-1),
\* which returns at once.
ServerStart ==
    /\ server = "down"
    /\ server' = "ready"
    /\ UNCHANGED <<count, waiting, serving, net, lost>>

\* recvfrom in the server; an error there ends the loop and the socket.
Receive ==
    /\ server = "ready" /\ serving = NoDatagram
    /\ \E d \in net :
         /\ d.kind = "question"
         /\ serving' = d
         /\ net' = net \ {d}
    /\ UNCHANGED <<count, waiting, server, lost>>

ReceiveFails ==
    /\ "server" \in EchoFaults
    /\ server = "ready" /\ serving = NoDatagram
    /\ server' = "down"
    /\ UNCHANGED <<count, waiting, serving, net, lost>>

\* A slip: the address is that of one client, as it would be without recvfrom's.
ReplyToOne ==
    /\ serving # NoDatagram
    /\ net' = net \cup {[serving EXCEPT !.kind = "answer", !.client = CHOOSE c \in Client : TRUE]}
    /\ serving' = NoDatagram
    /\ UNCHANGED <<count, waiting, server, lost>>

\* sendto, to the address recvfrom has filled in.
Reply ==
    /\ serving # NoDatagram
    /\ net' = net \cup {[serving EXCEPT !.kind = "answer"]}
    /\ serving' = NoDatagram
    /\ UNCHANGED <<count, waiting, server, lost>>

\* The kernel: a datagram is lost, or meets a port that is not bound.
Lose ==
    /\ \E d \in net :
         /\ "loss" \in EchoFaults \/ (d.kind = "question" /\ server = "down")
         /\ net' = net \ {d}
         /\ lost' = lost \cup {d.client}
    /\ UNCHANGED <<count, waiting, server, serving>>
----------------------------------------------------------------------------
EchoInit ==
    /\ count = [c \in Client |-> 0]
    /\ waiting = [c \in Client |-> FALSE]
    /\ server = "ready" \/ ("server" \in EchoFaults /\ server = "down")
    /\ serving = NoDatagram
    /\ net = {} /\ lost = {}

EchoNext ==
    \/ \E c \in Client : Ask(c) \/ TakeAnswer(c)
    \/ ServerStart \/ Receive \/ ReceiveFails \/ Reply \/ Lose

EchoSpec == EchoInit /\ [][EchoNext]_echo

\* The kernel runs both sides, and recvfrom returns when there is something.
\* The server takes its datagrams in the order they came: none waits for ever.
EchoFairness ==
    /\ \A c \in Client : WF_echo(Ask(c)) /\ WF_echo(TakeAnswer(c))
    /\ WF_echo(Receive) /\ WF_echo(Reply)
    /\ \A c \in Client : SF_echo(Receive /\ serving'.client = c)

EchoFairSpec == EchoSpec /\ EchoFairness
----------------------------------------------------------------------------
\* Client and server stay in step, whatever is lost and whenever the server
\* fails: what is under way for a client is one datagram, with the number the
\* client is at, and only while the client waits.  The client does not check
\* what it receives (udp_client.c:43), so this is all that makes the answer
\* it prints the answer to its question.
UnderWay == net \cup ({serving} \ {NoDatagram})

InStep ==
    /\ \A d \in UnderWay : waiting[d.client] /\ d.n = count[d.client]
    /\ \A d, e \in UnderWay : d.client = e.client => d = e
    /\ serving \notin net

\* However many clients share the server, each is answered, unless one of its
\* own datagrams was lost or the server is down: no answer goes astray.
EveryoneAnswered ==
    \A c \in Client : waiting[c] ~> ~ waiting[c] \/ c \in lost \/ server = "down"
============================================================================
