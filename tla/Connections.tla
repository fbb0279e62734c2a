---------------------------- MODULE Connections ----------------------------
(***************************************************************************)
(* The connections of the lwIP stack in tun2socks and the TSTCPSockets on  *)
(* them: how a connection is accepted, closed, reset, timed out and freed, *)
(* and who is told.  Everything runs on one queue, but the delegate of a   *)
(* socket may call close() and reset(), of this socket or of another, from *)
(* inside a callback, while tcp_input or tcp_slowtmr holds pointers to     *)
(* connections.  These two are therefore steps between callbacks.          *)
(*                                                                         *)
(* What is sent and received is in TcpSend and TcpReceive; here a segment  *)
(* has data or not, in order, and what tcp_write and tcp_close queue is on *)
(* its way at once.  The fast timer is left out: it sends ACKs, and offers *)
(* again what was refused, which a TSTCPSocket never does.                 *)
(***************************************************************************)
EXTENDS Integers, Sequences, FiniteSets, SequencesExt

CONSTANTS
    Pcb,         \* memory for struct tcp_pcb
    Conn,        \* the pairs of addresses and ports that clients connect with
    Stray,       \* whether segments come that no state expects: SYN, bad RST
    Build,       \* of the wrapper: "debug" or "release"
    MayCall,     \* what delegates do in which callback
    MaxSockets,  \* bound: connections accepted
    MaxWrites,   \* bound: writeData of one socket
    Nil

Callbacks == {"accept", "sent", "recv", "closed", "err"}
Calls == [in : Callbacks, own : BOOLEAN, do : {"close", "reset", "write"}]

\* Delegates that call back as lwIP allows: other sockets whatever they like,
\* and of the socket of the callback only writing, and closing at the end of
\* its data.
Considerate ==
    {c \in Calls : ~ c.own \/ c.do = "write" \/ (c.in = "closed" /\ c.do = "close")}

ASSUME ConstantsAssumption ==
    /\ MayCall \subseteq Calls
    /\ Stray \in BOOLEAN /\ Build \in {"debug", "release"}
    /\ MaxSockets \in Nat /\ MaxWrites \in Nat
    /\ Nil \notin Pcb \cup Conn

VARIABLES
    tcp,      \* pcb: the connections; active, tw: their lists; changed:
              \* tcp_active_pcbs_changed
    sockets,  \* the TSTCPSockets in the order in which they were accepted
    frame     \* where the function of lwIP that is running is

vars == <<tcp, sockets, frame>>

ActiveStates == {"SYN_RCVD", "ESTABLISHED", "CLOSE_WAIT", "FIN_WAIT_1", "FIN_WAIT_2",
                 "CLOSING", "LAST_ACK"}
Stages == {"accept", "handshake", "receive", "reset", "free", "sent", "recv", "closed",
           "output", "none"}

\* conn, and whether rcv_wnd # TCP_WND for data or a FIN (unread); flight is
\* what is not acknowledged; arg is the socket in callback_arg, 0 for NULL.
Connection ==
    [state : ActiveStates \cup {"FREE", "TIME_WAIT"}, conn : Conn \cup {Nil},
     arg : Nat, rxclosed : BOOLEAN, unread : SUBSET {"data", "fin"},
     flight : SUBSET {"data", "fin"}, acked : BOOLEAN]

Freed == [state |-> "FREE", conn |-> Nil, arg |-> 0, rxclosed |-> FALSE,
          unread |-> {}, flight |-> {}, acked |-> FALSE]

Socket == [pcb : Pcb \cup {Nil}, told : Nat, written : 0..MaxWrites, sent : Nat]

Segments ==
    [kind : {"ack", "syn", "rst", "badrst"}, data : BOOLEAN, fin : BOOLEAN,
     ack : {"old", "data", "all"}]

Bare(kind) == [kind |-> kind, data |-> FALSE, fin |-> FALSE, ack |-> "old"]

NoFrame ==
    [fn |-> "none", pcb |-> Nil, conn |-> Nil, prev |-> Nil, stamped |-> {},
     stage |-> "none", seg |-> Bare("ack"), cb |-> "none", sock |-> 0]

TypeOK ==
    /\ tcp \in [pcb : [Pcb -> Connection], active : Seq(Pcb), tw : SUBSET Pcb, changed : BOOLEAN]
    /\ sockets \in Seq(Socket)
    /\ frame \in [fn : {"none", "input", "alloc", "slow"}, pcb : Pcb \cup {Nil},
                  conn : Conn \cup {Nil}, prev : Pcb \cup {Nil}, stamped : SUBSET Pcb,
                  stage : Stages, seg : Segments, cb : Callbacks \cup {"none"}, sock : Nat]
    /\ frame.sock \in 0..Len(sockets)

Running(fn) == frame.fn = fn /\ frame.cb = "none"
----------------------------------------------------------------------------
\* The lists, on a value t of tcp.
OffList(t, p) == [t EXCEPT !.active = RemoveFirst(@, p), !.changed = TRUE]

Free(t, p) == [OffList(t, p) EXCEPT !.pcb[p] = Freed, !.tw = @ \ {p}]

\* Slip: into TIME_WAIT without leaving the list of the active ones.
TimeWaitListed(t, p) ==
    [t EXCEPT !.pcb[p].state = "TIME_WAIT", !.pcb[p].flight = {}, !.tw = @ \cup {p}]

TimeWait(t, p) ==
    [OffList(t, p) EXCEPT !.pcb[p].state = "TIME_WAIT", !.pcb[p].flight = {},
                         !.tw = @ \cup {p}]

ToFront(t, p) == [t EXCEPT !.active = <<p>> \o RemoveFirst(@, p)]

\* p->next, which is NULL once p is off the list.
After(p) ==
    IF \E i \in 1..Len(tcp.active) - 1 : tcp.active[i] = p
    THEN tcp.active[1 + CHOOSE i \in DOMAIN tcp.active : tcp.active[i] = p]
    ELSE Nil

First(t) == IF t.active = <<>> THEN Nil ELSE Head(t.active)

\* tcp_close, and tcp_close_shutdown for the states a socket can be in.
TcpClose(t, p) ==
    LET c == [t EXCEPT !.pcb[p].rxclosed = TRUE]
        fin(state) == [c EXCEPT !.pcb[p].state = state, !.pcb[p].flight = @ \cup {"fin"}]
    IN CASE t.pcb[p].state = "ESTABLISHED" ->
              IF t.pcb[p].unread # {} THEN TimeWait(c, p) ELSE fin("FIN_WAIT_1")
         [] t.pcb[p].state = "CLOSE_WAIT" ->
              IF t.pcb[p].unread # {} THEN Free(c, p) ELSE fin("LAST_ACK")
         [] OTHER -> c
----------------------------------------------------------------------------
\* TSTCPSocket: release(), and the one call of the delegate that follows.
Ended(s) == [sockets EXCEPT ![s].pcb = Nil, ![s].told = @ + 1]

\* Delegates call when nothing runs, or from a callback.
MayAct(s, do) ==
    /\ sockets[s].pcb # Nil
    /\ \/ frame.fn = "none"
       \/ frame.cb # "none" /\ [in |-> frame.cb, own |-> s = frame.sock, do |-> do] \in MayCall

\* Slip: the callbacks' argument stays when the socket closes.
CloseKeepsArg(s) ==
    /\ MayAct(s, "close")
    /\ tcp' = TcpClose(tcp, sockets[s].pcb)
    /\ sockets' = Ended(s)
    /\ UNCHANGED frame

\* close(): an assert is not evaluated in a release build, and tcp_close is in
\* the assert.
Close(s) ==
    LET p == sockets[s].pcb
        detached == [tcp EXCEPT !.pcb[p].arg = 0]
    IN /\ MayAct(s, "close")
       /\ tcp' = IF Build = "debug" THEN TcpClose(detached, p) ELSE detached
       /\ sockets' = Ended(s)
       /\ UNCHANGED frame

\* Slip: tcp_abort still finds the error callback and tells the socket too.
ResetTold(s) ==
    /\ MayAct(s, "reset")
    /\ tcp' = Free(tcp, sockets[s].pcb)
    /\ sockets' = [Ended(s) EXCEPT ![s].told = @ + 1]
    /\ UNCHANGED frame

\* reset(), which is tcp_abort.
Reset(s) ==
    /\ MayAct(s, "reset")
    /\ tcp' = Free(tcp, sockets[s].pcb)
    /\ sockets' = Ended(s)
    /\ UNCHANGED frame

WriteData(s) ==
    LET p == sockets[s].pcb
    IN /\ MayAct(s, "write")
       /\ sockets[s].written < MaxWrites
       /\ tcp.pcb[p].flight = {}
       /\ tcp' = [tcp EXCEPT !.pcb[p].flight = {"data"}]
       /\ sockets' = [sockets EXCEPT ![s].written = @ + 1]
       /\ UNCHANGED frame

\* A callback of p's socket, if p has one, and where lwIP goes on after it:
\* TCP_EVENT_ERR ends the socket, TCP_EVENT_SENT is counted.
CallThen(cb, p, next) ==
    LET s == tcp.pcb[p].arg
    IN /\ sockets' = CASE s = 0 -> sockets
                     [] s # 0 /\ cb = "err" -> Ended(s)
                     [] s # 0 /\ cb = "sent" -> [sockets EXCEPT ![s].sent = @ + 1]
                     [] OTHER -> sockets
       /\ frame' = [next EXCEPT !.cb = IF s = 0 THEN "none" ELSE cb, !.sock = s]

\* recved() ends with tcp_recved, if the socket is still valid.
CallbackReturns ==
    /\ frame.cb # "none"
    /\ tcp' = IF frame.cb = "recv" /\ sockets[frame.sock].pcb # Nil
              THEN [tcp EXCEPT !.pcb[frame.pcb].unread = @ \ {"data"}] ELSE tcp
    /\ frame' = [frame EXCEPT !.cb = "none", !.sock = 0]
    /\ UNCHANGED sockets
----------------------------------------------------------------------------
\* tcp_input up to tcp_process, for a segment of an active connection; one of
\* a connection in TIME_WAIT changes nothing here.
Expected(p) ==
    {s \in Segments :
       /\ s.kind = "ack"
       /\ s.data \/ s.fin => tcp.pcb[p].state \in {"SYN_RCVD", "ESTABLISHED", "FIN_WAIT_1", "FIN_WAIT_2"}
       /\ s.ack = "data" => tcp.pcb[p].flight = {"data", "fin"}
       /\ tcp.pcb[p].state = "SYN_RCVD" => s.ack = "all"}

Arriving(p) ==
    Expected(p) \cup {Bare("rst")} \cup (IF Stray THEN {Bare("syn"), Bare("badrst")} ELSE {})

FirstStage(p, s) ==
    IF s.kind = "rst" THEN "reset"
    ELSE IF s.kind # "ack" THEN "sent"
    ELSE IF tcp.pcb[p].state = "SYN_RCVD" THEN "accept"
    ELSE "receive"

Arrive(p, s) ==
    /\ Running("none")
    /\ p \in ToSet(tcp.active) /\ s \in Arriving(p)
    /\ tcp' = ToFront(tcp, p)
    /\ frame' = [NoFrame EXCEPT !.fn = "input", !.pcb = p, !.seg = s, !.stage = FirstStage(p, s)]
    /\ UNCHANGED sockets

At(stage) == Running("input") /\ frame.stage = stage /\ tcp.pcb[frame.pcb].state # "FREE"
Then(stage) == frame' = [frame EXCEPT !.stage = stage]

\* TCP_EVENT_ACCEPT: didAcceptTCPSocket makes the socket.
Accept ==
    LET p == frame.pcb
        s == Len(sockets) + 1
    IN /\ At("accept")
       /\ tcp' = [tcp EXCEPT !.pcb[p].state = "ESTABLISHED", !.pcb[p].arg = s]
       /\ sockets' = Append(sockets, [pcb |-> p, told |-> 0, written |-> 0, sent |-> 0])
       /\ frame' = [frame EXCEPT !.stage = "handshake", !.cb = "accept", !.sock = s]

\* tcp_receive, seen from here.
Received(t, p, s) ==
    LET covered == CASE s.ack = "all" -> t.pcb[p].flight
                     [] s.ack = "data" -> {"data"}
                     [] OTHER -> {}
    IN [t EXCEPT !.pcb[p].flight = @ \ covered, !.pcb[p].acked = "data" \in covered,
                 !.pcb[p].unread = @ \cup {x \in {"data", "fin"} : s[x]}]

\* tcp_process in SYN_RCVD, after the accept callback; the ACK was for the SYN.
Handshake ==
    LET p == frame.pcb
        r == Received(tcp, p, [frame.seg EXCEPT !.ack = "old"])
    IN /\ At("handshake")
       /\ tcp' = IF frame.seg.fin THEN [r EXCEPT !.pcb[p].state = "CLOSE_WAIT"] ELSE r
       /\ Then("sent")
       /\ UNCHANGED sockets

\* tcp_process in the other states, and the TF_CLOSED case of tcp_input.
Receive ==
    LET p == frame.pcb
        s == frame.seg
        r == Received(tcp, p, s)
        finAcked == "fin" \in tcp.pcb[p].flight /\ s.ack = "all"
        goes(state) == [r EXCEPT !.pcb[p].state = state]
    IN /\ At("receive")
       /\ CASE tcp.pcb[p].state = "ESTABLISHED" /\ s.fin -> tcp' = goes("CLOSE_WAIT")
            [] tcp.pcb[p].state = "FIN_WAIT_1" /\ s.fin ->
                  tcp' = IF finAcked THEN TimeWait(r, p) ELSE goes("CLOSING")
            [] tcp.pcb[p].state = "FIN_WAIT_1" /\ ~ s.fin /\ finAcked -> tcp' = goes("FIN_WAIT_2")
            [] tcp.pcb[p].state = "FIN_WAIT_2" /\ s.fin -> tcp' = TimeWait(r, p)
            [] tcp.pcb[p].state = "CLOSING" /\ finAcked -> tcp' = TimeWait(r, p)
            [] OTHER -> tcp' = r
       /\ Then(IF tcp.pcb[p].state = "LAST_ACK" /\ finAcked THEN "free" ELSE "sent")
       /\ UNCHANGED sockets

\* TF_RESET: the socket hears of it before the connection is freed.
ResetByPeer ==
    /\ At("reset")
    /\ CallThen("err", frame.pcb, [frame EXCEPT !.stage = "free"])
    /\ UNCHANGED tcp

FreeConnection ==
    /\ At("free")
    /\ tcp' = Free(tcp, frame.pcb)
    /\ frame' = NoFrame
    /\ UNCHANGED sockets

\* TCP_EVENT_SENT; pcb->acked is of the last ACK that tcp_receive saw.
Sent ==
    /\ At("sent")
    /\ IF tcp.pcb[frame.pcb].acked
       THEN CallThen("sent", frame.pcb, [frame EXCEPT !.stage = "recv"])
       ELSE Then("recv") /\ UNCHANGED sockets
    /\ UNCHANGED tcp

\* Slip: tcp_input goes on with the connection it has just aborted.
RecvGoesOn ==
    LET p == frame.pcb
    IN /\ At("recv")
       /\ IF ~ frame.seg.data
          THEN Then("closed") /\ UNCHANGED <<tcp, sockets>>
          ELSE IF tcp.pcb[p].rxclosed
          THEN tcp' = Free(tcp, p) /\ Then("closed") /\ UNCHANGED sockets
          ELSE UNCHANGED tcp /\ CallThen("recv", p, [frame EXCEPT !.stage = "closed"])

\* TCP_EVENT_RECV: data for a connection that the application has closed
\* aborts it, and without a socket tcp_recv_null takes the data.
Recv ==
    LET p == frame.pcb
    IN /\ At("recv")
       /\ IF ~ frame.seg.data
          THEN Then("closed") /\ UNCHANGED <<tcp, sockets>>
          ELSE IF tcp.pcb[p].rxclosed
          THEN tcp' = Free(tcp, p) /\ frame' = NoFrame /\ UNCHANGED sockets
          ELSE /\ tcp' = IF tcp.pcb[p].arg = 0
                         THEN [tcp EXCEPT !.pcb[p].unread = @ \ {"data"}] ELSE tcp
               /\ CallThen("recv", p, [frame EXCEPT !.stage = "closed"])

\* TCP_EVENT_CLOSED, for which the FIN gives back its place in the window.
PeerClosed ==
    LET p == frame.pcb
    IN /\ At("closed")
       /\ tcp' = [tcp EXCEPT !.pcb[p].unread = IF frame.seg.fin THEN @ \ {"fin"} ELSE @]
       /\ IF frame.seg.fin
          THEN CallThen("closed", p, [frame EXCEPT !.stage = "output"])
          ELSE Then("output") /\ UNCHANGED sockets

InputEnds == At("output") /\ frame' = NoFrame /\ UNCHANGED <<tcp, sockets>>

InputStep ==
    \/ Accept \/ Handshake \/ Receive \/ ResetByPeer \/ FreeConnection
    \/ Sent \/ Recv \/ PeerClosed \/ InputEnds
----------------------------------------------------------------------------
\* A SYN of no known connection: tcp_listen_input, with tcp_alloc.
Unused == {p \in Pcb : tcp.pcb[p].state = "FREE"}
Known == {tcp.pcb[p].conn : p \in Pcb}
Embryonic == {p \in Pcb : tcp.pcb[p].state = "SYN_RCVD"}

Syn(c) ==
    /\ Running("none")
    /\ c \notin Known
    /\ Len(sockets) + Cardinality(Embryonic) < MaxSockets
    /\ frame' = [NoFrame EXCEPT !.fn = "alloc", !.conn = c]
    /\ UNCHANGED <<tcp, sockets>>

\* Without memory the oldest in TIME_WAIT goes, then the oldest of all.
KillOldest ==
    /\ Running("alloc") /\ Unused = {}
    /\ \E p \in IF tcp.tw # {} THEN tcp.tw ELSE ToSet(tcp.active) :
         /\ tcp' = Free(tcp, p)
         /\ CallThen("err", p, frame)

NewConnection ==
    /\ Running("alloc")
    /\ \E p \in Unused :
         tcp' = [tcp EXCEPT !.pcb[p] = [Freed EXCEPT !.state = "SYN_RCVD", !.conn = frame.conn],
                            !.active = <<p>> \o @, !.changed = TRUE]
    /\ frame' = NoFrame
    /\ UNCHANGED sockets
----------------------------------------------------------------------------
\* tcp_slowtmr.  Its times are not counted: a connection that can be removed
\* may be, in this round or a later one.
Removable(p) ==
    \/ tcp.pcb[p].flight # {}
    \/ tcp.pcb[p].state = "FIN_WAIT_2" /\ tcp.pcb[p].rxclosed
    \/ tcp.pcb[p].state \in {"SYN_RCVD", "LAST_ACK"}

SlowTimer ==
    /\ Running("none")
    /\ frame' = [NoFrame EXCEPT !.fn = "slow", !.pcb = First(tcp), !.stage = "none"]
    /\ UNCHANGED <<tcp, sockets>>

Visiting(p) == Running("slow") /\ frame.stage = "none" /\ frame.pcb = p

\* After a restart: prev is not moved along.
SlowSkips ==
    \E p \in frame.stamped :
      /\ Visiting(p)
      /\ frame' = [frame EXCEPT !.pcb = After(p)]
      /\ UNCHANGED <<tcp, sockets>>

\* Slip: prev is not moved along.
SlowForgetsPrev ==
    \E p \in Pcb \ frame.stamped :
      /\ Visiting(p)
      /\ frame' = [frame EXCEPT !.pcb = After(p), !.stamped = @ \cup {p}]
      /\ UNCHANGED <<tcp, sockets>>

SlowKeeps ==
    \E p \in Pcb \ frame.stamped :
      /\ Visiting(p)
      /\ frame' = [frame EXCEPT !.prev = p, !.pcb = After(p), !.stamped = @ \cup {p}]
      /\ UNCHANGED <<tcp, sockets>>

\* The end of a connection: it is freed and its socket is told ERR_ABRT.  The
\* assertion about the first of the list stops the program when it fails.
FirstOfList(p) == frame.prev = Nil => First(tcp) = p

SlowRemoves(p) ==
    /\ Visiting(p) /\ p \notin frame.stamped
    /\ Removable(p) /\ FirstOfList(p)
    /\ tcp' = [Free(tcp, p) EXCEPT !.changed = FALSE]
    /\ CallThen("err", p, [frame EXCEPT !.pcb = After(p), !.stage = "free",
                                       !.stamped = @ \cup {p}])

\* The loop starts anew if the callback has changed the list.
SlowGoesOn ==
    /\ Running("slow") /\ frame.stage = "free"
    /\ frame' = IF tcp.changed
                THEN [frame EXCEPT !.pcb = First(tcp), !.prev = Nil, !.stage = "none"]
                ELSE [frame EXCEPT !.stage = "none"]
    /\ UNCHANGED <<tcp, sockets>>

\* The loop over tcp_tw_pcbs.
Expire(gone) ==
    /\ Running("slow") /\ frame.stage = "none" /\ frame.pcb = Nil
    /\ tcp' = [tcp EXCEPT !.pcb = [p \in Pcb |-> IF p \in gone THEN Freed ELSE tcp.pcb[p]],
                          !.tw = @ \ gone]
    /\ frame' = NoFrame
    /\ UNCHANGED sockets
----------------------------------------------------------------------------
Init ==
    /\ tcp = [pcb |-> [p \in Pcb |-> Freed], active |-> <<>>, tw |-> {}, changed |-> FALSE]
    /\ sockets = <<>>
    /\ frame = NoFrame

Next ==
    \/ \E s \in DOMAIN sockets : Close(s) \/ Reset(s) \/ WriteData(s)
    \/ CallbackReturns
    \/ \E c \in Conn : Syn(c)
    \/ KillOldest \/ NewConnection
    \/ \E p \in Pcb : \E s \in Arriving(p) : Arrive(p, s)
    \/ InputStep
    \/ SlowTimer \/ SlowSkips \/ SlowKeeps \/ SlowGoesOn
    \/ \E p \in Pcb : SlowRemoves(p)
    \/ \E gone \in SUBSET tcp.tw : Expire(gone)

Spec == Init /\ [][Next]_vars
----------------------------------------------------------------------------
\* A socket and its connection belong together: a valid socket has one that is
\* open and calls it back, no connection calls back a socket that has let go of
\* it, except the one that tcp_input is about to free, and an open connection
\* without a socket is one lwIP was told to close: "the lwip will handle the
\* following things for us" (TSTCPSocket.swift:222).
Attached ==
    /\ \A s \in DOMAIN sockets :
         sockets[s].pcb # Nil =>
           /\ tcp.pcb[sockets[s].pcb].arg = s
           /\ tcp.pcb[sockets[s].pcb].state \in {"ESTABLISHED", "CLOSE_WAIT"}
    /\ \A p \in Pcb :
         IF tcp.pcb[p].arg # 0
         THEN \/ sockets[tcp.pcb[p].arg].pcb = p
              \/ frame.fn = "input" /\ frame.pcb = p /\ frame.stage = "free"
         ELSE tcp.pcb[p].state \in {"ESTABLISHED", "CLOSE_WAIT"} => tcp.pcb[p].rxclosed

\* The delegate hears of the end of a socket, and once: "Unless one of
\* socketDidReset, socketDidAbort or socketDidClose" is called the socket is to
\* be closed and waited for (TSTCPSocket.swift:103).  And it hears that data
\* were received no more often than it has written any.
ToldOnce ==
    \A s \in DOMAIN sockets :
      /\ sockets[s].told = IF sockets[s].pcb = Nil THEN 1 ELSE 0
      /\ sockets[s].sent <= sockets[s].written

\* tcp_pcbs_sane, and that nothing leaks: every connection in memory is on the
\* list of its state, once, and no two have the same addresses and ports.
ListsSane ==
    /\ IsInjective(tcp.active)
    /\ ToSet(tcp.active) = {p \in Pcb : tcp.pcb[p].state \in ActiveStates}
    /\ tcp.tw = {p \in Pcb : tcp.pcb[p].state = "TIME_WAIT"}
    /\ \A p, q \in Pcb \ Unused : tcp.pcb[p].conn = tcp.pcb[q].conn => p = q

\* tcp_input and tcp_slowtmr, when they go on after a callback, do so with a
\* connection that is still in memory.
NoUseAfterFree ==
    frame.fn \in {"input", "slow"} /\ frame.cb = "none" /\ frame.pcb # Nil =>
        \/ frame.fn = "slow" /\ frame.stage = "free"
        \/ tcp.pcb[frame.pcb].state # "FREE"

\* The assertion of tcp_slowtmr (tcp.c:958).
SlowAssertion ==
    \A p \in Pcb : Visiting(p) /\ p \notin frame.stamped /\ Removable(p) => FirstOfList(p)
=============================================================================
