------------------------------ MODULE TcpSend ------------------------------
(***************************************************************************)
(* The sending half of one lwIP connection, from the moment it is          *)
(* established: tcp_write cuts what the application writes into segments   *)
(* on unsent, tcp_output moves those the windows allow to unacked,         *)
(* tcp_receive frees what an ACK covers, and the slow timer retransmits    *)
(* and probes a closed window.  A call of the stack is one step.           *)
(*                                                                         *)
(* Bytes are numbered from 0; sequence numbers are those numbers and do    *)
(* not wrap here.  A segment is where it begins, its length, whether it    *)
(* carries the FIN and how many pbufs it is made of.  The timers decide    *)
(* only when a step is taken, so rto, rtime and persist_cnt are reduced to *)
(* whether they run.                                                       *)
(*                                                                         *)
(* External: a peer that keeps what arrives, reads it when it likes and    *)
(* answers each segment, and a network that delays, reorders and loses.    *)
(***************************************************************************)
EXTENDS Integers, Sequences, FiniteSets, FiniteSetsExt, SequencesExt

CONSTANTS
    Bytes,     \* what the application writes at most
    MaxWrite,  \* and in one call
    Mss,
    SndBuf,    \* TCP_SND_BUF
    QueueMax,  \* TCP_SND_QUEUELEN, in pbufs
    U16,       \* 2^16
    Wnd,       \* the peer's buffer
    Edges,     \* what is free of it at first: it may not have read earlier bytes
    MaxRtx,    \* TCP_MAXRTX
    RtxBound,  \* bound: timeouts in a row that the model follows
    MayLose    \* what the network loses: "data", "acks"

ASSUME ConstantsAssumption ==
    /\ Bytes \in Nat /\ MaxWrite \in Nat \ {0} /\ Mss \in Nat \ {0}
    /\ Wnd \in Nat /\ Wnd >= 2  \* of a smaller one tcp_write makes segments of 0 bytes
    /\ Edges \subseteq 0..Wnd
    /\ U16 \in Nat
    /\ SndBuf \in Nat \ {0} /\ SndBuf < U16
    /\ Wnd < U16 /\ 5 * Mss < U16 /\ Wnd \div 2 + 3 * Mss < U16  \* cwnd and ssthresh are u16_t
    /\ QueueMax \in Nat /\ MaxRtx \in Nat /\ RtxBound \in Nat /\ MayLose \subseteq {"data", "acks"}

VARIABLES
    pcb,     \* of struct tcp_pcb what the sender uses
    owner,   \* TSTCPSocket: "open", "closed", or "failed" if tcp_close was refused
    data,    \* segments in transit
    acks,    \* and the answers to them
    peer     \* what it has got, and the right edge of its window

vars == <<pcb, owner, data, acks, peer>>
----------------------------------------------------------------------------
Min2(m, n) == IF m < n THEN m ELSE n
Max2(m, n) == IF m > n THEN m ELSE n
Flag(b) == IF b THEN 1 ELSE 0

TcpLen(s) == s.len + Flag(s.fin)
End(s) == s.seqno + TcpLen(s)
Places(s) == s.seqno..End(s) - 1

Pbufs(q) ==
    LET sum[i \in 0..Len(q)] == IF i = 0 THEN 0 ELSE sum[i - 1] + q[i].bufs
    IN sum[Len(q)]

\* s before the first segment of q that does not begin before it.
Insert(q, s) ==
    LET k == Max({n \in 0..Len(q) : \A i \in 1..n : q[i].seqno < s.seqno})
    IN SubSeq(q, 1, k) \o <<s>> \o SubSeq(q, k + 1, Len(q))

Flags == {"nagle_mem_err", "fin", "in_fr"}
States == {"ESTABLISHED", "FIN_WAIT_1", "FIN_WAIT_2", "GAVE_UP", "TIMED_OUT"}
Gone == pcb.state \in {"GAVE_UP", "TIMED_OUT"}

Segment == [seqno : Nat, len : Nat, fin : BOOLEAN, bufs : Nat]
Wired == [seqno : 0..Bytes, len : 0..Mss, fin : BOOLEAN]
Wire(s) == [seqno |-> s.seqno, len |-> s.len, fin |-> s.fin]

Pcb == [unsent : Seq(Segment), unacked : Seq(Segment),
        lastack : 0..Bytes + 1, snd_nxt : 0..Bytes + 1, snd_lbb : 0..Bytes + 1, wl2 : 0..Bytes + 1,
        snd_buf : 0..U16 - 1, cwnd : 0..U16 - 1, ssthresh : 0..U16 - 1,
        snd_wnd : 0..Wnd, snd_wnd_max : 0..Wnd,
        queuelen : 0..QueueMax, oversize : 0..Mss, dupacks : 0..4, nrtx : Nat,
        rtime : BOOLEAN, persist : BOOLEAN, flags : SUBSET Flags, state : States]

TypeOK ==
    /\ pcb \in Pcb
    /\ owner \in {"open", "closed", "failed"}
    /\ data \subseteq Wired
    /\ acks \subseteq [ackno : 0..Bytes + 1, wnd : 0..Wnd]
    /\ peer \in [got : SUBSET (0..Bytes), edge : 0..Bytes + Wnd]
----------------------------------------------------------------------------
\* tcp_do_output_nagle, and what overrules it, for the i-th of unsent.
MayGo(p, i) ==
    \/ i = 1 /\ p.unacked = <<>>
    \/ p.flags # {}
    \/ i < Len(p.unsent) \/ p.unsent[i].len >= Mss
    \/ p.snd_buf = 0 \/ p.queuelen >= QueueMax

\* A slip: where a segment begins is compared with the window, not its end.
FitsItsStart(p, s) == s.seqno - p.lastack \in 0..Min2(p.snd_wnd, p.cwnd)

\* The difference of two u32_t: a segment below lastack looks huge.
Fits(p, s) == s.seqno + s.len - p.lastack \in 0..Min2(p.snd_wnd, p.cwnd)

\* A slip: unacked is appended to, not kept in order.
OutputAppends(p) ==
    LET k == Max({n \in 0..Len(p.unsent) :
                    \A i \in 1..n : Fits(p, p.unsent[i]) /\ MayGo(p, i)})
        out == SubSeq(p.unsent, 1, k)
        left == SubSeq(p.unsent, k + 1, Len(p.unsent))
    IN [pcb |-> [p EXCEPT !.unsent = left,
                          !.unacked = @ \o out,
                          !.snd_nxt = Max({@} \cup {End(s) : s \in ToSet(out)}),
                          !.rtime = @ \/ k > 0,
                          !.oversize = IF left = <<>> THEN 0 ELSE @,
                          !.flags = @ \ {"nagle_mem_err"}],
        out |-> {Wire(s) : s \in ToSet(out)}]

\* Where a segment goes that is sent: last, or before those that follow it.
File(q, s) == IF q # <<>> /\ s.seqno < Last(q).seqno THEN Insert(q, s) ELSE Append(q, s)

\* The queue q when all of out has been sent, one by one.
Filed(q, out) ==
    LET filed[i \in 0..Len(out)] == IF i = 0 THEN q ELSE File(filed[i - 1], out[i])
    IN filed[Len(out)]

\* tcp_output, and the segments it puts on the wire.
Output(p) ==
    LET k == Max({n \in 0..Len(p.unsent) :
                    \A i \in 1..n : Fits(p, p.unsent[i]) /\ MayGo(p, i)})
        out == SubSeq(p.unsent, 1, k)
        left == SubSeq(p.unsent, k + 1, Len(p.unsent))
    IN [pcb |-> [p EXCEPT !.unsent = left,
                          !.unacked = Filed(@, out),
                          !.snd_nxt = Max({@} \cup {End(s) : s \in ToSet(out)}),
                          !.rtime = @ \/ k > 0,
                          !.oversize = IF left = <<>> THEN 0 ELSE @,
                          !.flags = @ \ {"nagle_mem_err"}],
        out |-> {Wire(s) : s \in ToSet(out)}]

\* A call that ends in tcp_output.
Sends(p) ==
    LET o == Output(p)
    IN pcb' = o.pcb /\ data' = data \cup o.out
----------------------------------------------------------------------------
\* tcp_write with TCP_WRITE_FLAG_COPY.
CanWrite(p, n) == n <= p.snd_buf /\ p.queuelen < QueueMax

Mss2(p) == Min2(Mss, p.snd_wnd_max \div 2)

\* The segments that n bytes from a are cut into, each in one pbuf.
Cut(p, a, n) ==
    LET k == (n + Mss2(p) - 1) \div Mss2(p)
    IN [i \in 1..k |->
          [seqno |-> a + (i - 1) * Mss2(p), len |-> Min2(Mss2(p), n - (i - 1) * Mss2(p)),
           fin |-> FALSE, bufs |-> 1]]

\* Room at the end of a pbuf of len bytes of at most max (tcp_pbuf_prealloc).
Prealloc(p, len, max, first) ==
    IF ~ first \/ p.unsent # <<>> \/ p.unacked # <<>> THEN max - len ELSE 0

\* The three phases: fill the last pbuf, chain one to the last segment, make
\* new segments.
Enqueue(p, n) ==
    LET tail == p.unsent # <<>>
        space == IF tail THEN Mss2(p) - Last(p.unsent).len ELSE 0
        used == IF tail THEN Min2(p.oversize, n) ELSE 0
        chained == Min2(space - used, n - used)
        new == Cut(p, p.snd_lbb + used + chained, n - used - chained)
        queue == (IF tail
                  THEN Front(p.unsent) \o
                         <<[Last(p.unsent) EXCEPT !.len = @ + used + chained,
                                                  !.bufs = @ + Flag(chained > 0)]>>
                  ELSE <<>>) \o new
    IN [p EXCEPT !.unsent = queue,
                 !.oversize = IF new # <<>>
                              THEN Prealloc(p, Last(new).len, Mss2(p), Len(new) = 1)
                              ELSE IF chained > 0 THEN Prealloc(p, chained, space - used, TRUE)
                              ELSE @ - used,
                 !.snd_lbb = @ + n, !.snd_buf = @ - n,
                 !.queuelen = @ + Flag(chained > 0) + Len(new)]

NoMemory(p) == [p EXCEPT !.flags = @ \cup {"nagle_mem_err"}]

\* tcp_enqueue_flags for a FIN.
EnqueueFin(p) ==
    [p EXCEPT !.unsent = Append(@, [seqno |-> p.snd_lbb, len |-> 0, fin |-> TRUE, bufs |-> 1]),
              !.oversize = 0, !.snd_lbb = @ + 1, !.snd_buf = @ - 1,
              !.queuelen = @ + 1, !.flags = @ \cup {"fin"}]

\* tcp_send_fin: the last segment takes the FIN, if one is waiting.
SendFin(p) ==
    IF p.unsent # <<>>
    THEN [p EXCEPT !.unsent[Len(p.unsent)].fin = TRUE, !.flags = @ \cup {"fin"}]
    ELSE EnqueueFin(p)

CanClose(p) == p.unsent # <<>> \/ (p.queuelen < QueueMax /\ p.snd_buf > 0)

\* TSTCPSocket.close: nobody hears of this connection again, whatever
\* tcp_close returns.
CloseWith(p) ==
    /\ owner = "open"
    /\ IF CanClose(p)
       THEN /\ Sends([SendFin(p) EXCEPT !.state = "FIN_WAIT_1"])
            /\ owner' = "closed"
       ELSE /\ pcb' = IF p.queuelen >= QueueMax THEN NoMemory(p) ELSE p
            /\ owner' = "failed"
            /\ UNCHANGED data

Close == ~ Gone /\ CloseWith(pcb) /\ UNCHANGED <<acks, peer>>

\* TSTCPSocket.writeData; when tcp_write is refused the connection is closed.
WriteData ==
    /\ ~ Gone /\ owner = "open"
    /\ \E n \in 1..Min2(MaxWrite, Bytes - pcb.snd_lbb) :
         IF CanWrite(pcb, n) /\ Enqueue(pcb, n).queuelen <= QueueMax
         THEN Sends(Enqueue(pcb, n)) /\ UNCHANGED owner
         ELSE CloseWith(NoMemory(pcb))
    /\ UNCHANGED <<acks, peer>>
----------------------------------------------------------------------------
\* tcp_rexmit and tcp_rexmit_fast, on the third duplicate ACK.
RexmitFast(p) ==
    IF p.unacked = <<>> \/ "in_fr" \in p.flags THEN p
    ELSE LET half == Max2(Min2(p.cwnd, p.snd_wnd) \div 2, 2 * Mss)
         IN [p EXCEPT !.unacked = Tail(@), !.unsent = Insert(@, Head(p.unacked)),
                      !.oversize = IF \A i \in 1..Len(p.unsent) :
                                           p.unsent[i].seqno < Head(p.unacked).seqno
                                   THEN 0 ELSE @,
                      !.nrtx = @ + 1, !.ssthresh = half, !.cwnd = half + 3 * Mss,
                      !.flags = @ \cup {"in_fr"}]

\* The window of the ACK is the newer one, or a larger one.
UpdateWindow(p, a) ==
    IF p.wl2 < a.ackno \/ (p.wl2 = a.ackno /\ a.wnd > p.snd_wnd)
    THEN [p EXCEPT !.snd_wnd = a.wnd, !.snd_wnd_max = Max2(@, a.wnd),
                   !.wl2 = a.ackno, !.persist = a.wnd = 0]
    ELSE p

\* cwnd is a u16_t that must not wrap.
Inflate(p, n) == [p EXCEPT !.cwnd = Max2(@, (@ + n) % U16)]

\* The clauses of tcp_receive for an ACK of nothing new; old is the right
\* edge of the window before.
Duplicate(p, a, old) ==
    IF p.wl2 + p.snd_wnd = old /\ p.rtime /\ p.lastack = a.ackno
    THEN LET q == [p EXCEPT !.dupacks = @ + 1]
         IN IF q.dupacks > 3 THEN Inflate([q EXCEPT !.dupacks = 4], Mss)
            ELSE IF q.dupacks = 3 THEN RexmitFast(q)
            ELSE q
    ELSE [p EXCEPT !.dupacks = 0]

\* The head of a queue that the ACK covers.
Acked(q, ackno) == Max({k \in 0..Len(q) : \A i \in 1..k : End(q[i]) <= ackno})

\* Slips: segments are counted, not their pbufs; and the retransmission timer
\* stops with every ACK.
FreeAckedSegments(p, a) ==
    LET k == Acked(p.unacked, a.ackno)
    IN [p EXCEPT !.unacked = SubSeq(@, k + 1, Len(@)),
                 !.queuelen = @ - k,
                 !.rtime = k < Len(p.unacked)]

FreeAckedStops(p, a) ==
    LET k == Acked(p.unacked, a.ackno)
    IN [p EXCEPT !.unacked = SubSeq(@, k + 1, Len(@)),
                 !.queuelen = @ - Pbufs(SubSeq(p.unacked, 1, k)),
                 !.rtime = FALSE]

FreeAcked(p, a) ==
    LET k == Acked(p.unacked, a.ackno)
    IN [p EXCEPT !.unacked = SubSeq(@, k + 1, Len(@)),
                 !.queuelen = @ - Pbufs(SubSeq(p.unacked, 1, k)),
                 !.rtime = k < Len(p.unacked)]

\* After a retransmission unsent holds segments that have been sent before.
FreeUnsent(p, a) ==
    LET k == IF a.ackno <= p.snd_nxt THEN Acked(p.unsent, a.ackno) ELSE 0
        left == SubSeq(p.unsent, k + 1, Len(p.unsent))
    IN [p EXCEPT !.unsent = left,
                 !.queuelen = @ - Pbufs(SubSeq(p.unsent, 1, k)),
                 !.oversize = IF left = <<>> THEN 0 ELSE @]

\* An ACK of something new.
NewAck(p, a) ==
    LET q == [p EXCEPT !.cwnd = IF "in_fr" \in p.flags THEN p.ssthresh ELSE @,
                       !.flags = @ \ {"in_fr"}, !.nrtx = 0, !.dupacks = 0,
                       !.snd_buf = (@ + a.ackno - p.lastack) % U16,
                       !.lastack = a.ackno]
        r == Inflate(q, IF q.cwnd < q.ssthresh THEN Mss ELSE (Mss * Mss) \div q.cwnd)
    IN FreeAcked(r, a)

\* tcp_receive, the part for the ACK, and tcp_process in FIN_WAIT_1.
Receive(p, a) ==
    LET w == UpdateWindow(p, a)
        q == IF a.ackno <= p.lastack THEN Duplicate(w, a, p.wl2 + p.snd_wnd)
             ELSE IF a.ackno <= p.snd_nxt THEN NewAck(w, a)
             ELSE w
        r == FreeUnsent(q, a)
    IN IF r.state = "FIN_WAIT_1" /\ a.ackno = r.snd_nxt
       THEN [r EXCEPT !.state = "FIN_WAIT_2"] ELSE r

\* tcp_input for an ACK without data.
AckArrives(a) ==
    /\ ~ Gone
    /\ a \in acks /\ acks' = acks \ {a}
    /\ Sends(Receive(pcb, a))
    /\ UNCHANGED <<owner, peer>>
----------------------------------------------------------------------------
\* The part of tcp_slowtmr for one connection.  It has no poll function and a
\* poll interval of 0, so that tcp_output is called every time.
GiveUp ==
    /\ pcb.nrtx = MaxRtx
    /\ pcb' = [pcb EXCEPT !.state = "GAVE_UP"]
    /\ UNCHANGED data

\* tcp_zero_window_probe: one byte, or the FIN.
Queued == pcb.unacked \o pcb.unsent
ProbeSegment ==
    LET s == Head(Queued)
    IN [seqno |-> s.seqno, len |-> Flag(s.len > 0), fin |-> s.len = 0]

Probe ==
    LET o == Output(pcb)
    IN /\ pcb.nrtx # MaxRtx /\ pcb.persist
       /\ Queued # <<>>
       /\ pcb' = o.pcb
       /\ data' = data \cup o.out \cup {ProbeSegment}

\* The retransmission timer, and tcp_rexmit_rto.
Rto ==
    LET half == Max2(Min2(pcb.cwnd, pcb.snd_wnd) \div 2, 2 * Mss)
    IN /\ pcb.nrtx # MaxRtx /\ ~ pcb.persist
       /\ pcb.nrtx < RtxBound
       /\ pcb.unacked # <<>> /\ pcb.rtime
       /\ Sends([pcb EXCEPT !.ssthresh = half, !.cwnd = Mss, !.nrtx = @ + 1,
                            !.unsent = pcb.unacked \o @, !.unacked = <<>>])

\* Neither is due.
Tick == pcb.nrtx # MaxRtx /\ Sends(pcb)

\* FIN_WAIT_2 after close() is left alone for TCP_FIN_WAIT_TIMEOUT only.
FinWaitTimeout ==
    /\ pcb.state = "FIN_WAIT_2"
    /\ pcb' = [pcb EXCEPT !.state = "TIMED_OUT"]
    /\ UNCHANGED data

Timer(A) == ~ Gone /\ A /\ UNCHANGED <<owner, acks, peer>>
SlowTimer == Timer(GiveUp) \/ Timer(Probe) \/ Timer(Rto) \/ Timer(Tick) \/ Timer(FinWaitTimeout)
----------------------------------------------------------------------------
\* The peer, and the network.
Place(got) == CHOOSE n \in 0..Bytes + 1 : n \notin got /\ 0..n - 1 \subseteq got
NextPlace == Place(peer.got)
Answer(got, edge) ==
    [ackno |-> Place(got), wnd |-> Max2(edge - Place(got), 0)]

\* What of s is within the peer's window; the FIN needs no room.
Arriving(s) == {n \in Places(s) : n < peer.edge \/ (s.fin /\ n = End(s) - 1)}

PeerReceives(s) ==
    LET got == peer.got \cup Arriving(s)
    IN /\ ~ Gone
       /\ s \in data /\ data' = data \ {s}
       /\ peer' = [peer EXCEPT !.got = got]
       /\ acks' = acks \cup {Answer(got, peer.edge)}
       /\ UNCHANGED <<pcb, owner>>

\* Its application reads everything there is, and the window opens.
PeerReads ==
    LET edge == Min2(NextPlace, Bytes) + Wnd
    IN /\ ~ Gone
       /\ edge > peer.edge
       /\ peer' = [peer EXCEPT !.edge = edge]
       /\ acks' = acks \cup {Answer(peer.got, edge)}
       /\ UNCHANGED <<pcb, owner, data>>

Lose ==
    /\ ~ Gone
    /\ \/ "data" \in MayLose /\ (\E s \in data : data' = data \ {s}) /\ UNCHANGED acks
       \/ "acks" \in MayLose /\ (\E a \in acks : acks' = acks \ {a}) /\ UNCHANGED data
    /\ UNCHANGED <<pcb, owner, peer>>
----------------------------------------------------------------------------
\* An established connection of which everything sent so far is acknowledged:
\* tcp_alloc, tcp_listen_input and tcp_process in SYN_RCVD, or later.
Init ==
    /\ peer \in [got : {{}}, edge : Edges]
    /\ pcb = [unsent |-> <<>>, unacked |-> <<>>, lastack |-> 0, snd_nxt |-> 0, snd_lbb |-> 0,
              snd_buf |-> SndBuf, queuelen |-> 0, snd_wnd |-> peer.edge, snd_wnd_max |-> Wnd,
              wl2 |-> 0, oversize |-> 0, cwnd |-> 2 * Mss, ssthresh |-> Wnd,
              dupacks |-> 0, nrtx |-> 0, rtime |-> FALSE, persist |-> peer.edge = 0,
              flags |-> {}, state |-> "ESTABLISHED"]
    /\ owner = "open"
    /\ data = {} /\ acks = {}

Next ==
    \/ WriteData \/ Close \/ SlowTimer
    \/ \E a \in acks : AckArrives(a)
    \/ \E s \in data : PeerReceives(s)
    \/ PeerReads \/ Lose

Spec == Init /\ [][Next]_vars

\* Fairness, with what enables an action written out: of what is sent again
\* and again not everything is lost; the slow timer runs, with or without a
\* reason of its own; the peer's application reads.  An answer is useful that
\* acknowledges more or opens the window.
Useful(a) == a.ackno > pcb.lastack \/ a.ackno + a.wnd > pcb.wl2 + pcb.snd_wnd
Told(s) == Useful(Answer(peer.got \cup Arriving(s), peer.edge))

CanTell == ~ Gone /\ \E s \in data : Told(s)
CanAnswer == ~ Gone /\ \E a \in acks : Useful(a)
CanTick ==
    /\ ~ Gone
    /\ \/ pcb.nrtx = MaxRtx
       \/ pcb.persist /\ Queued # <<>> /\ ProbeSegment \notin data
       \/ ~ pcb.persist /\ pcb.unacked # <<>> /\ pcb.rtime
       \/ Output(pcb).out # {}

Fairness ==
    /\ []<>CanTell => []<><<\E s \in data : Told(s) /\ PeerReceives(s)>>_vars
    /\ []<>CanAnswer => []<><<\E a \in acks : Useful(a) /\ AckArrives(a)>>_vars
    /\ <>[]CanTick => []<><<SlowTimer>>_vars
    /\ WF_vars(PeerReads)

FairSpec == Spec /\ Fairness
----------------------------------------------------------------------------
\* Every byte written and not acknowledged, and the FIN, is on one of the
\* queues, once, with no gap, whatever has been retransmitted, extended or
\* acknowledged halfway (tcp_out.c:1238-1312, tcp_in.c:1013-1087).
QueuesTile ==
    LET q == Queued
        end == pcb.snd_lbb + Flag(\E i \in DOMAIN q : q[i].fin /\ q[i].len > 0)
    IN /\ \A i \in 1..Len(q) - 1 : End(q[i]) = q[i + 1].seqno /\ ~ q[i].fin
       /\ IF q = <<>> THEN pcb.lastack >= pcb.snd_lbb
          ELSE Head(q).seqno <= pcb.lastack /\ pcb.lastack < End(Head(q)) /\ End(Last(q)) = end

\* snd_buf and snd_queuelen count what the queues hold: a leak would close the
\* connection's throttle for ever, a surplus lets the application overrun it.
\* And the room that is left in the last pbuf is within its segment.
BufferAccounted ==
    /\ pcb.queuelen = Pbufs(pcb.unacked) + Pbufs(pcb.unsent)
    /\ pcb.state = "ESTABLISHED" => pcb.snd_buf = SndBuf - (pcb.snd_lbb - pcb.lastack)
    /\ pcb.oversize > 0 =>
          pcb.unsent # <<>> /\ Last(pcb.unsent).len + pcb.oversize <= Mss2(pcb)

\* No segment is sent that the peer has not said it has room for.
EdgeRespected == \A s \in ToSet(pcb.unacked) : s.seqno + s.len <= peer.edge

\* The window is open, but not wide enough for the next segment, and nothing
\* is on its way: the persist timer runs for a window of 0 only (tcp_in.c:893).
SmallWindow ==
    /\ pcb.unacked = <<>> /\ pcb.unsent # <<>>
    /\ 0 < pcb.snd_wnd /\ pcb.snd_wnd < Head(pcb.unsent).len

\* Everything written gets there, with the FIN, or the connection is given up
\* after TCP_MAXRTX retransmissions in a row, unless it ends with a window too
\* small for a segment, whose update may be lost.
AllDelivered ==
    []<>(\/ Gone
         \/ SmallWindow
         \/ pcb.lastack >= pcb.snd_lbb /\ pcb.unsent = <<>> /\ pcb.unacked = <<>>)
=============================================================================
