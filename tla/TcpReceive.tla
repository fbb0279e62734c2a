----------------------------- MODULE TcpReceive -----------------------------
(***************************************************************************)
(* The receiving half of one lwIP connection: tcp_receive puts the bytes   *)
(* of a stream in order, keeps what is early on ooseq and tells the sender *)
(* how much more it may send; tcp_input hands bytes and the end of the     *)
(* stream to the application, which may refuse them for a while; tcp_recved*)
(* opens the window again; tcp_fasttmr sends delayed acknowledgements.     *)
(*                                                                         *)
(* The stream is the numbers 0..Bytes-1 and a FIN.  Sequence numbers are   *)
(* those plus isn, modulo SeqSize, 2^32 in the code, and are compared as   *)
(* the code compares them.  A segment has, apart from its header, the      *)
(* bytes its pbufs hold: tot of them beginning with the byte from.  A call *)
(* of the stack is one step.                                               *)
(*                                                                         *)
(* External: the sender and the network.  Any segment the sender has been  *)
(* allowed to send may arrive at any time, again and again, cut in any way.*)
(***************************************************************************)
EXTENDS Naturals, Sequences, FiniteSets, FiniteSetsExt, SequencesExt

CONSTANTS
    Bytes,
    Wnd,        \* TCP_WND
    Mss,
    SeqSize,
    Isn,        \* the sequence numbers of byte 0 to try
    FinBeyond,  \* whether senders send a FIN when the data fill the window
    MayRefuse,  \* whether the application's recv callback may refuse
    ReadsLater  \* whether it may leave tcp_recved for later; TSTCPSocket
                \* calls it in the callback

ASSUME ConstantsAssumption ==
    /\ Bytes \in Nat /\ Wnd \in Nat \ {0} /\ Mss \in Nat \ {0}
    /\ SeqSize \in Nat /\ SeqSize > 2 * (Bytes + Wnd + 2)
    /\ Isn \subseteq 0..SeqSize - 1
    /\ FinBeyond \in BOOLEAN /\ MayRefuse \in BOOLEAN /\ ReadsLater \in BOOLEAN

VARIABLES
    isn,
    pcb,      \* rcv_nxt, rcv_wnd, rcv_ann_right_edge, rcv_ann_wnd, ooseq,
              \* the ACK flags and whether the state is CLOSE_WAIT
    refused,  \* refused_data: bytes, and PBUF_FLAG_TCP_FIN
    stream,   \* bytes the application has accepted, in order
    unread,   \* how many of them it has not told tcp_recved about
    eof,      \* how often it was told of the end (TCP_EVENT_CLOSED)
    failed    \* whether an LWIP_ASSERT has failed: abort()

vars == <<isn, pcb, refused, stream, unread, eof, failed>>
----------------------------------------------------------------------------
\* Arithmetic of sequence numbers: TCP_SEQ_LT and the like.
SeqNo(x) == (isn + x) % SeqSize
Plus(s, n) == (s + n) % SeqSize
Minus(s, t) == (s + SeqSize - t) % SeqSize
SeqLt(s, t) == Minus(s, t) >= SeqSize \div 2
SeqLeq(s, t) == s = t \/ SeqLt(s, t)
Between(s, t, u) == SeqLeq(t, s) /\ SeqLeq(s, u)

\* What a sequence number stands for, to the reader of this model.
Pos(s) == Minus(s, isn)

Min2(m, n) == IF m < n THEN m ELSE n
Flag(b) == IF b THEN 1 ELSE 0

Segment == [seqno : 0..SeqSize - 1, len : Nat, fin : BOOLEAN, from : Nat, tot : Nat]
TcpLen(s) == s.len + Flag(s.fin)
End(s) == Plus(s.seqno, s.len)
Data(s) == [i \in 1..s.tot |-> s.from + i - 1]

\* The segment's length is set and its pbufs cut, which cannot be enlarged.
Realloc(s, n) == [s EXCEPT !.len = n, !.tot = Min2(@, n)]

Pcb == [rcv_nxt : 0..SeqSize - 1, rcv_wnd : 0..Wnd, ann_edge : 0..SeqSize - 1,
        ann_wnd : 0..Wnd, ooseq : Seq(Segment), ack : SUBSET {"delay", "now"},
        closing : BOOLEAN]

TypeOK ==
    /\ isn \in Isn
    /\ pcb \in Pcb
    /\ refused \in [bytes : Seq(Nat), fin : BOOLEAN]
    /\ stream \in Seq(Nat)
    /\ unread \in 0..Wnd
    /\ eof \in Nat
    /\ failed \in BOOLEAN
----------------------------------------------------------------------------
AckNow(p) == [p EXCEPT !.ack = @ \cup {"now"}]
Ack(p) == [p EXCEPT !.ack = IF "delay" \in @ THEN (@ \ {"delay"}) \cup {"now"} ELSE @ \cup {"delay"}]

\* A segment goes out: the window it announces is a promise.
SendEmptyAck(p) == [p EXCEPT !.ack = {}, !.ann_edge = Plus(p.rcv_nxt, p.ann_wnd)]

\* tcp_output; nothing is being sent in this half of the connection.
Output(p) == IF "now" \in p.ack THEN SendEmptyAck(p) ELSE p

\* tcp_update_rcv_ann_wnd, and what it returns.
NewEdge(p) == Plus(p.rcv_nxt, p.rcv_wnd)
MoreWindow(p) == SeqLeq(Plus(p.ann_edge, Min2(Wnd \div 2, Mss)), NewEdge(p))
Inflation(p) == IF MoreWindow(p) THEN Minus(NewEdge(p), p.ann_edge) ELSE 0

\* A slip: a window too small to be worth it is announced as closed.
UpdateAnnWndSilly(p) ==
    [p EXCEPT !.ann_wnd = IF MoreWindow(p) THEN p.rcv_wnd ELSE 0]

UpdateAnnWnd(p) ==
    [p EXCEPT !.ann_wnd = IF MoreWindow(p) THEN p.rcv_wnd
                          ELSE IF SeqLt(p.ann_edge, p.rcv_nxt) THEN 0
                          ELSE Minus(p.ann_edge, p.rcv_nxt)]

\* tcp_recved, from a callback of tcp_input (no output there) or not.
Recved(p, n, inInput) ==
    LET q == [p EXCEPT !.rcv_wnd = Min2(@ + n, Wnd)]
        r == UpdateAnnWnd(q)
    IN IF Inflation(q) >= Wnd \div 4
       THEN IF inInput THEN AckNow(r) ELSE Output(AckNow(r))
       ELSE r
----------------------------------------------------------------------------
\* How many segments at the head of q are covered by bytes up to end.
Covered(q, end) ==
    Max({k \in 0..Len(q) : \A i \in 1..k : SeqLeq(End(q[i]), end)})

AnyFin(q) == \E i \in DOMAIN q : q[i].fin

Drop(q, k) == SubSeq(q, k + 1, Len(q))

\* tcp_oos_insert_segment, with the queue it heads.
OosInsert(c, q) ==
    IF c.fin THEN <<c>>
    ELSE LET k == Covered(q, End(c))
             rest == Drop(q, k)
             d == IF rest # <<>> /\ SeqLt(Head(rest).seqno, End(c))
                  THEN Realloc(c, Minus(Head(rest).seqno, c.seqno)) ELSE c
         IN <<[d EXCEPT !.fin = AnyFin(SubSeq(q, 1, k))]>> \o rest

\* A slip: what goes before a segment of the queue is not cut.
TrimLastNot(q, seqno) == q

\* The end of s when it goes on what is before it in the queue.
TrimLast(q, seqno) ==
    LET l == Last(q)
    IN IF SeqLt(seqno, End(l))
       THEN Front(q) \o <<Realloc(l, Minus(seqno, l.seqno))>> ELSE q

\* The sums of u32_t are compared as they are (tcp_in.c:1481).
OverrunsWindow(p, s) == Plus(s.seqno, TcpLen(s)) > Plus(p.rcv_nxt, p.rcv_wnd)

CutToWindow(p, s) ==
    IF OverrunsWindow(p, s)
    THEN [Realloc(s, Minus(NewEdge(p), s.seqno)) EXCEPT !.fin = FALSE] ELSE s

\* A segment that is early, put on ooseq: with a sequence number that is
\* there already, after the last, or before the first that is later.
QueueEarly(p, s) ==
    LET q == p.ooseq
        later == {i \in DOMAIN q : SeqLt(s.seqno, q[i].seqno)}
    IN IF q = <<>> THEN <<s>>
       ELSE IF \E i \in DOMAIN q : q[i].seqno = s.seqno
       THEN LET i == CHOOSE i \in DOMAIN q : q[i].seqno = s.seqno
            IN IF s.len > q[i].len
               THEN SubSeq(q, 1, i - 1) \o OosInsert(s, Drop(q, i - 1)) ELSE q
       ELSE IF later = {}
       THEN IF Last(q).fin THEN q ELSE TrimLast(q, s.seqno) \o <<CutToWindow(p, s)>>
       ELSE LET i == Min(later)
                before == SubSeq(q, 1, i - 1)
            IN (IF before = <<>> THEN <<>> ELSE TrimLast(before, s.seqno))
                 \o OosInsert(s, Drop(q, i - 1))
----------------------------------------------------------------------------
\* The segment that is due, cut to the window, with what is left of ooseq:
\* it covers or is trimmed to what is there as if it were put at its head.
CutInOrder(p, s) ==
    LET c == IF TcpLen(s) > p.rcv_wnd
             THEN [Realloc(s, p.rcv_wnd) EXCEPT !.fin = FALSE] ELSE s
    IN OosInsert(c, p.ooseq)

\* How many segments of q follow one another without a gap.
Follow(q) ==
    Max({k \in 1..Len(q) :
           \A i \in 2..k : q[i].seqno = Plus(q[i - 1].seqno, TcpLen(q[i - 1]))})

\* What the first k segments of q take of the sequence, and their bytes.
Gathered(q, k) ==
    LET got[i \in 0..k] ==
          IF i = 0 THEN [n |-> 0, data |-> <<>>]
          ELSE [n |-> got[i - 1].n + TcpLen(q[i]), data |-> got[i - 1].data \o Data(q[i])]
    IN got[k]

\* That segment and the segments of ooseq that have become due with it.
InOrder(p, s) ==
    LET q == CutInOrder(p, s)
        k == Follow(q)
        got == Gathered(q, k)
    IN [pcb |-> Ack(UpdateAnnWnd([p EXCEPT !.rcv_nxt = Plus(@, got.n),
                                           !.rcv_wnd = IF got.n > @ THEN 0 ELSE @ - got.n,
                                           !.ooseq = Drop(q, k)])),
        data |-> got.data,
        fin |-> AnyFin(SubSeq(q, 1, k)),
        ok |-> got.n <= p.rcv_wnd]

Nothing(p) == [pcb |-> p, data |-> <<>>, fin |-> FALSE, ok |-> TRUE]

\* A slip: the payload pointer stays where it was.
TrimLeftLength(p, s) ==
    IF Between(p.rcv_nxt, Plus(s.seqno, 1), Plus(s.seqno, TcpLen(s) + SeqSize - 1))
    THEN LET off == Minus(p.rcv_nxt, s.seqno)
         IN [s EXCEPT !.seqno = p.rcv_nxt, !.len = @ - off, !.tot = @ - off]
    ELSE s

\* The bytes before rcv_nxt are cut off by moving the payload pointer.
TrimLeft(p, s) ==
    IF Between(p.rcv_nxt, Plus(s.seqno, 1), Plus(s.seqno, TcpLen(s) + SeqSize - 1))
    THEN LET off == Minus(p.rcv_nxt, s.seqno)
         IN [s EXCEPT !.seqno = p.rcv_nxt, !.len = @ - off, !.from = @ + off, !.tot = @ - off]
    ELSE s

\* tcp_receive, from the incoming data on, and tcp_process's passive close.
Receive(p, s0) ==
    LET inWindow(x) == Between(x.seqno, p.rcv_nxt, Plus(p.rcv_nxt, p.rcv_wnd + SeqSize - 1))
        s == TrimLeft(p, s0)
        q == IF SeqLt(s.seqno, p.rcv_nxt) THEN AckNow(p) ELSE p
        r == InOrder(q, s)
    IN IF TcpLen(s0) = 0 \/ p.closing
       THEN Nothing(IF inWindow(s0) THEN p ELSE AckNow(p))
       ELSE IF ~ inWindow(s) THEN Nothing(SendEmptyAck(q))
       ELSE IF s.seqno # p.rcv_nxt
       THEN Nothing([SendEmptyAck(q) EXCEPT !.ooseq = QueueEarly(p, s)])
       ELSE IF r.fin THEN [r EXCEPT !.pcb = AckNow([r.pcb EXCEPT !.closing = TRUE])]
       ELSE r
----------------------------------------------------------------------------
NoData == [bytes |-> <<>>, fin |-> FALSE]

\* A slip: the FIN keeps its place in the window.
AcceptKeepsFin(p, d, fin, inInput) ==
    LET later == ReadsLater
        q == IF later \/ d = <<>> THEN p ELSE Recved(p, Len(d), inInput)
    IN /\ stream' = stream \o d
       /\ unread' = IF later THEN unread + Len(d) ELSE unread
       /\ eof' = eof + Flag(fin)
       /\ refused' = NoData
       /\ pcb' = IF inInput THEN Output(q) ELSE q

\* The callbacks of tcp_input: bytes d, and after them the end if fin.  The
\* FIN's place in the window is given back, as nobody will read it.
Accept(p, d, fin, inInput) ==
    LET later == ReadsLater
        q == IF later \/ d = <<>> THEN p ELSE Recved(p, Len(d), inInput)
        r == IF fin /\ q.rcv_wnd # Wnd THEN [q EXCEPT !.rcv_wnd = @ + 1] ELSE q
    IN /\ stream' = stream \o d
       /\ unread' = IF later THEN unread + Len(d) ELSE unread
       /\ eof' = eof + Flag(fin)
       /\ refused' = NoData
       /\ pcb' = IF inInput THEN Output(r) ELSE r

\* A slip: the FIN that comes with refused bytes is not remembered.
RefuseForgetsFin(p, d, fin) ==
    /\ refused' = [bytes |-> d, fin |-> FALSE]
    /\ pcb' = Output(p)
    /\ UNCHANGED <<stream, unread, eof>>

Refuse(p, d, fin) ==
    /\ refused' = [bytes |-> d, fin |-> fin]
    /\ pcb' = Output(p)
    /\ UNCHANGED <<stream, unread, eof>>

\* Segments that the sender may have sent: within the window announced, or a
\* byte more as a probe of a closed window.
Cut(from, len, fin) ==
    [seqno |-> SeqNo(from), len |-> len, fin |-> fin, from |-> from, tot |-> len]

Sendable ==
    LET edge == Pos(pcb.ann_edge)
        limit == Min2(Bytes, IF pcb.ann_edge = pcb.rcv_nxt THEN edge + 1 ELSE edge)
    IN {s \in {Cut(from, len, fin) : from \in 0..limit, len \in 0..limit, fin \in BOOLEAN} :
          /\ s.from + s.len <= limit
          /\ s.fin => s.from + s.len = Bytes /\ (FinBeyond \/ Bytes < edge)}

\* tcp_input for a segment of this connection.  Data that were refused are
\* offered first, and as long as they stay refused no more are taken.
ArriveSegment(s) ==
    LET r == Receive(pcb, s)
    IN /\ ~ failed /\ refused.bytes = <<>>
       /\ TcpLen(s) > 0
       /\ failed' = ~ r.ok
       /\ \/ Accept(r.pcb, r.data, r.fin, TRUE)
          \/ MayRefuse /\ r.data # <<>> /\ Refuse(r.pcb, r.data, r.fin)
       /\ UNCHANGED isn

Arrive == \E s \in Sendable : ArriveSegment(s)

ArriveEmpty ==
    /\ ~ failed
    /\ \E s \in Sendable :
         /\ TcpLen(s) = 0
         /\ pcb' = Output(Receive(pcb, s).pcb)
    /\ UNCHANGED <<isn, refused, stream, unread, eof, failed>>

\* tcp_process_refused_data, from tcp_fasttmr or before the next segment;
\* a segment that comes while the data are refused again is dropped.
OfferAgain ==
    /\ ~ failed
    /\ refused.bytes # <<>>
    /\ Accept(pcb, refused.bytes, refused.fin, FALSE)
    /\ UNCHANGED <<isn, failed>>

\* tcp_fasttmr: a delayed acknowledgement is sent.
FastTimer ==
    /\ ~ failed
    /\ "delay" \in pcb.ack
    /\ pcb' = SendEmptyAck(pcb)
    /\ UNCHANGED <<isn, refused, stream, unread, eof, failed>>

\* The application has read n bytes.
Read ==
    /\ ~ failed
    /\ \E n \in 1..unread :
         /\ pcb' = Recved(pcb, n, FALSE)
         /\ unread' = unread - n
    /\ UNCHANGED <<isn, refused, stream, eof, failed>>
----------------------------------------------------------------------------
\* tcp_alloc and tcp_listen_input; the SYN-ACK has announced the window.
Init ==
    /\ isn \in Isn
    /\ pcb = [rcv_nxt |-> isn, rcv_wnd |-> Wnd, ann_edge |-> (isn + Wnd) % SeqSize,
              ann_wnd |-> Wnd, ooseq |-> <<>>, ack |-> {}, closing |-> FALSE]
    /\ refused = NoData
    /\ stream = <<>> /\ unread = 0 /\ eof = 0
    /\ failed = FALSE

Next == Arrive \/ ArriveEmpty \/ OfferAgain \/ FastTimer \/ Read

Spec == Init /\ [][Next]_vars

\* Segments that are due and find room.
Due == {s \in Sendable : s.seqno = pcb.rcv_nxt /\ TcpLen(s) > 0 /\ pcb.rcv_wnd > 0}

CanArrive == ~ failed /\ refused.bytes = <<>> /\ Due # {}

\* The sender repeats what is not acknowledged and probes a closed window, and
\* of what it repeats not everything is lost: strong fairness of the network,
\* with ENABLED written out.  The timer runs, and the application takes and
\* reads its bytes in the end.
Fairness ==
    /\ []<>CanArrive => []<><<\E s \in Due : ArriveSegment(s)>>_vars
    /\ WF_vars(OfferAgain \/ FastTimer) /\ WF_vars(Read)

FairSpec == Spec /\ Fairness
----------------------------------------------------------------------------
\* The application gets the bytes of the stream in order, each once, and the
\* end only after the last of them, however segments are cut, repeated, early
\* or refused (tcp_in.c:1135-1152).
StreamInOrder ==
    /\ stream \o refused.bytes = [i \in 1..Len(stream \o refused.bytes) |-> i - 1]
    /\ eof <= 1
    /\ eof = 1 => Len(stream) = Bytes
    /\ refused.fin => Len(stream \o refused.bytes) = Bytes

\* What has been acknowledged, or will be with the next segment, is with the
\* application or kept for it: the sender forgets it.  The window is what the
\* application has not read yet, no more and no less, so that it opens fully
\* again; and there is room for all that was announced.
Accounted ==
    /\ Pos(pcb.rcv_nxt) = Len(stream \o refused.bytes) + Flag(pcb.closing)
    /\ pcb.rcv_wnd + unread + Len(refused.bytes) + Flag(pcb.closing /\ eof = 0) = Wnd
    /\ Pos(pcb.ann_edge) <= Pos(pcb.rcv_nxt) + pcb.rcv_wnd

\* ooseq is sorted, without overlaps and ahead of what is due, the FIN is on
\* its last segment and at the end of the stream, and its bytes have room: the
\* assertion of tcp_receive "ooseq tcplen > rcv_wnd" holds (tcp_in.c:1339).
OoseqSane ==
    LET q == pcb.ooseq
    IN /\ \A i \in DOMAIN q :
            /\ Pos(pcb.rcv_nxt) < Pos(q[i].seqno)
            /\ Pos(q[i].seqno) = q[i].from /\ q[i].len = q[i].tot
            /\ i < Len(q) => Pos(End(q[i])) <= Pos(q[i + 1].seqno)
            /\ q[i].fin => i = Len(q) /\ Pos(End(q[i])) = Bytes
       /\ ~ failed

\* The right edge of the window is never moved back: the sender may already
\* have used what it was promised.
EdgeNeverShrinks == [][Pos(pcb.ann_edge') >= Pos(pcb.ann_edge)]_vars

\* Whatever is lost, refused and left unread for a while, all bytes and the
\* end arrive: no window stays closed and nothing is acknowledged unkept.
AllArrives == <>(eof = 1)
=============================================================================
