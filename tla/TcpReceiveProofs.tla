-------------------------- MODULE TcpReceiveProofs --------------------------
(***************************************************************************)
(* One receiving connection, for streams, windows and segments of any size *)
(* cut, repeated and refused in any way, as long as the numbers of the     *)
(* stream do not wrap around.                                              *)
(***************************************************************************)
EXTENDS TcpReceive, SequenceLemmas

\* Numbers from b on, the first of a stream, do not wrap around.  Where they
\* do, OverrunsWindow may be wrong.
Base(b) == b \in Nat /\ b + Bytes + Wnd + 1 < SeqSize

NoWrap == \A b \in Isn : Base(b)

\* A segment of the stream that begins with the number b.
SegmentAt(b, s) ==
    /\ s \in Segment
    /\ s.seqno = b + s.from /\ s.len = s.tot
    /\ s.from + s.len <= Bytes
    /\ s.fin => s.from + s.len = Bytes
    /\ TcpLen(s) > 0

\* A sorted queue of them behind the place low and up to the place right.
QueueAt(b, q, low, right) ==
    /\ q \in Seq(Segment)
    /\ \A i \in DOMAIN q :
         /\ SegmentAt(b, q[i])
         /\ low < q[i].from
         /\ q[i].from + TcpLen(q[i]) <= right
         /\ q[i].fin => i = Len(q)
    /\ \A i, j \in DOMAIN q : i < j => q[i].from + q[i].len <= q[j].from

\* A connection that has got as far as x, whose window keeps the last promise.
OpenAt(b, p, x) ==
    /\ p \in Pcb
    /\ p.rcv_nxt = b + x
    /\ b <= p.ann_edge /\ p.ann_edge <= b + x + p.rcv_wnd
    /\ QueueAt(b, p.ooseq, x, x + p.rcv_wnd)

\* The next promise keeps the last one too.
PcbAt(b, p, x) ==
    /\ OpenAt(b, p, x)
    /\ p.ann_wnd <= p.rcv_wnd
    /\ p.ann_edge <= b + x + p.ann_wnd

\* The n bytes of the stream from x on.
Run(x, n) == [j \in 1..n |-> x + j - 1]

\* A connection p whose next bytes d, and the end after them if fin, are not
\* with the application yet: with them it has a beginning of the stream, which
\* is what p has acknowledged, and the window is what it has not read.
Holding(p, d, fin) ==
    LET got == stream \o d
    IN /\ d \in Seq(Nat) /\ fin \in BOOLEAN
       /\ got = Run(0, Len(got)) /\ Len(got) <= Bytes
       /\ PcbAt(isn, p, Len(got) + Flag(p.closing))
       /\ p.closing => Len(got) = Bytes /\ p.ooseq = <<>>
       /\ eof + Flag(fin) = Flag(p.closing) /\ (eof = 1 => d = <<>>)
       /\ p.rcv_wnd + unread + Len(d) + Flag(fin) = Wnd

IInv ==
    /\ TypeOK
    /\ Holding(pcb, refused.bytes, refused.fin)
    /\ refused.fin => refused.bytes # <<>>
    /\ ~ failed

\* ---- Numbers ----

LEMMA Divides ==
  ASSUME NEW n \in Nat, n > 0, NEW a \in Nat
  PROVE  /\ a < n => a % n = a
         /\ n <= a /\ a < 2 * n => a % n = a - n
  OBVIOUS

\* Numbers from b on are what they would be without the modulus.
LEMMA PlusAt ==
  ASSUME NEW b, Base(b), NEW x \in Nat, NEW n \in Nat, x + n <= Bytes + Wnd + 1
  PROVE  Plus(b + x, n) = b + x + n
<1>1. b \in Nat /\ SeqSize \in Nat /\ SeqSize > 0 /\ b + x + n < SeqSize
  BY ConstantsAssumption DEF Base
<1>2. (b + x + n) % SeqSize = b + x + n
  BY <1>1, Divides
<1> QED BY <1>2 DEF Plus

LEMMA BackAt ==
  ASSUME NEW b, Base(b), NEW x \in Nat, NEW n \in Nat \ {0}, x + n <= Bytes + Wnd + 1
  PROVE  Plus(b + x, n + SeqSize - 1) = b + x + n - 1
<1>1. /\ b \in Nat /\ SeqSize \in Nat /\ SeqSize > 0 /\ b + x + n < SeqSize
      /\ b + x + (n + SeqSize - 1) \in Nat
      /\ SeqSize <= b + x + (n + SeqSize - 1) /\ b + x + (n + SeqSize - 1) < 2 * SeqSize
      /\ b + x + (n + SeqSize - 1) - SeqSize = b + x + n - 1
  BY ConstantsAssumption DEF Base
<1>2. (b + x + (n + SeqSize - 1)) % SeqSize = b + x + n - 1
  BY <1>1, Divides
<1> QED BY <1>2 DEF Plus

LEMMA MinusAt ==
  ASSUME NEW b, Base(b), NEW x \in 0..Bytes + Wnd + 1, NEW y \in 0..Bytes + Wnd + 1
  PROVE  Minus(b + x, b + y) = IF y <= x THEN x - y ELSE SeqSize - (y - x)
<1>1. b \in Nat /\ SeqSize \in Nat /\ SeqSize > 0 /\ b + Bytes + Wnd + 1 < SeqSize
  BY ConstantsAssumption DEF Base
<1>2. x \in Nat /\ y \in Nat /\ Bytes \in Nat /\ Wnd \in Nat
  BY ConstantsAssumption
<1> DEFINE d == b + x + SeqSize - (b + y)
<1>3. d = SeqSize + x - y /\ d \in Nat
  BY <1>1, <1>2
<1> HIDE DEF d
<1>4. CASE y <= x
  <2>1. SeqSize <= d /\ d < 2 * SeqSize /\ d - SeqSize = x - y
    BY <1>1, <1>2, <1>3, <1>4
  <2>2. d % SeqSize = x - y
    BY <1>1, <1>3, <2>1, Divides
  <2> QED BY <1>4, <2>2 DEF Minus, d
<1>5. CASE ~ (y <= x)
  <2>1. d < SeqSize /\ d = SeqSize - (y - x)
    BY <1>1, <1>2, <1>3, <1>5
  <2>2. d % SeqSize = d
    BY <1>1, <1>3, <2>1, Divides
  <2> QED BY <1>5, <2>1, <2>2 DEF Minus, d
<1> QED BY <1>4, <1>5

\* TCP_SEQ_LT and TCP_SEQ_LEQ compare places of the stream.
LEMMA LtAt ==
  ASSUME NEW b, Base(b), NEW x \in 0..Bytes + Wnd + 1, NEW y \in 0..Bytes + Wnd + 1
  PROVE  /\ SeqLt(b + x, b + y) <=> x < y
         /\ SeqLeq(b + x, b + y) <=> x <= y
<1>1. /\ SeqSize \in Nat /\ SeqSize > 2 * (Bytes + Wnd + 2) /\ Bytes \in Nat /\ Wnd \in Nat
      /\ b \in Nat
  BY ConstantsAssumption DEF Base
<1>2. SeqSize \div 2 \in Nat /\ SeqSize \div 2 >= Bytes + Wnd + 2 /\ 2 * (SeqSize \div 2) <= SeqSize
  BY <1>1
<1>3. SeqLt(b + x, b + y) <=> x < y
  <2> DEFINE d == Minus(b + x, b + y)
             h == SeqSize \div 2
  <2>1. d = IF y <= x THEN x - y ELSE SeqSize - (y - x)
    BY MinusAt
  <2>2. h \in Nat /\ h >= Bytes + Wnd + 2 /\ 2 * h <= SeqSize
    BY <1>2
  <2>3. SeqLt(b + x, b + y) <=> d >= h
    BY DEF SeqLt
  <2> HIDE DEF d, h
  <2> QED BY <1>1, <2>1, <2>2, <2>3
<1> QED BY <1>1, <1>3 DEF SeqLeq

LEMMA Half ==
  /\ SeqSize \div 2 \in Nat
  /\ \A n \in 0..Bytes + Wnd + 1 : ~ (n >= SeqSize \div 2)
<1>1. SeqSize \in Nat /\ SeqSize > 2 * (Bytes + Wnd + 2) /\ Bytes \in Nat /\ Wnd \in Nat
  BY ConstantsAssumption
<1>2. SeqSize \div 2 \in Nat /\ SeqSize \div 2 >= Bytes + Wnd + 2
  BY <1>1
<1> DEFINE h == SeqSize \div 2
<1>3. h \in Nat /\ h >= Bytes + Wnd + 2
  BY <1>2
<1> HIDE DEF h
<1>4. \A n \in 0..Bytes + Wnd + 1 : ~ (n >= h)
  BY <1>1, <1>3
<1> QED BY <1>2, <1>4 DEF h

\* The test for the window is one, a closed window being empty.
LEMMA InWindow ==
  ASSUME NEW b, Base(b), NEW x \in 0..Bytes + 1, NEW w \in 0..Wnd,
         NEW y \in 0..Bytes + 1
  PROVE  Between(b + y, b + x, Plus(b + x, w + SeqSize - 1)) <=> x <= y /\ y < x + w
<1>1. /\ SeqSize \in Nat /\ SeqSize > 2 * (Bytes + Wnd + 2) /\ Bytes \in Nat /\ Wnd \in Nat \ {0}
      /\ b \in Nat /\ b + Bytes + Wnd + 1 < SeqSize
  BY ConstantsAssumption DEF Base
<1>2. x \in 0..Bytes + Wnd + 1 /\ x \in Nat /\ y \in 0..Bytes + Wnd + 1
  BY <1>1
<1>3. SeqLeq(b + x, b + y) <=> x <= y
  BY <1>2, LtAt
<1>4. CASE w > 0
  <2>1. Plus(b + x, w + SeqSize - 1) = b + (x + w - 1)
    <3>1. w \in Nat \ {0} /\ x \in Nat /\ x + w <= Bytes + Wnd + 1
      BY <1>1, <1>2, <1>4
    <3>2. Plus(b + x, w + SeqSize - 1) = b + x + w - 1
      BY <3>1, BackAt
    <3> QED BY <1>1, <3>1, <3>2
  <2>2. x + w - 1 \in 0..Bytes + Wnd + 1
    BY <1>1, <1>2, <1>4
  <2>3. SeqLeq(b + y, b + (x + w - 1)) <=> y <= x + w - 1
    BY <1>2, <2>2, LtAt
  <2> QED BY <1>1, <1>2, <1>3, <2>1, <2>2, <2>3 DEF Between
<1>5. CASE w = 0 /\ x > 0
  <2>1. Plus(b + x, w + SeqSize - 1) = b + (x - 1)
    <3>1. /\ b + x + (w + SeqSize - 1) \in Nat
          /\ SeqSize <= b + x + (w + SeqSize - 1) /\ b + x + (w + SeqSize - 1) < 2 * SeqSize
          /\ b + x + (w + SeqSize - 1) - SeqSize = b + (x - 1)
      BY <1>1, <1>2, <1>5
    <3> QED BY <1>1, <3>1, Divides DEF Plus
  <2>2. x - 1 \in 0..Bytes + Wnd + 1
    BY <1>1, <1>2, <1>5
  <2>3. SeqLeq(b + y, b + (x - 1)) <=> y <= x - 1
    BY <1>2, <2>2, LtAt
  <2> QED BY <1>1, <1>2, <1>3, <1>5, <2>1, <2>3 DEF Between
<1>6. CASE w = 0 /\ x = 0 /\ b > 0
  <2>1. Plus(b + x, w + SeqSize - 1) = b - 1
    <3>1. /\ b + x + (w + SeqSize - 1) \in Nat
          /\ SeqSize <= b + x + (w + SeqSize - 1) /\ b + x + (w + SeqSize - 1) < 2 * SeqSize
          /\ b + x + (w + SeqSize - 1) - SeqSize = b - 1
      BY <1>1, <1>2, <1>6
    <3> QED BY <1>1, <3>1, Divides DEF Plus
  <2>2. ~ SeqLeq(b + y, b - 1)
    <3> DEFINE d == b + y + SeqSize - (b - 1)
    <3>1. d \in Nat /\ SeqSize <= d /\ d < 2 * SeqSize /\ d - SeqSize = y + 1
      BY <1>1, <1>6
    <3> HIDE DEF d
    <3>2. d % SeqSize = y + 1
      BY <1>1, <3>1, Divides
    <3>3. Minus(b + y, b - 1) = y + 1
      BY <3>2 DEF Minus, d
    <3>4. ~ (y + 1 >= SeqSize \div 2)
      <4>1. y + 1 \in 0..Bytes + Wnd + 1
        BY <1>1, <1>2, <1>6
      <4> QED BY <4>1, Half
    <3>5. b + y # b - 1
      BY <1>1
    <3> QED BY <3>3, <3>4, <3>5 DEF SeqLeq, SeqLt
  <2> QED BY <1>1, <1>6, <2>1, <2>2 DEF Between
<1>7. CASE w = 0 /\ x = 0 /\ b = 0
  <2>1. Plus(b + x, w + SeqSize - 1) = SeqSize - 1
    <3>1. /\ b + x + (w + SeqSize - 1) = SeqSize - 1
          /\ SeqSize - 1 \in Nat /\ SeqSize - 1 < SeqSize /\ SeqSize > 0
      BY <1>1, <1>7
    <3>2. (SeqSize - 1) % SeqSize = SeqSize - 1
      BY <1>1, <3>1, Divides
    <3> QED BY <3>1, <3>2 DEF Plus
  <2>2. ~ SeqLeq(b + y, SeqSize - 1)
    <3>1. (b + y) + SeqSize - (SeqSize - 1) = y + 1 /\ y + 1 \in Nat /\ y + 1 < SeqSize /\ SeqSize > 0
      BY <1>1, <1>7
    <3>2. (y + 1) % SeqSize = y + 1
      BY <1>1, <3>1, Divides
    <3>3. Minus(b + y, SeqSize - 1) = y + 1
      BY <3>1, <3>2 DEF Minus
    <3>4. ~ (y + 1 >= SeqSize \div 2)
      <4>1. y + 1 \in 0..Bytes + Wnd + 1
        BY <1>1, <1>2, <1>7
      <4> QED BY <4>1, Half
    <3>5. b + y # SeqSize - 1
      BY <1>1, <1>7
    <3> QED BY <3>3, <3>4, <3>5 DEF SeqLeq, SeqLt
  <2> QED BY <1>1, <1>7, <2>1, <2>2 DEF Between
<1> QED BY <1>1, <1>2, <1>4, <1>5, <1>6, <1>7

\* ---- The connection ----

\* What only the acknowledgement flags and the promise tell apart.
Alike(p, q) ==
    /\ q \in Pcb
    /\ q.rcv_nxt = p.rcv_nxt /\ q.rcv_wnd = p.rcv_wnd
    /\ q.ooseq = p.ooseq /\ q.closing = p.closing
    /\ p.ann_edge <= q.ann_edge

LEMMA AckNowFields ==
  ASSUME NEW p \in Pcb
  PROVE  /\ Alike(p, AckNow(p)) /\ AckNow(p).ann_edge = p.ann_edge
         /\ AckNow(p).ann_wnd = p.ann_wnd
<1> DEFINE q == AckNow(p)
<1>1. q \in Pcb
  BY DEF AckNow, Pcb
<1>2. /\ q.rcv_nxt = p.rcv_nxt /\ q.rcv_wnd = p.rcv_wnd /\ q.ann_edge = p.ann_edge
      /\ q.ann_wnd = p.ann_wnd /\ q.ooseq = p.ooseq /\ q.closing = p.closing
  BY DEF AckNow, Pcb
<1>3. p.ann_edge \in Nat
  BY ConstantsAssumption DEF Pcb
<1> HIDE DEF q
<1> QED BY <1>1, <1>2, <1>3 DEF Alike, q

LEMMA AckFields ==
  ASSUME NEW p \in Pcb
  PROVE  /\ Alike(p, Ack(p)) /\ Ack(p).ann_edge = p.ann_edge
         /\ Ack(p).ann_wnd = p.ann_wnd
<1> DEFINE q == Ack(p)
<1>1. q \in Pcb
  BY DEF Ack, Pcb
<1>2. /\ q.rcv_nxt = p.rcv_nxt /\ q.rcv_wnd = p.rcv_wnd /\ q.ann_edge = p.ann_edge
      /\ q.ann_wnd = p.ann_wnd /\ q.ooseq = p.ooseq /\ q.closing = p.closing
  BY DEF Ack, Pcb
<1>3. p.ann_edge \in Nat
  BY ConstantsAssumption DEF Pcb
<1> HIDE DEF q
<1> QED BY <1>1, <1>2, <1>3 DEF Alike, q

\* A connection like one that keeps its promises keeps them too, unless it has
\* promised more.
LEMMA AlikeAt ==
  ASSUME NEW b, NEW x, NEW p, NEW q, PcbAt(b, p, x), Alike(p, q),
         q.ann_edge <= b + x + q.ann_wnd, q.ann_wnd = p.ann_wnd, Base(b), x \in 0..Bytes + 1
  PROVE  PcbAt(b, q, x)
<1>1. /\ b <= p.ann_edge /\ p.ann_edge \in Nat /\ q.ann_edge \in Nat /\ b \in Nat /\ x \in Nat
      /\ q.ann_wnd \in Nat /\ q.rcv_wnd \in Nat
  BY ConstantsAssumption DEF PcbAt, OpenAt, Alike, Pcb, Base
<1> QED BY <1>1 DEF PcbAt, OpenAt, Alike

LEMMA SendEmptyAckAt ==
  ASSUME NEW b, Base(b), NEW x \in 0..Bytes + 1, NEW p, PcbAt(b, p, x)
  PROVE  PcbAt(b, SendEmptyAck(p), x) /\ Alike(p, SendEmptyAck(p))
<1> DEFINE q == SendEmptyAck(p)
<1>1. /\ p \in Pcb /\ p.rcv_nxt = b + x /\ p.ann_wnd \in 0..Wnd /\ p.ann_edge \in Nat
      /\ p.ann_edge <= b + x + p.ann_wnd
      /\ b \in Nat /\ x \in Nat /\ Wnd \in Nat /\ Bytes \in Nat /\ SeqSize \in Nat
      /\ b + Bytes + Wnd + 1 < SeqSize
  BY ConstantsAssumption DEF PcbAt, OpenAt, Pcb, Base
<1>2. Plus(p.rcv_nxt, p.ann_wnd) = b + x + p.ann_wnd
  BY <1>1, PlusAt
<1>3. b + x + p.ann_wnd \in 0..SeqSize - 1
  BY <1>1
<1>4. q \in Pcb
  BY <1>1, <1>2, <1>3 DEF SendEmptyAck, Pcb
<1>5. /\ q.rcv_nxt = p.rcv_nxt /\ q.rcv_wnd = p.rcv_wnd /\ q.ann_edge = b + x + p.ann_wnd
      /\ q.ann_wnd = p.ann_wnd /\ q.ooseq = p.ooseq /\ q.closing = p.closing
  BY <1>1, <1>2 DEF SendEmptyAck, Pcb
<1> HIDE DEF q
<1>6. Alike(p, q) /\ q.ann_edge <= b + x + q.ann_wnd
  BY <1>1, <1>4, <1>5 DEF Alike
<1> QED BY <1>5, <1>6, AlikeAt DEF q

LEMMA AckNowAt ==
  ASSUME NEW b, Base(b), NEW x \in 0..Bytes + 1, NEW p, PcbAt(b, p, x)
  PROVE  PcbAt(b, AckNow(p), x) /\ Alike(p, AckNow(p))
<1>1. p \in Pcb /\ p.ann_edge <= b + x + p.ann_wnd
  BY DEF PcbAt, OpenAt
<1> QED BY <1>1, AckNowFields, AlikeAt

LEMMA AckAt ==
  ASSUME NEW b, Base(b), NEW x \in 0..Bytes + 1, NEW p, PcbAt(b, p, x)
  PROVE  PcbAt(b, Ack(p), x) /\ Alike(p, Ack(p))
<1>1. p \in Pcb /\ p.ann_edge <= b + x + p.ann_wnd
  BY DEF PcbAt, OpenAt
<1> QED BY <1>1, AckFields, AlikeAt

LEMMA OutputAt ==
  ASSUME NEW b, Base(b), NEW x \in 0..Bytes + 1, NEW p, PcbAt(b, p, x)
  PROVE  PcbAt(b, Output(p), x) /\ Alike(p, Output(p))
<1>1. Alike(p, p)
  BY ConstantsAssumption DEF PcbAt, OpenAt, Alike, Pcb
<1> QED BY <1>1, SendEmptyAckAt DEF Output

\* The window that is announced next never takes back what was announced.
LEMMA UpdateAnnWndAt ==
  ASSUME NEW b, Base(b), NEW x \in 0..Bytes + 1, NEW p, OpenAt(b, p, x)
  PROVE  PcbAt(b, UpdateAnnWnd(p), x) /\ Alike(p, UpdateAnnWnd(p))
<1> DEFINE v == IF MoreWindow(p) THEN p.rcv_wnd
                ELSE IF SeqLt(p.ann_edge, p.rcv_nxt) THEN 0
                ELSE Minus(p.ann_edge, p.rcv_nxt)
           q == UpdateAnnWnd(p)
           e == p.ann_edge - b
<1>1. /\ p \in Pcb /\ p.rcv_nxt = b + x /\ p.rcv_wnd \in 0..Wnd /\ p.ann_edge \in Nat
      /\ b <= p.ann_edge /\ p.ann_edge <= b + x + p.rcv_wnd
      /\ b \in Nat /\ x \in Nat /\ Wnd \in Nat /\ Bytes \in Nat /\ SeqSize \in Nat
  BY ConstantsAssumption DEF OpenAt, Pcb, Base
<1>2. e \in 0..Bytes + Wnd + 1 /\ p.ann_edge = b + e /\ e <= x + p.rcv_wnd
      /\ x \in 0..Bytes + Wnd + 1
  BY <1>1
<1> HIDE DEF e
<1>3. (SeqLt(p.ann_edge, p.rcv_nxt) <=> e < x) /\ (x <= e => Minus(p.ann_edge, p.rcv_nxt) = e - x)
  BY <1>1, <1>2, LtAt, MinusAt
<1>4. v \in 0..Wnd /\ v <= p.rcv_wnd /\ e <= x + v
  <2>1. CASE MoreWindow(p)
    BY <1>1, <1>2, <2>1
  <2>2. CASE ~ MoreWindow(p)
    <3>1. v = IF e < x THEN 0 ELSE e - x
      BY <1>1, <1>2, <1>3, <2>2
    <3> HIDE DEF v
    <3> QED BY <1>1, <1>2, <3>1
  <2> QED BY <2>1, <2>2
<1>5. q = [p EXCEPT !.ann_wnd = v]
  BY DEF UpdateAnnWnd
<1> HIDE DEF v, q
<1>6. q \in Pcb
  BY <1>1, <1>4, <1>5 DEF Pcb
<1>7. /\ q.rcv_nxt = p.rcv_nxt /\ q.rcv_wnd = p.rcv_wnd /\ q.ann_edge = p.ann_edge
      /\ q.ann_wnd = v /\ q.ooseq = p.ooseq /\ q.closing = p.closing
  BY <1>1, <1>5 DEF Pcb
<1>8. p.ann_edge <= b + x + v
  BY <1>1, <1>2, <1>4
<1>9. Alike(p, q)
  BY <1>1, <1>6, <1>7 DEF Alike
<1>10. PcbAt(b, q, x)
  BY <1>4, <1>6, <1>7, <1>8 DEF PcbAt, OpenAt
<1> QED BY <1>9, <1>10 DEF q

\* A window that opens further holds what it held.
LEMMA WiderQueue ==
  ASSUME NEW b, NEW q, NEW low, NEW right \in Nat, NEW wider \in Nat, right <= wider,
         QueueAt(b, q, low, right)
  PROVE  QueueAt(b, q, low, wider)
<1>1. \A i \in DOMAIN q : q[i].from + TcpLen(q[i]) <= wider
  <2> SUFFICES ASSUME NEW i \in DOMAIN q PROVE q[i].from + TcpLen(q[i]) <= wider
    OBVIOUS
  <2>1. q[i] \in Segment /\ q[i].from + TcpLen(q[i]) <= right
    BY DEF QueueAt, SegmentAt
  <2>2. q[i].from \in Nat /\ TcpLen(q[i]) \in Nat
    BY <2>1 DEF Segment, TcpLen, Flag
  <2> HIDE DEF QueueAt
  <2> QED BY <2>1, <2>2
<1> QED BY <1>1 DEF QueueAt

\* tcp_recved gives back what it is told, which fits the window.
LEMMA RecvedAt ==
  ASSUME NEW b, Base(b), NEW x \in 0..Bytes + 1, NEW p, PcbAt(b, p, x),
         NEW n \in Nat, p.rcv_wnd + n <= Wnd, NEW inInput
  PROVE  /\ PcbAt(b, Recved(p, n, inInput), x)
         /\ Recved(p, n, inInput).rcv_wnd = p.rcv_wnd + n
         /\ Recved(p, n, inInput).ooseq = p.ooseq
         /\ Recved(p, n, inInput).closing = p.closing
         /\ p.ann_edge <= Recved(p, n, inInput).ann_edge
<1> DEFINE q == [p EXCEPT !.rcv_wnd = Min2(@ + n, Wnd)]
           r == UpdateAnnWnd(q)
<1>1. /\ p \in Pcb /\ p.rcv_nxt = b + x /\ p.rcv_wnd \in 0..Wnd /\ p.ann_edge \in Nat
      /\ b <= p.ann_edge /\ p.ann_edge <= b + x + p.rcv_wnd
      /\ QueueAt(b, p.ooseq, x, x + p.rcv_wnd)
      /\ b \in Nat /\ x \in Nat /\ Wnd \in Nat /\ Bytes \in Nat
  BY ConstantsAssumption DEF PcbAt, OpenAt, Pcb, Base
<1>2. Min2(p.rcv_wnd + n, Wnd) = p.rcv_wnd + n /\ p.rcv_wnd + n \in 0..Wnd
  BY <1>1 DEF Min2
<1>3. q \in Pcb
  BY <1>1, <1>2 DEF Pcb
<1>4. /\ q.rcv_nxt = p.rcv_nxt /\ q.rcv_wnd = p.rcv_wnd + n /\ q.ann_edge = p.ann_edge
      /\ q.ooseq = p.ooseq /\ q.closing = p.closing
  BY <1>1, <1>2 DEF Pcb
<1>5. Recved(p, n, inInput) \in {r, AckNow(r), Output(AckNow(r))}
  BY DEF Recved
<1> HIDE DEF q
<1>6. OpenAt(b, q, x)
  <2>1. QueueAt(b, q.ooseq, x, x + q.rcv_wnd)
    <3>1. x + p.rcv_wnd \in Nat /\ x + (p.rcv_wnd + n) \in Nat /\ x + p.rcv_wnd <= x + (p.rcv_wnd + n)
      BY <1>1
    <3> QED BY <1>1, <1>4, <3>1, WiderQueue
  <2>2. q.ann_edge <= b + x + q.rcv_wnd
    BY <1>1, <1>4
  <2> QED BY <1>1, <1>3, <1>4, <2>1, <2>2 DEF OpenAt
<1>7. PcbAt(b, r, x) /\ Alike(q, r)
  BY <1>6, UpdateAnnWndAt
<1> HIDE DEF r
<1>8. PcbAt(b, AckNow(r), x) /\ Alike(r, AckNow(r))
  BY <1>7, AckNowAt
<1>9. PcbAt(b, Output(AckNow(r)), x) /\ Alike(AckNow(r), Output(AckNow(r)))
  BY <1>8, OutputAt
<1>10. /\ r.ann_edge \in Nat /\ AckNow(r).ann_edge \in Nat /\ Output(AckNow(r)).ann_edge \in Nat
  BY <1>7, <1>8, <1>9, ConstantsAssumption DEF Alike, Pcb
<1>11. Alike(q, AckNow(r)) /\ Alike(q, Output(AckNow(r)))
  BY <1>1, <1>4, <1>7, <1>8, <1>9, <1>10 DEF Alike
<1>12. PcbAt(b, Recved(p, n, inInput), x) /\ Alike(q, Recved(p, n, inInput))
  BY <1>5, <1>7, <1>8, <1>9, <1>11
<1> QED BY <1>4, <1>12 DEF Alike

\* ---- ooseq ----

LEMMA SegmentNumbers ==
  ASSUME NEW b, NEW s, SegmentAt(b, s)
  PROVE  /\ s.from \in Nat /\ s.len \in Nat /\ s.tot \in Nat /\ s.fin \in BOOLEAN
         /\ TcpLen(s) \in Nat /\ TcpLen(s) = s.len + (IF s.fin THEN 1 ELSE 0)
         /\ ~ s.fin => s.len > 0
         /\ s.from + s.len <= Bytes /\ s.from + TcpLen(s) <= Bytes + 1
<1>1. s.from \in Nat /\ s.len \in Nat /\ s.tot \in Nat /\ s.fin \in BOOLEAN
  BY DEF SegmentAt, Segment
<1>2. TcpLen(s) = s.len + (IF s.fin THEN 1 ELSE 0) /\ TcpLen(s) \in Nat
  BY <1>1 DEF TcpLen, Flag
<1> QED BY <1>1, <1>2, ConstantsAssumption DEF SegmentAt

\* A part of a queue is a queue, which ends in a FIN only if it is the last.
LEMMA PartOfQueue ==
  ASSUME NEW b, NEW q, NEW low, NEW right, QueueAt(b, q, low, right),
         NEW m \in 1..Len(q) + 1, NEW n \in 0..Len(q)
  PROVE  /\ QueueAt(b, SubSeq(q, m, n), low, right)
         /\ Len(SubSeq(q, m, n)) = IF m <= n THEN n - m + 1 ELSE 0
         /\ \A i \in DOMAIN SubSeq(q, m, n) :
              i \in Nat \ {0} /\ m - 1 + i \in m..n /\ SubSeq(q, m, n)[i] = q[m - 1 + i]
<1>1. q \in Seq(Segment) /\ Len(q) \in Nat /\ DOMAIN q = 1..Len(q) /\ m \in Nat /\ n \in Nat
  BY DEF QueueAt
<1> DEFINE r == SubSeq(q, m, n)
<1>2. /\ r \in Seq(Segment) /\ Len(r) = (IF m <= n THEN n - m + 1 ELSE 0)
      /\ \A i \in 1..Len(r) : r[i] = q[m - 1 + i]
  <2>1. \A i \in m..n : q[i] \in Segment
    BY <1>1
  <2>2. r \in Seq(Segment)
    BY <1>1, <2>1
  <2>3. Len(r) = (IF m <= n THEN n - m + 1 ELSE 0)
    BY <1>1
  <2>4. \A i \in 1..Len(r) : r[i] = q[m - 1 + i]
    BY <1>1
  <2> QED BY <2>2, <2>3, <2>4
<1> HIDE DEF r
<1>3. DOMAIN r = 1..Len(r) /\ Len(r) \in Nat
  BY <1>2
<1>4. \A i \in DOMAIN r :
         /\ i \in Nat \ {0} /\ m - 1 + i \in m..n /\ m - 1 + i \in DOMAIN q
         /\ r[i] = q[m - 1 + i]
  <2> SUFFICES ASSUME NEW i \in DOMAIN r
               PROVE  /\ i \in Nat \ {0} /\ m - 1 + i \in m..n /\ m - 1 + i \in DOMAIN q
                      /\ r[i] = q[m - 1 + i]
    OBVIOUS
  <2>1. i \in 1..Len(r) /\ i \in Nat \ {0} /\ m <= n /\ i <= n - m + 1
    BY <1>1, <1>2, <1>3
  <2>2. m - 1 + i \in m..n
    BY <1>1, <2>1
  <2> QED BY <1>1, <1>2, <2>1, <2>2
<1>5. \A i \in DOMAIN r : r[i].fin => i = Len(r)
  <2> SUFFICES ASSUME NEW i \in DOMAIN r, r[i].fin PROVE i = Len(r)
    OBVIOUS
  <2>1. m - 1 + i = Len(q)
    BY <1>4 DEF QueueAt
  <2> QED BY <1>1, <1>2, <1>3, <1>4, <2>1
<1>6. \A i, j \in DOMAIN r : i < j => r[i].from + r[i].len <= r[j].from
  <2> SUFFICES ASSUME NEW i \in DOMAIN r, NEW j \in DOMAIN r, i < j
               PROVE  r[i].from + r[i].len <= r[j].from
    OBVIOUS
  <2>1. m - 1 + i < m - 1 + j /\ m - 1 + i \in DOMAIN q /\ m - 1 + j \in DOMAIN q
    BY <1>1, <1>4
  <2>2. q[m - 1 + i].from + q[m - 1 + i].len <= q[m - 1 + j].from
    BY <2>1 DEF QueueAt
  <2> QED BY <1>4, <2>2
<1>7. QueueAt(b, r, low, right)
  BY <1>2, <1>4, <1>5, <1>6 DEF QueueAt
<1> QED BY <1>2, <1>4, <1>7 DEF r

LEMMA OneQueue ==
  ASSUME NEW b, NEW low, NEW right, NEW s, SegmentAt(b, s), low < s.from,
         s.from + TcpLen(s) <= right
  PROVE  QueueAt(b, <<s>>, low, right)
<1>1. s \in Segment
  BY DEF SegmentAt
<1>2. <<s>> \in Seq(Segment) /\ DOMAIN <<s>> = {1} /\ <<s>>[1] = s /\ Len(<<s>>) = 1
  BY <1>1
<1> QED BY <1>2 DEF QueueAt

\* Two queues, one behind the other, are one queue.
LEMMA JoinedQueue ==
  ASSUME NEW b, NEW low, NEW right, NEW u, NEW v,
         QueueAt(b, u, low, right), QueueAt(b, v, low, right),
         \A i \in DOMAIN u : ~ u[i].fin,
         \A i \in DOMAIN u : \A j \in DOMAIN v : u[i].from + u[i].len <= v[j].from
  PROVE  /\ QueueAt(b, u \o v, low, right)
         /\ Len(u \o v) = Len(u) + Len(v)
<1>1. /\ u \in Seq(Segment) /\ v \in Seq(Segment) /\ Len(u) \in Nat /\ Len(v) \in Nat
      /\ DOMAIN u = 1..Len(u) /\ DOMAIN v = 1..Len(v)
  BY DEF QueueAt
<1> DEFINE r == u \o v
<1>2. /\ r \in Seq(Segment) /\ Len(r) = Len(u) + Len(v)
      /\ \A i \in 1..Len(u) + Len(v) : r[i] = IF i <= Len(u) THEN u[i] ELSE v[i - Len(u)]
  BY <1>1, ConcatProperties
<1> HIDE DEF r
<1>3. DOMAIN r = 1..Len(u) + Len(v)
  BY <1>1, <1>2
<1>4. \A i \in DOMAIN r :
         \/ i \in DOMAIN u /\ r[i] = u[i]
         \/ i > Len(u) /\ i - Len(u) \in DOMAIN v /\ r[i] = v[i - Len(u)]
  BY <1>1, <1>2, <1>3
<1>5. \A i \in DOMAIN r : /\ SegmentAt(b, r[i])
                          /\ low < r[i].from
                          /\ r[i].from + TcpLen(r[i]) <= right
  BY <1>4 DEF QueueAt
<1>6. \A i \in DOMAIN r : r[i].fin => i = Len(r)
  <2> SUFFICES ASSUME NEW i \in DOMAIN r, r[i].fin PROVE i = Len(r)
    OBVIOUS
  <2>1. i > Len(u) /\ i - Len(u) \in DOMAIN v /\ r[i] = v[i - Len(u)]
    BY <1>4
  <2>2. i - Len(u) = Len(v)
    BY <2>1 DEF QueueAt
  <2> QED BY <1>1, <1>2, <1>3, <2>2
<1>7. \A i, j \in DOMAIN r : i < j => r[i].from + r[i].len <= r[j].from
  <2> SUFFICES ASSUME NEW i \in DOMAIN r, NEW j \in DOMAIN r, i < j
               PROVE  r[i].from + r[i].len <= r[j].from
    OBVIOUS
  <2>1. CASE i \in DOMAIN u /\ r[i] = u[i] /\ j \in DOMAIN u /\ r[j] = u[j]
    BY <2>1 DEF QueueAt
  <2>2. CASE i \in DOMAIN u /\ r[i] = u[i] /\ j - Len(u) \in DOMAIN v /\ r[j] = v[j - Len(u)]
    BY <2>2
  <2>3. CASE /\ i > Len(u) /\ i - Len(u) \in DOMAIN v /\ r[i] = v[i - Len(u)]
             /\ j > Len(u) /\ j - Len(u) \in DOMAIN v /\ r[j] = v[j - Len(u)]
    <3>1. i - Len(u) < j - Len(u)
      BY <1>1, <1>3
    <3> QED BY <2>3, <3>1 DEF QueueAt
  <2>4. ~ (i > Len(u) /\ j \in DOMAIN u)
    BY <1>1, <1>3
  <2> QED BY <1>4, <2>1, <2>2, <2>3, <2>4
<1>8. QueueAt(b, r, low, right)
  BY <1>2, <1>5, <1>6, <1>7 DEF QueueAt
<1> QED BY <1>2, <1>8 DEF r

LEMMA EndAt ==
  ASSUME NEW b, Base(b), NEW s, SegmentAt(b, s)
  PROVE  /\ End(s) = b + (s.from + s.len)
         /\ Plus(s.seqno, TcpLen(s)) = b + (s.from + TcpLen(s))
         /\ s.from + s.len \in 0..Bytes + Wnd + 1 /\ s.from \in 0..Bytes + Wnd + 1
         /\ s.from + TcpLen(s) \in 0..Bytes + Wnd + 1
<1>1. /\ s.from \in Nat /\ s.len \in Nat /\ TcpLen(s) \in Nat /\ s.seqno = b + s.from
      /\ s.from + s.len <= Bytes /\ s.from + TcpLen(s) <= Bytes + 1
      /\ Bytes \in Nat /\ Wnd \in Nat /\ b \in Nat
  BY SegmentNumbers, ConstantsAssumption DEF SegmentAt, Base
<1>2. s.from + s.len <= Bytes + Wnd + 1 /\ s.from + TcpLen(s) <= Bytes + Wnd + 1
  BY <1>1
<1>3. Plus(b + s.from, s.len) = b + s.from + s.len /\ Plus(b + s.from, TcpLen(s)) = b + s.from + TcpLen(s)
  BY <1>1, <1>2, PlusAt
<1> QED BY <1>1, <1>2, <1>3 DEF End

\* A segment without a FIN that is cut short is one still.
LEMMA CutSegment ==
  ASSUME NEW b, NEW s, SegmentAt(b, s), ~ s.fin, NEW n \in Nat, n > 0, n <= s.len
  PROVE  /\ SegmentAt(b, Realloc(s, n))
         /\ Realloc(s, n).from = s.from /\ Realloc(s, n).len = n /\ Realloc(s, n).fin = s.fin
<1> DEFINE r == Realloc(s, n)
<1>1. s \in Segment /\ s.len = s.tot /\ s.len \in Nat /\ s.from \in Nat
  BY SegmentNumbers DEF SegmentAt
<1>2. Min2(s.tot, n) = n
  BY <1>1 DEF Min2
<1>3. r \in Segment
  BY <1>1, <1>2 DEF Realloc, Segment
<1>4. r.seqno = s.seqno /\ r.from = s.from /\ r.len = n /\ r.tot = n /\ r.fin = s.fin
  BY <1>1, <1>2 DEF Realloc, Segment
<1> HIDE DEF r
<1>5. TcpLen(r) = n
  BY <1>4 DEF TcpLen, Flag
<1>6. r.from + r.len <= Bytes
  BY <1>1, <1>4, ConstantsAssumption DEF SegmentAt
<1>7. SegmentAt(b, r)
  BY <1>3, <1>4, <1>5, <1>6 DEF SegmentAt
<1> QED BY <1>4, <1>7 DEF r

\* A segment that reaches the end of the stream may get the FIN.
LEMMA FlagSegment ==
  ASSUME NEW b, NEW s, SegmentAt(b, s), ~ s.fin, NEW f \in BOOLEAN, f => s.from + s.len = Bytes
  PROVE  /\ SegmentAt(b, [s EXCEPT !.fin = f])
         /\ [s EXCEPT !.fin = f].from = s.from /\ [s EXCEPT !.fin = f].len = s.len
         /\ [s EXCEPT !.fin = f].fin = f
<1> DEFINE r == [s EXCEPT !.fin = f]
<1>1. s \in Segment /\ s.len \in Nat /\ s.len > 0
  BY SegmentNumbers DEF SegmentAt
<1>2. r \in Segment
  BY <1>1 DEF Segment
<1>3. r.seqno = s.seqno /\ r.from = s.from /\ r.len = s.len /\ r.tot = s.tot /\ r.fin = f
  BY <1>1 DEF Segment
<1> HIDE DEF r
<1>4. TcpLen(r) > 0
  BY <1>1, <1>3 DEF TcpLen, Flag
<1>5. SegmentAt(b, r)
  BY <1>2, <1>3, <1>4 DEF SegmentAt
<1> QED BY <1>3, <1>5 DEF r

LEMMA CoveredAre ==
  ASSUME NEW b, Base(b), NEW q, NEW low, NEW right, QueueAt(b, q, low, right),
         NEW c, SegmentAt(b, c)
  PROVE  /\ Covered(q, End(c)) \in 0..Len(q)
         /\ \A i \in 1..Covered(q, End(c)) : q[i].from + q[i].len <= c.from + c.len
         /\ \A i \in DOMAIN q : i > Covered(q, End(c)) =>
              c.from + c.len < q[Covered(q, End(c)) + 1].from + q[Covered(q, End(c)) + 1].len
<1>1. Len(q) \in Nat /\ DOMAIN q = 1..Len(q) /\ \A i \in DOMAIN q : SegmentAt(b, q[i])
  BY DEF QueueAt
<1>2. \A i \in DOMAIN q : SeqLeq(End(q[i]), End(c)) <=> q[i].from + q[i].len <= c.from + c.len
  BY <1>1, EndAt, LtAt
<1> DEFINE K == {k \in 0..Len(q) : \A i \in 1..k : SeqLeq(End(q[i]), End(c))}
<1>3. K \in SUBSET (0..Len(q)) /\ 0 \in K
  BY <1>1
<1> DEFINE k == Covered(q, End(c))
<1>4. k = Max(K)
  BY DEF Covered
<1> HIDE DEF k
<1>5. k \in K /\ \A y \in K : k >= y
  BY <1>1, <1>3, <1>4, GreatestNat
<1>6. k \in 0..Len(q) /\ \A i \in 1..k : SeqLeq(End(q[i]), End(c))
  BY <1>5
<1>7. \A i \in 1..k : q[i].from + q[i].len <= c.from + c.len
  <2> SUFFICES ASSUME NEW i \in 1..k PROVE q[i].from + q[i].len <= c.from + c.len
    OBVIOUS
  <2>1. i \in DOMAIN q
    BY <1>1, <1>6
  <2> QED BY <1>2, <1>6, <2>1
<1>8. ASSUME NEW i \in DOMAIN q, i > k
      PROVE  c.from + c.len < q[k + 1].from + q[k + 1].len
  <2>1. k + 1 \in DOMAIN q /\ k + 1 \in 0..Len(q) /\ ~ (k >= k + 1)
    BY <1>1, <1>6, <1>8
  <2>2. k + 1 \notin K
    BY <1>5, <2>1
  <2>3. ~ SeqLeq(End(q[k + 1]), End(c))
    <3>1. \A j \in 1..k + 1 : j \in 1..k \/ j = k + 1
      BY <1>6
    <3> QED BY <1>6, <2>1, <2>2, <3>1
  <2>4. /\ q[k + 1].from \in Nat /\ q[k + 1].len \in Nat /\ c.from \in Nat /\ c.len \in Nat
    BY <1>1, <2>1, SegmentNumbers
  <2> QED BY <1>2, <2>1, <2>3, <2>4
<1> QED BY <1>6, <1>7, <1>8 DEF k

LEMMA DropQueue ==
  ASSUME NEW b, NEW q, NEW low, NEW right, QueueAt(b, q, low, right), NEW k \in 0..Len(q)
  PROVE  /\ QueueAt(b, Drop(q, k), low, right)
         /\ Len(Drop(q, k)) = Len(q) - k
         /\ DOMAIN Drop(q, k) = 1..Len(q) - k
         /\ \A i \in 1..Len(q) - k : k + i \in DOMAIN q /\ Drop(q, k)[i] = q[k + i]
<1>1. Len(q) \in Nat /\ q \in Seq(Segment) /\ DOMAIN q = 1..Len(q)
  BY DEF QueueAt
<1> DEFINE r == SubSeq(q, k + 1, Len(q))
<1>2. k + 1 \in 1..Len(q) + 1 /\ Len(q) \in 0..Len(q) /\ (k + 1) - 1 = k
  BY <1>1
<1>3. /\ QueueAt(b, r, low, right)
      /\ Len(r) = IF k + 1 <= Len(q) THEN Len(q) - (k + 1) + 1 ELSE 0
      /\ \A i \in DOMAIN r : r[i] = q[(k + 1) - 1 + i]
  BY <1>2, PartOfQueue
<1> HIDE DEF r
<1> DEFINE n == Len(q)
<1>0. n \in Nat /\ k \in 0..n /\ DOMAIN q = 1..n /\ Len(r) = IF k + 1 <= n THEN n - (k + 1) + 1 ELSE 0
  BY <1>1, <1>3
<1> HIDE DEF n
<1>4. Len(r) = n - k
  BY <1>0
<1>5. DOMAIN r = 1..n - k
  BY <1>3, <1>4 DEF QueueAt
<1>6. ASSUME NEW i \in 1..n - k PROVE k + i \in DOMAIN q /\ r[i] = q[k + i]
  <2>1. k + i \in DOMAIN q /\ (k + 1) - 1 + i = k + i
    BY <1>0
  <2> QED BY <1>3, <1>5, <2>1
<1> QED BY <1>3, <1>4, <1>5, <1>6 DEF Drop, r, n

\* A segment put at the head of those that are not before it.
LEMMA OosInsertAt ==
  ASSUME NEW b, Base(b), NEW low, NEW right, NEW q, QueueAt(b, q, low, right),
         NEW c, SegmentAt(b, c), low < c.from, c.from + TcpLen(c) <= right, right \in Nat,
         \A i \in DOMAIN q : /\ c.from <= q[i].from
                             /\ q[i].from = c.from => q[i].len <= c.len
  PROVE  /\ QueueAt(b, OosInsert(c, q), low, right)
         /\ Len(OosInsert(c, q)) > 0 /\ OosInsert(c, q)[1].from = c.from
         /\ \A i \in DOMAIN OosInsert(c, q) : c.from <= OosInsert(c, q)[i].from
<1>1. CASE c.fin
  <2>1. OosInsert(c, q) = <<c>>
    BY <1>1 DEF OosInsert
  <2>2. QueueAt(b, <<c>>, low, right)
    BY OneQueue
  <2>3. c.from \in Nat
    BY SegmentNumbers
  <2> QED BY <2>1, <2>2, <2>3
<1>2. CASE ~ c.fin
  <2> DEFINE k == Covered(q, End(c))
             rest == Drop(q, k)
             over == rest # <<>> /\ SeqLt(Head(rest).seqno, End(c))
             d == IF over THEN Realloc(c, Minus(Head(rest).seqno, c.seqno)) ELSE c
             f == AnyFin(SubSeq(q, 1, k))
             e == [d EXCEPT !.fin = f]
  <2>1. OosInsert(c, q) = <<e>> \o rest
    BY <1>2 DEF OosInsert
  <2>2. /\ k \in 0..Len(q) /\ Len(q) \in Nat /\ DOMAIN q = 1..Len(q)
        /\ \A i \in 1..k : q[i].from + q[i].len <= c.from + c.len
        /\ k < Len(q) => c.from + c.len < q[k + 1].from + q[k + 1].len
    <3>1. Len(q) \in Nat /\ DOMAIN q = 1..Len(q)
      BY DEF QueueAt
    <3>2. k \in 0..Len(q) /\ \A i \in 1..k : q[i].from + q[i].len <= c.from + c.len
      BY CoveredAre
    <3>3. ASSUME k < Len(q) PROVE c.from + c.len < q[k + 1].from + q[k + 1].len
      <4>1. k + 1 \in DOMAIN q /\ k + 1 > k
        BY <3>1, <3>2, <3>3
      <4> QED BY <4>1, CoveredAre
    <3> QED BY <3>1, <3>2, <3>3
  <2> HIDE DEF k
  <2>3. /\ QueueAt(b, rest, low, right) /\ Len(rest) = Len(q) - k
        /\ DOMAIN rest = 1..Len(q) - k
        /\ \A i \in 1..Len(q) - k : k + i \in DOMAIN q /\ rest[i] = q[k + i]
    <3>1. k \in 0..Len(q)
      BY <2>2
    <3> HIDE <2>2
    <3> QED BY <3>1, DropQueue
  <2> HIDE DEF rest
  <2>4. /\ c.from \in Nat /\ c.len \in Nat /\ c.len > 0 /\ TcpLen(c) = c.len
        /\ c.from + c.len <= Bytes /\ c.seqno = b + c.from
    BY <1>2, SegmentNumbers DEF SegmentAt
  <2>5. \A i \in DOMAIN q : /\ q[i].from \in Nat /\ q[i].len \in Nat
                            /\ q[i].from + q[i].len <= Bytes /\ SegmentAt(b, q[i])
    BY SegmentNumbers DEF QueueAt
  \* What is left begins behind the first of c.
  <2>6. ASSUME k < Len(q)
        PROVE  /\ Head(rest) = rest[1] /\ rest # <<>> /\ rest[1] = q[k + 1] /\ k + 1 \in DOMAIN q
               /\ c.from < rest[1].from /\ SegmentAt(b, rest[1])
    <3>1. k + 1 \in DOMAIN q /\ rest[1] = q[k + 1] /\ Len(rest) > 0
      BY <2>2, <2>3, <2>6
    <3>2. Head(rest) = rest[1] /\ rest # <<>>
      BY <2>3, <3>1 DEF QueueAt
    <3>3. c.from # q[k + 1].from
      BY <2>2, <2>4, <2>5, <2>6, <3>1
    <3> QED BY <2>4, <2>5, <3>1, <3>2, <3>3
  <2>7. over <=> k < Len(q) /\ rest[1].from < c.from + c.len
    <3>1. CASE k < Len(q)
      <4>1. SeqLt(Head(rest).seqno, End(c)) <=> rest[1].from < c.from + c.len
        <5>1. Head(rest).seqno = b + rest[1].from /\ rest[1].from \in 0..Bytes + Wnd + 1
          BY <2>6, <3>1, EndAt DEF SegmentAt
        <5>2. End(c) = b + (c.from + c.len) /\ c.from + c.len \in 0..Bytes + Wnd + 1
          BY EndAt
        <5> QED BY <5>1, <5>2, LtAt
      <4> QED BY <2>6, <3>1, <4>1
    <3>2. CASE ~ (k < Len(q))
      <4>1. Len(rest) = 0
        <5>1. k \in 0..Len(q) /\ Len(q) \in Nat
          BY <2>2
        <5>2. Len(rest) = Len(q) - k
          BY <2>3
        <5> QED BY ONLY <3>2, <5>1, <5>2
      <4>2. rest = <<>>
        BY <2>3, <4>1 DEF QueueAt
      <4> QED BY <3>2, <4>2
    <3> QED BY <3>1, <3>2
  <2> HIDE DEF over
  <2>8. /\ SegmentAt(b, d) /\ d.from = c.from /\ ~ d.fin
        /\ d.len <= c.len /\ d.len \in Nat
        /\ k < Len(q) => d.from + d.len <= rest[1].from
        /\ ~ over => d = c
    <3>1. CASE over
      <4>1. k < Len(q) /\ rest[1].from < c.from + c.len /\ rest[1].from \in Nat
        BY <2>5, <2>6, <2>7, <3>1
      <4> DEFINE n == rest[1].from - c.from
      <4>2. n \in Nat /\ n > 0 /\ n <= c.len
        BY <2>4, <2>6, <4>1
      <4>3. Minus(Head(rest).seqno, c.seqno) = n
        <5>1. Head(rest).seqno = b + rest[1].from /\ rest[1].from \in 0..Bytes + Wnd + 1
          BY <2>6, <4>1, EndAt DEF SegmentAt
        <5>2. c.seqno = b + c.from /\ c.from \in 0..Bytes + Wnd + 1 /\ c.from <= rest[1].from
          BY <2>4, <2>6, <4>1, EndAt
        <5> QED BY <5>1, <5>2, MinusAt
      <4>4. d = Realloc(c, n)
        BY <3>1, <4>3
      <4> HIDE DEF d
      <4>5. SegmentAt(b, d) /\ d.from = c.from /\ d.len = n /\ ~ d.fin
        BY <1>2, <4>2, <4>4, CutSegment
      <4> QED BY <2>4, <3>1, <4>1, <4>2, <4>5
    <3>2. CASE ~ over
      <4>1. d = c
        BY <3>2
      <4>2. k < Len(q) => c.from + c.len <= rest[1].from
        BY <2>3, <2>4, <2>5, <2>6, <2>7, <3>2
      <4> QED BY <1>2, <2>4, <4>1, <4>2
    <3> QED BY <3>1, <3>2
  <2> HIDE DEF d
  \* A FIN among what c covers is the last of all, where the stream ends.
  <2>9. f => /\ k = Len(q) /\ k \in DOMAIN q /\ q[k].fin
             /\ c.from + c.len = Bytes /\ Bytes + 1 <= right
    <3> SUFFICES ASSUME f PROVE /\ k = Len(q) /\ k \in DOMAIN q /\ q[k].fin
                                /\ c.from + c.len = Bytes /\ Bytes + 1 <= right
      OBVIOUS
    <3>1. \E i \in 1..k : q[i].fin
      <4>1. PICK j \in DOMAIN SubSeq(q, 1, k) : SubSeq(q, 1, k)[j].fin
        BY DEF AnyFin
      <4>2. 1 \in 1..Len(q) + 1
        BY <2>2
      <4>3. j \in Nat \ {0} /\ 1 - 1 + j \in 1..k /\ SubSeq(q, 1, k)[j] = q[1 - 1 + j]
        BY <2>2, <4>2, PartOfQueue
      <4>4. 1 - 1 + j = j
        BY <4>3
      <4> QED BY <4>1, <4>3, <4>4
    <3>2. PICK i \in 1..k : q[i].fin
      BY <3>1
    <3>3. i \in DOMAIN q
      BY <2>2
    <3>4. i = Len(q) /\ SegmentAt(b, q[i]) /\ q[i].from + TcpLen(q[i]) <= right
      BY <3>2, <3>3 DEF QueueAt
    <3>5. k = Len(q) /\ i = k
      <4>1. i = Len(q)
        BY <3>4
      <4>2. k \in 0..Len(q) /\ Len(q) \in Nat
        BY <2>2
      <4> QED BY <4>1, <4>2
    <3>6. q[i].from + q[i].len = Bytes /\ TcpLen(q[i]) = q[i].len + 1
      BY <3>2, <3>4, SegmentNumbers DEF SegmentAt
    <3>7. c.from + c.len = Bytes
      <4>1. q[i].from + q[i].len <= c.from + c.len
        BY <2>2
      <4>2. c.from + c.len \in Nat /\ c.from + c.len <= Bytes /\ Bytes \in Nat
        BY ONLY <2>4, ConstantsAssumption
      <4> QED BY ONLY <3>6, <4>1, <4>2
    <3>8. Bytes + 1 <= right
      BY <2>5, <3>3, <3>4, <3>6
    <3> QED BY <3>2, <3>3, <3>5, <3>7, <3>8
  <2>10. f \in BOOLEAN /\ (f => d.from + d.len = Bytes)
    <3>1. f => ~ over
      BY <2>2, <2>7, <2>9
    <3> QED BY <2>8, <2>9, <3>1 DEF AnyFin
  <2> HIDE DEF f
  <2>11. SegmentAt(b, e) /\ e.from = c.from /\ e.len = d.len /\ e.fin = f
    BY <2>8, <2>10, FlagSegment
  <2> HIDE DEF e
  <2>12. e.from + TcpLen(e) <= right
    <3>1. TcpLen(e) = e.len + (IF f THEN 1 ELSE 0)
      BY <2>11, SegmentNumbers
    <3>2. CASE f
      BY <2>8, <2>9, <2>10, <2>11, <3>1, <3>2, <2>4, ConstantsAssumption
    <3>3. CASE ~ f
      BY <2>4, <2>8, <2>11, <3>1, <3>3
    <3> QED BY <3>2, <3>3
  <2>13. QueueAt(b, <<e>>, low, right)
    BY <2>11, <2>12, OneQueue
  <2>14. \A j \in DOMAIN rest : e.from + e.len <= rest[j].from /\ c.from <= rest[j].from
    <3> SUFFICES ASSUME NEW j \in DOMAIN rest
                 PROVE  e.from + e.len <= rest[j].from /\ c.from <= rest[j].from
      OBVIOUS
    <3>1. k < Len(q) /\ 1 \in DOMAIN rest /\ j \in Nat /\ j >= 1
      BY <2>2, <2>3
    <3>2. rest[1].from \in Nat /\ rest[j].from \in Nat /\ rest[1].len \in Nat
      BY <2>3, <2>5, <3>1
    <3>3. rest[1].from <= rest[j].from
      <4>1. CASE j = 1
        BY <3>2, <4>1
      <4>2. CASE j # 1
        <5>1. 1 < j
          BY <3>1, <4>2
        <5>2. rest[1].from + rest[1].len <= rest[j].from
          BY <2>3, <3>1, <5>1 DEF QueueAt
        <5> QED BY <3>2, <5>2
      <4> QED BY <4>1, <4>2
    <3>4. e.from + e.len <= rest[1].from
      BY <2>8, <2>11, <3>1
    <3> QED BY <2>4, <2>8, <2>11, <3>2, <3>3, <3>4
  <2>15. f => rest = <<>>
    <3>1. f => Len(rest) = 0
      BY <2>2, <2>3, <2>9
    <3> QED BY <2>3, <3>1 DEF QueueAt
  <2>16. /\ QueueAt(b, <<e>> \o rest, low, right)
         /\ Len(<<e>> \o rest) > 0 /\ (<<e>> \o rest)[1] = e
         /\ \A i \in DOMAIN (<<e>> \o rest) : c.from <= (<<e>> \o rest)[i].from
    <3>0. <<e>> \in Seq(Segment) /\ rest \in Seq(Segment) /\ Len(rest) \in Nat
      BY <2>3, <2>13 DEF QueueAt
    <3>1. CASE f
      <4>1. <<e>> \o rest = <<e>>
        BY <2>15, <3>0, <3>1
      <4>2. QueueAt(b, <<e>> \o rest, low, right)
        BY <2>13, <4>1
      <4>3. Len(<<e>>) > 0 /\ <<e>>[1] = e /\ \A i \in DOMAIN <<e>> : <<e>>[i] = e
        OBVIOUS
      <4>4. c.from <= e.from
        BY <2>4, <2>11
      <4> QED BY <4>1, <4>2, <4>3, <4>4
    <3>2. CASE ~ f
      <4>1. /\ \A i \in DOMAIN <<e>> : ~ <<e>>[i].fin
            /\ \A i \in DOMAIN <<e>> : \A j \in DOMAIN rest :
                 <<e>>[i].from + <<e>>[i].len <= rest[j].from
        BY <2>11, <2>14, <3>2
      <4>2. QueueAt(b, <<e>> \o rest, low, right) /\ Len(<<e>> \o rest) = Len(<<e>>) + Len(rest)
        BY <2>3, <2>13, <4>1, JoinedQueue
      <4>3. \A i \in 1..1 + Len(rest) :
              (<<e>> \o rest)[i] = IF i <= 1 THEN <<e>>[i] ELSE rest[i - 1]
        BY <3>0, ConcatProperties
      <4>4. DOMAIN (<<e>> \o rest) = 1..1 + Len(rest) /\ Len(<<e>> \o rest) > 0
        BY <3>0, <4>2 DEF QueueAt
      <4>5. (<<e>> \o rest)[1] = e
        BY <3>0, <4>3
      <4>6. ASSUME NEW i \in 1..1 + Len(rest) PROVE c.from <= (<<e>> \o rest)[i].from
        <5>1. CASE i = 1
          BY <2>4, <2>11, <4>5, <5>1
        <5>2. CASE i # 1
          <6>1. i - 1 \in DOMAIN rest /\ (<<e>> \o rest)[i] = rest[i - 1]
            BY <2>3, <3>0, <4>3, <5>2
          <6> QED BY <2>14, <6>1
        <5> QED BY <5>1, <5>2
      <4> QED BY <4>2, <4>4, <4>5, <4>6
    <3> QED BY <3>1, <3>2
  <2> QED BY <2>1, <2>11, <2>16
<1> QED BY <1>1, <1>2

\* The last of a queue is cut where the next is to begin.
LEMMA TrimLastAt ==
  ASSUME NEW b, Base(b), NEW low, NEW right \in Nat, NEW q, QueueAt(b, q, low, right),
         Len(q) > 0, NEW y \in 0..Bytes + Wnd + 1,
         \A i \in DOMAIN q : ~ q[i].fin /\ q[i].from < y
  PROVE  /\ QueueAt(b, TrimLast(q, b + y), low, right)
         /\ \A i \in DOMAIN TrimLast(q, b + y) :
              /\ ~ TrimLast(q, b + y)[i].fin
              /\ TrimLast(q, b + y)[i].from + TrimLast(q, b + y)[i].len <= y
<1> DEFINE n == Len(q)
           l == Last(q)
           u == SubSeq(q, 1, n - 1)
           d == Realloc(l, y - l.from)
<1>1. n \in Nat /\ n > 0 /\ DOMAIN q = 1..n /\ q \in Seq(Segment) /\ n \in DOMAIN q
  BY DEF QueueAt
<1>2. l = q[n] /\ Front(q) = u
  BY DEF Last, Front
<1> HIDE DEF l
<1>3. /\ SegmentAt(b, l) /\ low < l.from /\ l.from + TcpLen(l) <= right
      /\ ~ l.fin /\ l.from < y
  BY <1>1, <1>2 DEF QueueAt
<1>4. /\ l.from \in Nat /\ l.len \in Nat /\ l.len > 0 /\ y \in Nat /\ l.seqno = b + l.from
      /\ TcpLen(l) = l.len
  BY <1>3, SegmentNumbers, ConstantsAssumption DEF SegmentAt
<1>5. \A i \in 1..n - 1 : q[i].from \in Nat /\ q[i].len \in Nat /\ q[i].from + q[i].len < y
  <2> SUFFICES ASSUME NEW i \in 1..n - 1
               PROVE  q[i].from \in Nat /\ q[i].len \in Nat /\ q[i].from + q[i].len < y
    OBVIOUS
  <2>1. i \in DOMAIN q /\ i < n
    BY <1>1
  <2>2. q[i].from + q[i].len <= l.from /\ SegmentAt(b, q[i])
    BY <1>1, <1>2, <2>1 DEF QueueAt
  <2>3. q[i].from \in Nat /\ q[i].len \in Nat
    BY <2>2, SegmentNumbers
  <2> QED BY <1>3, <1>4, <2>2, <2>3
<1>6. (SeqLt(b + y, End(l)) <=> y < l.from + l.len)
  BY <1>3, EndAt, LtAt
<1>7. CASE y < l.from + l.len
  <2>1. TrimLast(q, b + y) = u \o <<d>>
    <3>1. Minus(b + y, l.seqno) = y - l.from
      <4>1. l.from \in 0..Bytes + Wnd + 1
        BY <1>3, EndAt
      <4> QED BY <1>3, <1>4, <4>1, MinusAt
    <3> QED BY <1>2, <1>6, <1>7, <3>1 DEF TrimLast, l
  <2>2. /\ SegmentAt(b, d) /\ d.from = l.from /\ d.len = y - l.from /\ ~ d.fin
    BY <1>3, <1>4, <1>7, CutSegment
  <2> HIDE DEF d
  <2>3. TcpLen(d) = y - l.from /\ d.from + TcpLen(d) <= right
    BY <1>3, <1>4, <1>7, <2>2, SegmentNumbers
  <2>4. QueueAt(b, <<d>>, low, right)
    BY <1>3, <2>2, <2>3, OneQueue
  <2>5. /\ QueueAt(b, u, low, right)
        /\ \A i \in DOMAIN u : i \in 1..n - 1 /\ u[i] = q[i]
    <3>1. 1 \in 1..Len(q) + 1 /\ n - 1 \in 0..Len(q)
      BY <1>1
    <3>2. \A i \in DOMAIN u : i \in Nat \ {0} /\ 1 - 1 + i \in 1..n - 1 /\ u[i] = q[1 - 1 + i]
      BY <3>1, PartOfQueue
    <3>3. \A i \in Nat : 1 - 1 + i = i
      OBVIOUS
    <3> QED BY <3>1, <3>2, <3>3, PartOfQueue
  <2> HIDE DEF u
  <2>6. \A i \in DOMAIN u : ~ u[i].fin /\ u[i].from + u[i].len <= y /\ u[i].from + u[i].len <= d.from
    <3> SUFFICES ASSUME NEW i \in DOMAIN u
                 PROVE  /\ ~ u[i].fin /\ u[i].from + u[i].len <= y
                        /\ u[i].from + u[i].len <= d.from
      OBVIOUS
    <3>1. i \in 1..n - 1 /\ u[i] = q[i] /\ i \in DOMAIN q /\ i < n
      BY <1>1, <2>5
    <3>2. q[i].from + q[i].len <= l.from
      BY <1>1, <1>2, <3>1 DEF QueueAt
    <3> QED BY <1>5, <1>4, <2>2, <3>1, <3>2
  <2>7. QueueAt(b, u \o <<d>>, low, right)
    <3>1. \A i \in DOMAIN u : \A j \in DOMAIN <<d>> : u[i].from + u[i].len <= <<d>>[j].from
      BY <2>6
    <3> QED BY <2>4, <2>5, <2>6, <3>1, JoinedQueue
  <2>8. \A i \in DOMAIN (u \o <<d>>) : (u \o <<d>>)[i] = d \/ \E j \in DOMAIN u : (u \o <<d>>)[i] = u[j]
    BY <2>4, <2>5 DEF QueueAt
  <2>9. d.from + d.len <= y
    BY <1>4, <2>2
  <2>10. ASSUME NEW i \in DOMAIN (u \o <<d>>)
         PROVE  ~ (u \o <<d>>)[i].fin /\ (u \o <<d>>)[i].from + (u \o <<d>>)[i].len <= y
    <3>1. CASE (u \o <<d>>)[i] = d
      BY <2>2, <2>9, <3>1
    <3>2. CASE \E j \in DOMAIN u : (u \o <<d>>)[i] = u[j]
      BY <2>6, <3>2
    <3> QED BY <2>8, <3>1, <3>2
  <2> QED BY <2>1, <2>7, <2>10
<1>8. CASE ~ (y < l.from + l.len)
  <2>1. TrimLast(q, b + y) = q
    BY <1>6, <1>8 DEF TrimLast, l
  <2>2. ASSUME NEW i \in DOMAIN q PROVE q[i].from + q[i].len <= y
    <3>1. CASE i = n
      BY <1>2, <1>4, <1>8, <3>1
    <3>2. CASE i # n
      <4>1. i \in 1..n - 1
        BY <1>1, <3>2
      <4> QED BY <1>4, <1>5, <4>1
    <3> QED BY <3>1, <3>2
  <2> QED BY <2>1, <2>2
<1> QED BY <1>7, <1>8

\* A segment that was promised room is not cut at the window's edge: this is
\* where numbers that wrap around would matter.
LEMMA FitsWindow ==
  ASSUME NEW b, Base(b), NEW x \in 0..Bytes + 1, NEW p, OpenAt(b, p, x),
         NEW s, SegmentAt(b, s), s.from + TcpLen(s) <= x + p.rcv_wnd
  PROVE  CutToWindow(p, s) = s
<1>1. /\ p.rcv_nxt = b + x /\ p.rcv_wnd \in Nat /\ x + p.rcv_wnd <= Bytes + Wnd + 1 /\ x \in Nat
      /\ b \in Nat /\ s.from + TcpLen(s) \in Nat
  <2>1. p.rcv_nxt = b + x /\ p.rcv_wnd \in 0..Wnd
    BY DEF OpenAt, Pcb
  <2>2. s.from \in Nat /\ TcpLen(s) \in Nat
    BY SegmentNumbers
  <2> QED BY <2>1, <2>2, ConstantsAssumption DEF Base
<1>2. Plus(p.rcv_nxt, p.rcv_wnd) = b + x + p.rcv_wnd
  BY <1>1, PlusAt
<1>3. Plus(s.seqno, TcpLen(s)) = b + (s.from + TcpLen(s))
  BY EndAt
<1>4. ~ OverrunsWindow(p, s)
  BY <1>1, <1>2, <1>3 DEF OverrunsWindow
<1> QED BY <1>4 DEF CutToWindow

\* A segment that is early finds its place on ooseq.
LEMMA QueueEarlyAt ==
  ASSUME NEW b, Base(b), NEW x \in 0..Bytes + 1, NEW p, OpenAt(b, p, x),
         NEW s, SegmentAt(b, s), x < s.from, s.from + TcpLen(s) <= x + p.rcv_wnd
  PROVE  QueueAt(b, QueueEarly(p, s), x, x + p.rcv_wnd)
<1> DEFINE q == p.ooseq
           right == x + p.rcv_wnd
           later == {i \in DOMAIN q : SeqLt(s.seqno, q[i].seqno)}
<1>1. /\ QueueAt(b, q, x, right) /\ right \in Nat /\ x \in Int
  <2>1. QueueAt(b, q, x, right) /\ p.rcv_wnd \in 0..Wnd
    BY DEF OpenAt, Pcb
  <2> QED BY <2>1, ConstantsAssumption
<1> HIDE DEF q, right
<1>2. /\ Len(q) \in Nat /\ DOMAIN q = 1..Len(q) /\ q \in Seq(Segment)
      /\ \A i \in DOMAIN q : SegmentAt(b, q[i])
  BY <1>1 DEF QueueAt
<1>3. /\ s.from \in Nat /\ s.len \in Nat /\ s.seqno = b + s.from
      /\ s.from \in 0..Bytes + Wnd + 1
  BY SegmentNumbers, EndAt DEF SegmentAt
<1>4. \A i \in DOMAIN q : /\ q[i].seqno = s.seqno <=> q[i].from = s.from
                          /\ SeqLt(s.seqno, q[i].seqno) <=> s.from < q[i].from
                          /\ q[i].from \in Nat /\ q[i].len \in Nat
  <2> SUFFICES ASSUME NEW i \in DOMAIN q
               PROVE  /\ q[i].seqno = s.seqno <=> q[i].from = s.from
                      /\ SeqLt(s.seqno, q[i].seqno) <=> s.from < q[i].from
                      /\ q[i].from \in Nat /\ q[i].len \in Nat
    OBVIOUS
  <2>1. q[i].seqno = b + q[i].from /\ q[i].from \in 0..Bytes + Wnd + 1
    BY <1>2, EndAt DEF SegmentAt
  <2>2. q[i].from \in Nat /\ q[i].len \in Nat
    BY <1>2, SegmentNumbers
  <2> QED BY <1>3, <2>1, <2>2, LtAt DEF Base
<1>5. CASE q = <<>>
  <2>1. QueueEarly(p, s) = <<s>>
    BY <1>5 DEF QueueEarly, q
  <2>2. s.from + TcpLen(s) <= right
    BY DEF right
  <2> QED BY <1>1, <2>1, <2>2, OneQueue DEF right
\* The new segment, what it covers and what comes after i - 1 others.
<1>6. ASSUME NEW i \in DOMAIN q,
             \A j \in DOMAIN q : j >= i =>
                s.from <= q[j].from /\ (q[j].from = s.from => q[j].len <= s.len)
      PROVE  /\ QueueAt(b, OosInsert(s, Drop(q, i - 1)), x, right)
             /\ \A j \in DOMAIN OosInsert(s, Drop(q, i - 1)) :
                  s.from <= OosInsert(s, Drop(q, i - 1))[j].from
  <2> DEFINE r == Drop(q, i - 1)
  <2>1. i - 1 \in 0..Len(q) /\ i \in Nat
    BY <1>2
  <2>2. /\ QueueAt(b, r, x, right)
        /\ DOMAIN r = 1..Len(q) - (i - 1)
        /\ \A j \in 1..Len(q) - (i - 1) : (i - 1) + j \in DOMAIN q /\ r[j] = q[(i - 1) + j]
    <3>1. \A k \in 0..Len(q) :
            /\ QueueAt(b, Drop(q, k), x, right)
            /\ DOMAIN Drop(q, k) = 1..Len(q) - k
            /\ \A j \in 1..Len(q) - k : k + j \in DOMAIN q /\ Drop(q, k)[j] = q[k + j]
      BY <1>1, DropQueue
    <3> QED BY <2>1, <3>1
  <2> HIDE DEF r
  <2>3. \A j \in DOMAIN r : s.from <= r[j].from /\ (r[j].from = s.from => r[j].len <= s.len)
    <3> SUFFICES ASSUME NEW j \in DOMAIN r
                 PROVE  s.from <= r[j].from /\ (r[j].from = s.from => r[j].len <= s.len)
      OBVIOUS
    <3>1. (i - 1) + j \in DOMAIN q /\ r[j] = q[(i - 1) + j] /\ (i - 1) + j >= i
      BY <1>2, <2>1, <2>2
    <3> QED BY <1>6, <3>1
  <2>4. s.from + TcpLen(s) <= right
    BY DEF right
  <2>5. /\ QueueAt(b, OosInsert(s, r), x, right)
        /\ \A j \in DOMAIN OosInsert(s, r) : s.from <= OosInsert(s, r)[j].from
    BY <1>1, <2>2, <2>3, <2>4, OosInsertAt
  <2> QED BY <2>5 DEF r
\* The segments before one of the queue.
<1>7. ASSUME NEW i \in DOMAIN q
      PROVE  LET u == SubSeq(q, 1, i - 1)
             IN /\ QueueAt(b, u, x, right) /\ Len(u) = i - 1
                /\ \A j \in DOMAIN u : /\ j \in 1..i - 1 /\ j \in DOMAIN q /\ u[j] = q[j]
                                       /\ ~ u[j].fin
                                       /\ u[j].from + u[j].len <= q[i].from
  <2> DEFINE u == SubSeq(q, 1, i - 1)
  <2>1. 1 \in 1..Len(q) + 1 /\ i - 1 \in 0..Len(q) /\ i \in Nat
    BY <1>2
  <2>2. /\ QueueAt(b, u, x, right)
        /\ Len(u) = IF 1 <= i - 1 THEN (i - 1) - 1 + 1 ELSE 0
        /\ \A j \in DOMAIN u : j \in Nat \ {0} /\ 1 - 1 + j \in 1..i - 1 /\ u[j] = q[1 - 1 + j]
    BY <1>1, <2>1, PartOfQueue
  <2> HIDE DEF u
  <2>3. Len(u) = i - 1
    BY <1>2, <2>1, <2>2
  <2>4. ASSUME NEW j \in DOMAIN u
        PROVE  /\ j \in 1..i - 1 /\ j \in DOMAIN q /\ u[j] = q[j]
               /\ ~ u[j].fin /\ u[j].from + u[j].len <= q[i].from
    <3>1. 1 - 1 + j = j
      BY <2>2
    <3>2. j \in 1..i - 1 /\ u[j] = q[j]
      BY <2>2, <3>1
    <3>3. j \in DOMAIN q /\ j < i /\ j # Len(q)
      BY <1>2, <2>1, <3>2
    <3> QED BY <1>1, <3>2, <3>3 DEF QueueAt
  <2> QED BY <2>2, <2>3, <2>4 DEF u
<1>8. CASE q # <<>> /\ \E i \in DOMAIN q : q[i].seqno = s.seqno
  <2> DEFINE i == CHOOSE i \in DOMAIN q : q[i].seqno = s.seqno
             u == SubSeq(q, 1, i - 1)
             v == OosInsert(s, Drop(q, i - 1))
  <2>1. i \in DOMAIN q /\ q[i].seqno = s.seqno
    BY <1>8
  <2>2. QueueEarly(p, s) = IF s.len > q[i].len THEN u \o v ELSE q
    BY <1>8 DEF QueueEarly, q
  <2> HIDE DEF i
  <2>3. CASE s.len > q[i].len
    <3>1. q[i].from = s.from /\ q[i].len \in Nat
      BY <1>4, <2>1
    <3>2. ASSUME NEW j \in DOMAIN q, j >= i
          PROVE  s.from <= q[j].from /\ (q[j].from = s.from => q[j].len <= s.len)
      <4>1. CASE j = i
        BY <1>3, <2>3, <3>1, <4>1
      <4>2. CASE j # i
        <5>1. i < j /\ i # Len(q)
          BY <1>2, <2>1, <3>2, <4>2
        <5>2. q[i].from + q[i].len <= q[j].from /\ ~ q[i].fin
          BY <1>1, <2>1, <5>1 DEF QueueAt
        <5>3. q[i].len > 0
          BY <1>2, <2>1, <5>2, SegmentNumbers
        <5> QED BY <1>3, <1>4, <2>1, <3>1, <5>2, <5>3
      <4> QED BY <4>1, <4>2
    <3>3. QueueAt(b, v, x, right) /\ \A j \in DOMAIN v : s.from <= v[j].from
      BY <1>6, <2>1, <3>2
    <3>4. /\ QueueAt(b, u, x, right)
          /\ \A j \in DOMAIN u : ~ u[j].fin /\ u[j].from + u[j].len <= s.from
      BY <1>7, <2>1, <3>1
    <3> HIDE DEF u, v
    <3>5. ASSUME NEW m \in DOMAIN u, NEW j \in DOMAIN v
          PROVE  u[m].from + u[m].len <= v[j].from
      <4>1. u[m].from \in Nat /\ u[m].len \in Nat /\ v[j].from \in Nat
        BY <3>3, <3>4, SegmentNumbers DEF QueueAt
      <4> QED BY <1>3, <3>3, <3>4, <4>1
    <3>6. QueueAt(b, u \o v, x, right)
      BY <3>3, <3>4, <3>5, JoinedQueue
    <3> QED BY <2>2, <2>3, <3>6 DEF right
  <2>4. CASE ~ (s.len > q[i].len)
    BY <1>1, <2>2, <2>4 DEF right
  <2> QED BY <2>3, <2>4
<1>9. CASE q # <<>> /\ ~ (\E i \in DOMAIN q : q[i].seqno = s.seqno) /\ later = {}
  <2> DEFINE u == TrimLast(q, b + s.from)
  <2>1. QueueEarly(p, s) = IF Last(q).fin THEN q ELSE u \o <<CutToWindow(p, s)>>
    BY <1>3, <1>9 DEF QueueEarly, q
  <2>2. CASE Last(q).fin
    BY <1>1, <2>1, <2>2 DEF right
  <2>3. CASE ~ Last(q).fin
    <3>1. Len(q) > 0
      BY <1>2, <1>9
    <3>2. \A j \in DOMAIN q : ~ q[j].fin /\ q[j].from < s.from
      <4>1. \A j \in DOMAIN q : ~ q[j].fin
        BY <1>1, <2>3 DEF QueueAt, Last
      <4> QED BY <1>3, <1>4, <1>9, <4>1
    <3>3. /\ QueueAt(b, u, x, right)
          /\ \A j \in DOMAIN u : ~ u[j].fin /\ u[j].from + u[j].len <= s.from
      BY <1>1, <1>3, <3>1, <3>2, TrimLastAt
    <3> HIDE DEF u
    <3>4. CutToWindow(p, s) = s /\ QueueAt(b, <<s>>, x, right)
      BY <1>1, FitsWindow, OneQueue DEF right
    <3>5. \A m \in DOMAIN u : \A j \in DOMAIN <<s>> : u[m].from + u[m].len <= <<s>>[j].from
      BY <3>3
    <3>6. QueueAt(b, u \o <<s>>, x, right)
      BY <3>3, <3>4, <3>5, JoinedQueue
    <3> QED BY <2>1, <2>3, <3>4, <3>6 DEF right
  <2> QED BY <2>2, <2>3
<1>10. CASE q # <<>> /\ ~ (\E i \in DOMAIN q : q[i].seqno = s.seqno) /\ later # {}
  <2> DEFINE i == Min(later)
             before == SubSeq(q, 1, i - 1)
             u == IF before = <<>> THEN <<>> ELSE TrimLast(before, b + s.from)
             v == OosInsert(s, Drop(q, i - 1))
  <2>1. QueueEarly(p, s) = u \o v
    BY <1>3, <1>10 DEF QueueEarly, q
  <2>2. i \in later /\ \A j \in later : i <= j
    <3>1. later \in SUBSET Nat
      BY <1>2
    <3>2. \E j \in later : \A k \in later : j <= k
      BY <1>10, <3>1, LeastNat
    <3> QED BY <3>2 DEF Min
  <2> HIDE DEF i
  <2>3. i \in DOMAIN q /\ s.from < q[i].from
    BY <1>4, <2>2
  <2>4. ASSUME NEW j \in DOMAIN q, j >= i
        PROVE  s.from <= q[j].from /\ (q[j].from = s.from => q[j].len <= s.len)
    <3>1. CASE j = i
      BY <1>3, <1>4, <2>3, <3>1
    <3>2. CASE j # i
      <4>1. i < j
        BY <1>2, <2>3, <2>4, <3>2
      <4>2. q[i].from + q[i].len <= q[j].from
        BY <1>1, <2>3, <4>1 DEF QueueAt
      <4> QED BY <1>3, <1>4, <2>3, <4>2
    <3> QED BY <3>1, <3>2
  <2>5. QueueAt(b, v, x, right) /\ \A j \in DOMAIN v : s.from <= v[j].from
    BY <1>6, <2>3, <2>4
  <2>6. /\ QueueAt(b, before, x, right) /\ Len(before) = i - 1
        /\ \A j \in DOMAIN before : /\ j \in 1..i - 1 /\ j \in DOMAIN q /\ before[j] = q[j]
                                    /\ ~ before[j].fin
    BY <1>7, <2>3
  <2> HIDE DEF before, v
  <2>7. \A j \in DOMAIN before : ~ before[j].fin /\ before[j].from < s.from
    <3> SUFFICES ASSUME NEW j \in DOMAIN before PROVE before[j].from < s.from
      BY <2>6
    <3>1. j \in DOMAIN q /\ before[j] = q[j] /\ j < i
      BY <1>2, <2>3, <2>6
    <3>2. j \notin later
      BY <1>2, <2>2, <2>3, <3>1
    <3> QED BY <1>3, <1>4, <1>10, <3>1, <3>2
  <2>8. /\ QueueAt(b, u, x, right)
        /\ \A j \in DOMAIN u : ~ u[j].fin /\ u[j].from + u[j].len <= s.from
    <3>1. CASE before = <<>>
      BY <2>6, <3>1
    <3>2. CASE before # <<>>
      <4>1. Len(before) > 0
        BY <2>6, <3>2 DEF QueueAt
      <4> QED BY <1>1, <1>3, <2>6, <2>7, <3>2, <4>1, TrimLastAt
    <3> QED BY <3>1, <3>2
  <2> HIDE DEF u
  <2>9. ASSUME NEW m \in DOMAIN u, NEW j \in DOMAIN v
        PROVE  u[m].from + u[m].len <= v[j].from
    <3>1. u[m].from \in Nat /\ u[m].len \in Nat /\ v[j].from \in Nat
      BY <2>5, <2>8, SegmentNumbers DEF QueueAt
    <3> QED BY <1>3, <2>5, <2>8, <3>1
  <2>10. QueueAt(b, u \o v, x, right)
    BY <2>5, <2>8, <2>9, JoinedQueue
  <2> QED BY <2>1, <2>10 DEF right
<1> QED BY <1>5, <1>8, <1>9, <1>10

\* ---- Bytes in order ----

LEMMA RunIsBytes ==
  ASSUME NEW x \in Nat, NEW n \in Nat
  PROVE  Run(x, n) \in Seq(Nat) /\ Len(Run(x, n)) = n
<1>1. \A j \in 1..n : x + j - 1 \in Nat
  OBVIOUS
<1> QED BY <1>1 DEF Run

LEMMA NoRun == ASSUME NEW x PROVE Run(x, 0) = <<>>
  BY DEF Run

LEMMA RunsJoin ==
  ASSUME NEW x \in Nat, NEW m \in Nat, NEW n \in Nat
  PROVE  Run(x, m) \o Run(x + m, n) = Run(x, m + n)
<1> DEFINE u == Run(x, m)
           v == Run(x + m, n)
           w == Run(x, m + n)
<1>1. /\ u \in Seq(Nat) /\ Len(u) = m /\ v \in Seq(Nat) /\ Len(v) = n
      /\ w \in Seq(Nat) /\ Len(w) = m + n
  <2>1. x + m \in Nat /\ m + n \in Nat
    OBVIOUS
  <2>2. u \in Seq(Nat) /\ Len(u) = m
    BY RunIsBytes
  <2>3. v \in Seq(Nat) /\ Len(v) = n
    BY <2>1, RunIsBytes
  <2>4. w \in Seq(Nat) /\ Len(w) = m + n
    BY <2>1, RunIsBytes
  <2> QED BY <2>2, <2>3, <2>4
<1>3. \A j \in 1..m : u[j] = x + j - 1
  BY DEF Run
<1>4. \A j \in 1..n : v[j] = (x + m) + j - 1
  BY DEF Run
<1>5. \A j \in 1..m + n : w[j] = x + j - 1
  BY DEF Run
<1> HIDE DEF u, v, w
<1>2. /\ u \o v \in Seq(Nat) /\ Len(u \o v) = m + n
      /\ \A j \in 1..m + n : (u \o v)[j] = IF j <= m THEN u[j] ELSE v[j - m]
  BY <1>1, ConcatProperties
<1>6. ASSUME NEW j \in 1..m + n PROVE (u \o v)[j] = w[j]
  <2>1. CASE j <= m
    <3>1. j \in 1..m
      BY <2>1
    <3> QED BY <1>2, <1>3, <1>5, <2>1, <3>1
  <2>2. CASE ~ (j <= m)
    <3>1. j - m \in 1..n /\ (x + m) + (j - m) - 1 = x + j - 1
      BY <2>2
    <3> QED BY <1>2, <1>4, <1>5, <2>2, <3>1
  <2> QED BY <2>1, <2>2
<1>7. Len(u \o v) = Len(w)
  BY <1>1, <1>2
<1> DEFINE z == u \o v
<1>8. z \in Seq(Nat) /\ Len(z) = m + n /\ \A j \in 1..m + n : z[j] = w[j]
  BY <1>2, <1>6
<1> HIDE DEF z
<1>9. z = w
  BY <1>1, <1>8
<1> QED BY <1>9 DEF u, v, w, z

\* The first k segments of q follow one another without a gap.
Unbroken(q, k) == \A i \in 2..k : q[i].seqno = Plus(q[i - 1].seqno, TcpLen(q[i - 1]))

LEMMA FollowAt ==
  ASSUME NEW q \in Seq(Segment), Len(q) > 0
  PROVE  /\ Follow(q) \in 1..Len(q)
         /\ Unbroken(q, Follow(q))
         /\ Follow(q) < Len(q) =>
              q[Follow(q) + 1].seqno # Plus(q[Follow(q)].seqno, TcpLen(q[Follow(q)]))
<1> DEFINE After(i) == q[i].seqno = Plus(q[i - 1].seqno, TcpLen(q[i - 1]))
           n == Len(q)
           K == {k \in 1..n : \A i \in 2..k : After(i)}
           f == Follow(q)
<1>1. n \in Nat /\ n > 0
  OBVIOUS
<1>2. f = Max(K)
  BY DEF Follow
<1> HIDE DEF f, After, n
<1>3. K \in SUBSET (0..n) /\ 1 \in K
  <2>1. 1 \in 1..n /\ 2..1 = {}
    BY <1>1
  <2>2. 1 \in K
    BY <2>1
  <2>3. K \in SUBSET (0..n)
    BY <1>1
  <2> QED BY <2>2, <2>3
<1>4. f \in K /\ \A y \in K : f >= y
  BY <1>1, <1>2, <1>3, GreatestNat
<1>5. f \in 1..n /\ \A i \in 2..f : After(i)
  BY <1>4
<1>6. ASSUME f < n PROVE ~ After(f + 1)
  <2>1. f + 1 \in 1..n /\ ~ (f >= f + 1)
    BY <1>1, <1>5, <1>6
  <2>2. f + 1 \notin K
    BY <1>4, <2>1
  <2>3. \A i \in 2..f + 1 : i \in 2..f \/ i = f + 1
    BY <1>5
  <2> QED BY <1>5, <2>1, <2>2, <2>3
<1>7. f < n => q[f + 1].seqno # Plus(q[f].seqno, TcpLen(q[f]))
  <2> SUFFICES ASSUME f < n PROVE q[f + 1].seqno # Plus(q[f].seqno, TcpLen(q[f]))
    OBVIOUS
  <2>1. (f + 1) - 1 = f
    BY <1>5
  <2> QED BY <1>6, <2>1 DEF After
<1> QED BY <1>5, <1>7 DEF f, After, n, Unbroken

\* Segments that follow one another give the bytes from the first to the last.
LEMMA GatheredAt ==
  ASSUME NEW b, Base(b), NEW x \in Nat, NEW right, NEW q, QueueAt(b, q, x - 1, right),
         Len(q) > 0, q[1].from = x, NEW k \in 1..Len(q), Unbroken(q, k)
  PROVE  /\ Gathered(q, k).n = (q[k].from + TcpLen(q[k])) - x
         /\ Gathered(q, k).data = Run(x, q[k].from + q[k].len - x)
         /\ x <= q[k].from
<1>1. Len(q) \in Nat /\ DOMAIN q = 1..Len(q) /\ k \in Nat /\ k >= 1 /\ x \in Nat
  BY DEF QueueAt
<1>2. \A i \in 1..k : /\ i \in DOMAIN q /\ SegmentAt(b, q[i])
                      /\ q[i].from \in Nat /\ q[i].len \in Nat /\ TcpLen(q[i]) \in Nat
                      /\ x <= q[i].from /\ Data(q[i]) = Run(q[i].from, q[i].len)
  <2> SUFFICES ASSUME NEW i \in 1..k
               PROVE  /\ i \in DOMAIN q /\ SegmentAt(b, q[i])
                      /\ q[i].from \in Nat /\ q[i].len \in Nat /\ TcpLen(q[i]) \in Nat
                      /\ x <= q[i].from /\ Data(q[i]) = Run(q[i].from, q[i].len)
    OBVIOUS
  <2>1. i \in DOMAIN q
    BY <1>1
  <2>2. SegmentAt(b, q[i]) /\ x - 1 < q[i].from
    BY <2>1 DEF QueueAt
  <2>3. q[i].from \in Nat /\ q[i].len \in Nat /\ TcpLen(q[i]) \in Nat
    BY <2>2, SegmentNumbers
  <2>4. q[i].tot = q[i].len
    BY <2>2 DEF SegmentAt
  <2> QED BY <2>1, <2>2, <2>3, <2>4 DEF Data, Run
<1>3. ASSUME NEW i \in 1..k, NEW h \in 1..k, i = h + 1
      PROVE  q[i].from = q[h].from + q[h].len /\ TcpLen(q[h]) = q[h].len
  <2>1. h # Len(q) /\ i \in 2..k /\ i - 1 = h
    <3> DEFINE n == Len(q)
    <3>1. n \in Nat /\ k \in 1..n
      BY <1>1
    <3> HIDE DEF n
    <3>2. h # n /\ i \in 2..k /\ i - 1 = h
      BY <1>3, <3>1
    <3> QED BY <3>2 DEF n
  <2>2. h \in DOMAIN q /\ SegmentAt(b, q[h]) /\ SegmentAt(b, q[i])
    BY <1>2
  <2>3. ~ q[h].fin
    BY <2>1, <2>2 DEF QueueAt
  <2>4. TcpLen(q[h]) = q[h].len /\ q[h].from \in Nat /\ q[h].len \in Nat /\ q[i].from \in Nat
    BY <2>2, <2>3, SegmentNumbers
  <2>5. Plus(q[h].seqno, TcpLen(q[h])) = b + (q[h].from + TcpLen(q[h]))
    BY <2>2, EndAt
  <2>6. q[i].seqno = Plus(q[h].seqno, TcpLen(q[h]))
    BY <2>1 DEF Unbroken
  <2>7. q[i].seqno = b + q[i].from /\ b \in Nat
    BY <2>2 DEF SegmentAt, Base
  <2> DEFINE hf == q[h].from
             hl == q[h].len
             gf == q[i].from
  <2>8. hf \in Nat /\ hl \in Nat /\ gf \in Nat /\ b + gf = b + (hf + hl)
    BY ONLY <2>4, <2>5, <2>6, <2>7
  <2> HIDE DEF hf, hl, gf
  <2>9. gf = hf + hl
    BY ONLY <2>7, <2>8
  <2> QED BY <2>4, <2>9 DEF hf, hl, gf
<1> DEFINE num(i) == IF i = 0 THEN 0 ELSE (q[i].from + TcpLen(q[i])) - x
           bytes(i) == IF i = 0 THEN <<>> ELSE Run(x, q[i].from + q[i].len - x)
           next(i, r) == [n |-> r.n + TcpLen(q[i]), data |-> r.data \o Data(q[i])]
           none == [n |-> 0, data |-> <<>>]
           g == [i \in 0..k |-> [n |-> num(i), data |-> bytes(i)]]
           IsRec(h) == h = [i \in 0..k |-> IF i = 0 THEN none ELSE next(i, h[i - 1])]
           got == CHOOSE h : IsRec(h)
<1>4. \A i \in 1..k : /\ num(i) = num(i - 1) + TcpLen(q[i])
                      /\ bytes(i) = bytes(i - 1) \o Data(q[i])
  <2> SUFFICES ASSUME NEW i \in 1..k
               PROVE  /\ num(i) = num(i - 1) + TcpLen(q[i])
                      /\ bytes(i) = bytes(i - 1) \o Data(q[i])
    OBVIOUS
  <2>1. CASE i = 1
    <3>1. /\ num(i) = (x + TcpLen(q[1])) - x /\ num(i - 1) = 0
          /\ bytes(i) = Run(x, x + q[1].len - x) /\ bytes(i - 1) = <<>>
      BY <2>1
    <3>2. TcpLen(q[1]) \in Nat /\ q[1].len \in Nat /\ Data(q[1]) = Run(x, q[1].len)
      BY <1>2, <2>1
    <3>3. (x + TcpLen(q[1])) - x = 0 + TcpLen(q[1]) /\ x + q[1].len - x = q[1].len
      BY <3>2
    <3>4. Run(x, q[1].len) \in Seq(Nat)
      BY <3>2, RunIsBytes
    <3>5. <<>> \o Run(x, q[1].len) = Run(x, q[1].len)
      BY <3>4
    <3> QED BY <2>1, <3>1, <3>2, <3>3, <3>5
  <2>2. CASE i # 1
    <3> DEFINE h == i - 1
    <3>0. h \in 1..k /\ i = h + 1 /\ h # 0 /\ i # 0
      BY <1>1, <2>2
    <3>2. /\ num(i) = (q[i].from + TcpLen(q[i])) - x
          /\ num(h) = (q[h].from + TcpLen(q[h])) - x
      BY <3>0
    <3>9. /\ bytes(i) = Run(x, q[i].from + q[i].len - x)
          /\ bytes(h) = Run(x, q[h].from + q[h].len - x)
      BY <3>0
    <3> HIDE DEF h, num
    <3>1. q[i].from = q[h].from + q[h].len /\ TcpLen(q[h]) = q[h].len
      BY <1>3, <3>0
    <3>3. /\ q[i].from \in Nat /\ q[i].len \in Nat /\ TcpLen(q[i]) \in Nat
          /\ q[h].from \in Nat /\ q[h].len \in Nat /\ x <= q[h].from /\ x \in Nat
      BY <1>2, <3>0
    <3>10. Data(q[i]) = Run(q[i].from, q[i].len)
      BY <1>2
    <3> DEFINE hf == q[h].from
               hl == q[h].len
               gf == q[i].from
               gl == q[i].len
               t == TcpLen(q[i])
               m == (hf + hl) - x
    <3>11. /\ hf \in Nat /\ hl \in Nat /\ gf \in Nat /\ gl \in Nat /\ t \in Nat
           /\ x <= hf /\ gf = hf + hl
      BY <3>1, <3>3
    <3>12. num(i) = (gf + t) - x /\ num(h) = (hf + hl) - x
      BY <3>1, <3>2
    <3> HIDE DEF hf, hl, gf, gl, t
    <3>13. (gf + t) - x = ((hf + hl) - x) + t /\ m \in Nat /\ gf = x + m /\ gf + gl - x = m + gl
      BY <3>11
    <3>4. num(i) = num(h) + TcpLen(q[i])
      BY <3>12, <3>13 DEF t
    <3>5. m \in Nat /\ q[i].from = x + m /\ q[i].from + q[i].len - x = m + q[i].len
      BY <3>13 DEF gf, gl
    <3>14. m = q[h].from + q[h].len - x
      BY <3>3 DEF hf, hl
    <3> HIDE DEF m
    <3>6. Run(x, m) \o Run(x + m, q[i].len) = Run(x, m + q[i].len)
      <4>1. x \in Nat /\ m \in Nat /\ q[i].len \in Nat
        BY <3>3, <3>5
      <4> QED BY ONLY <4>1, RunsJoin
    <3>7. bytes(h) = Run(x, m)
      BY <3>9, <3>14
    <3> HIDE DEF bytes
    <3>8. bytes(i) = bytes(h) \o Data(q[i])
      BY <3>5, <3>6, <3>7, <3>9, <3>10
    <3> QED BY <3>4, <3>8 DEF h
  <2> QED BY <2>1, <2>2
<1>5. num(0) = 0 /\ bytes(0) = <<>>
  OBVIOUS
<1>6. /\ num(k) = (q[k].from + TcpLen(q[k])) - x
      /\ bytes(k) = Run(x, q[k].from + q[k].len - x)
  BY <1>1
<1> HIDE DEF num, bytes
<1>7. g[0] = none /\ \A i \in 1..k : g[i] = next(i, g[i - 1])
  <2>1. 0 \in 0..k /\ \A i \in 1..k : i \in 0..k /\ i - 1 \in 0..k
    BY <1>1
  <2>2. g[0] = none
    BY <1>5, <2>1
  <2>3. ASSUME NEW i \in 1..k PROVE g[i] = next(i, g[i - 1])
    <3>1. /\ g[i] = [n |-> num(i), data |-> bytes(i)]
          /\ g[i - 1].n = num(i - 1) /\ g[i - 1].data = bytes(i - 1)
      BY <2>1
    <3> HIDE DEF g
    <3>2. next(i, g[i - 1]) = [n |-> num(i), data |-> bytes(i)]
      BY <1>4, <3>1
    <3> QED BY <3>1, <3>2
  <2> QED BY <2>2, <2>3
<1>8. IsRec(g)
  <2>1. \A i \in 0..k : i = 0 \/ i \in 1..k
    BY <1>1
  <2>2. \A i \in 0..k : g[i] = IF i = 0 THEN none ELSE next(i, g[i - 1])
    BY <1>7, <2>1
  <2>3. g = [i \in 0..k |-> g[i]]
    OBVIOUS
  <2> HIDE DEF g, next, none
  <2> QED BY <2>2, <2>3
<1> HIDE DEF IsRec
<1>9. IsRec(got)
  BY <1>8
<1>10. Gathered(q, k) = got[k]
  BY DEF Gathered, got, IsRec
<1> HIDE DEF got
<1>11. /\ got[0] = none
       /\ \A i \in 1..k : got[i] = next(i, got[i - 1])
  <2>1. 0 \in 0..k /\ \A i \in 1..k : i \in 0..k /\ i # 0
    BY <1>1
  <2> HIDE DEF next, none
  <2> QED BY <1>9, <2>1 DEF IsRec
<1> DEFINE T == {i \in 0..k : got[i] = g[i]}
<1> HIDE DEF g, next, none
<1>12. 0 \in T
  BY <1>1, <1>7, <1>11
<1>13. \A i \in 0..k : i < k /\ i \in T => i + 1 \in T
  <2> SUFFICES ASSUME NEW i \in 0..k, i < k, got[i] = g[i]
               PROVE  got[i + 1] = g[i + 1]
    BY <1>1
  <2>1. i + 1 \in 1..k /\ (i + 1) - 1 = i
    BY <1>1
  <2> QED BY <1>7, <1>11, <2>1
<1> HIDE DEF T
<1>14. 0..k \subseteq T
  BY <1>1, <1>12, <1>13, UpTo
<1>15. got[k] = g[k]
  <2>1. k \in T
    BY <1>1, <1>14
  <2> QED BY <2>1 DEF T
<1>16. g[k].n = num(k) /\ g[k].data = bytes(k)
  BY <1>1 DEF g
<1> QED BY <1>1, <1>2, <1>6, <1>10, <1>15, <1>16

\* What r hands on of what has come to a connection p that has got as far as
\* x: n bytes, the end of the stream after them if it says so, and a
\* connection that has got so much further.
Took(b, p, r, x, n) ==
    /\ n \in Nat /\ r.data = Run(x, n) /\ r.fin \in BOOLEAN /\ r.ok
    /\ PcbAt(b, r.pcb, x + n + Flag(r.fin))
    /\ n + Flag(r.fin) <= p.rcv_wnd
    /\ r.pcb.rcv_wnd = p.rcv_wnd - (n + Flag(r.fin))
    /\ p.ann_edge <= r.pcb.ann_edge
    /\ r.fin => x + n = Bytes /\ r.pcb.ooseq = <<>>

LEMMA LowerQueue ==
  ASSUME NEW b, NEW q, NEW x \in Int, NEW right, QueueAt(b, q, x, right)
  PROVE  QueueAt(b, q, x - 1, right)
<1>1. \A i \in DOMAIN q : x - 1 < q[i].from
  <2> SUFFICES ASSUME NEW i \in DOMAIN q PROVE x - 1 < q[i].from
    OBVIOUS
  <2>1. x < q[i].from /\ SegmentAt(b, q[i])
    BY DEF QueueAt
  <2>2. q[i].from \in Nat
    BY <2>1, SegmentNumbers
  <2> QED BY <2>1, <2>2
<1> QED BY <1>1 DEF QueueAt

\* The segment that is due, with the queue behind it.
LEMMA CutInOrderAt ==
  ASSUME NEW b, Base(b), NEW x \in 0..Bytes, NEW p, OpenAt(b, p, x),
         NEW s, SegmentAt(b, s), s.from = x, x + TcpLen(s) <= x + p.rcv_wnd
  PROVE  /\ QueueAt(b, CutInOrder(p, s), x - 1, x + p.rcv_wnd)
         /\ Len(CutInOrder(p, s)) > 0 /\ CutInOrder(p, s)[1].from = x
<1> DEFINE q == p.ooseq
           right == x + p.rcv_wnd
<1>1. /\ p.rcv_wnd \in Nat /\ x \in Nat /\ TcpLen(s) \in Nat /\ right \in Nat
      /\ QueueAt(b, q, x, right)
  <2>1. p \in Pcb /\ QueueAt(b, q, x, right)
    BY DEF OpenAt
  <2>2. p.rcv_wnd \in Nat /\ x \in Nat
    BY <2>1, ConstantsAssumption DEF Pcb
  <2>3. TcpLen(s) \in Nat
    BY SegmentNumbers
  <2> QED BY <2>1, <2>2, <2>3
<1>2. CutInOrder(p, s) = OosInsert(s, q)
  <2>1. ~ (TcpLen(s) > p.rcv_wnd)
    BY <1>1
  <2> QED BY <2>1 DEF CutInOrder
<1> HIDE DEF q
<1>3. s.from + TcpLen(s) <= right
  BY <1>1
<1> HIDE DEF right
<1>4. QueueAt(b, q, x - 1, right)
  BY <1>1, LowerQueue
<1>5. \A i \in DOMAIN q : s.from <= q[i].from /\ (q[i].from = s.from => q[i].len <= s.len)
  <2> SUFFICES ASSUME NEW i \in DOMAIN q
               PROVE  s.from <= q[i].from /\ (q[i].from = s.from => q[i].len <= s.len)
    OBVIOUS
  <2>1. x < q[i].from /\ SegmentAt(b, q[i])
    BY <1>1 DEF QueueAt
  <2>2. q[i].from \in Nat
    BY <2>1, SegmentNumbers
  <2> QED BY <1>1, <2>1, <2>2
<1>6. x - 1 < s.from
  BY <1>1
<1>7. /\ QueueAt(b, OosInsert(s, q), x - 1, right)
      /\ Len(OosInsert(s, q)) > 0 /\ OosInsert(s, q)[1].from = s.from
  BY <1>1, <1>3, <1>4, <1>5, <1>6, OosInsertAt
<1> QED BY <1>2, <1>7 DEF right

\* What is left of a queue behind the segments that follow one another.
LEMMA BehindFollow ==
  ASSUME NEW b, Base(b), NEW low, NEW right, NEW q, QueueAt(b, q, low, right), Len(q) > 0
  PROVE  LET k == Follow(q)
             end == q[k].from + TcpLen(q[k])
         IN /\ QueueAt(b, Drop(q, k), end, right)
            /\ q[k].fin => Drop(q, k) = <<>>
<1> DEFINE k == Follow(q)
           end == q[k].from + TcpLen(q[k])
           r == Drop(q, k)
           n == Len(q)
<1>1. /\ q \in Seq(Segment) /\ n \in Nat /\ DOMAIN q = 1..n
      /\ \A i \in DOMAIN q : SegmentAt(b, q[i])
  BY DEF QueueAt
<1>2. k \in 1..n /\ (k < n => q[k + 1].seqno # Plus(q[k].seqno, TcpLen(q[k])))
  BY <1>1, FollowAt
<1> HIDE DEF k
<1>3. k \in DOMAIN q
  BY <1>1, <1>2
<1>4. /\ QueueAt(b, r, low, right) /\ Len(r) = n - k /\ DOMAIN r = 1..n - k
      /\ \A i \in 1..n - k : k + i \in DOMAIN q /\ r[i] = q[k + i]
  <2>1. k \in 0..Len(q)
    BY <1>1, <1>2
  <2> QED BY <2>1, DropQueue
<1> HIDE DEF r, n
<1>5. q[k].fin => r = <<>>
  <2> SUFFICES ASSUME q[k].fin PROVE r = <<>>
    OBVIOUS
  <2>1. k = n
    BY <1>3 DEF QueueAt, n
  <2>2. Len(r) = 0
    BY <1>1, <1>4, <2>1
  <2> QED BY <1>4, <2>2 DEF QueueAt
<1>6. ASSUME NEW j \in DOMAIN r PROVE end < r[j].from
  <2>1. /\ k < n /\ k + 1 \in DOMAIN q /\ k + j \in DOMAIN q /\ r[j] = q[k + j]
        /\ j \in Nat /\ j >= 1 /\ k # n
    BY <1>1, <1>2, <1>4
  <2>2. ~ q[k].fin
    BY <1>3, <2>1 DEF QueueAt, n
  <2>3. /\ q[k].from \in Nat /\ q[k].len \in Nat /\ TcpLen(q[k]) = q[k].len
        /\ q[k + 1].from \in Nat /\ q[k + 1].len \in Nat /\ q[k + j].from \in Nat
    <3>1. TcpLen(q[k]) = q[k].len
      BY <1>1, <1>3, <2>2, SegmentNumbers
    <3>2. \A i \in DOMAIN q : q[i].from \in Nat /\ q[i].len \in Nat
      BY <1>1, SegmentNumbers
    <3> QED BY <1>3, <2>1, <3>1, <3>2
  <2>4. Plus(q[k].seqno, TcpLen(q[k])) = b + end /\ q[k + 1].seqno = b + q[k + 1].from
    BY <1>1, <1>3, <2>1, EndAt DEF SegmentAt
  <2>5. end # q[k + 1].from
    BY <1>2, <2>1, <2>4
  <2>6. q[k].from + q[k].len <= q[k + 1].from
    <3>1. k < k + 1
      BY <1>2
    <3> QED BY <1>3, <2>1, <3>1 DEF QueueAt
  <2>7. q[k + 1].from <= q[k + j].from
    <3>1. CASE j = 1
      BY <2>3, <3>1
    <3>2. CASE j # 1
      <4>1. k + 1 < k + j
        BY <1>1, <1>2, <2>1, <3>2
      <4>2. q[k + 1].from + q[k + 1].len <= q[k + j].from
        BY <2>1, <4>1 DEF QueueAt
      <4> QED BY <2>3, <4>2
    <3> QED BY <3>1, <3>2
  <2>8. end = q[k].from + q[k].len
    BY <2>3
  <2> HIDE DEF end
  <2>9. end \in Nat /\ end <= q[k + 1].from /\ end # q[k + 1].from
    BY ONLY <2>3, <2>5, <2>6, <2>8
  <2>10. end < q[k + j].from
    BY ONLY <2>3, <2>7, <2>9
  <2> QED BY <2>1, <2>10
<1>7. QueueAt(b, r, end, right)
  BY <1>4, <1>6 DEF QueueAt
<1> QED BY <1>5, <1>7 DEF k, r

\* Which of the first k segments of a queue has a FIN: the last, if any.
LEMMA LastHasFin ==
  ASSUME NEW b, NEW low, NEW right, NEW q, QueueAt(b, q, low, right), NEW k \in 1..Len(q)
  PROVE  AnyFin(SubSeq(q, 1, k)) = q[k].fin
<1>1. Len(q) \in Nat /\ DOMAIN q = 1..Len(q) /\ k \in DOMAIN q /\ SegmentAt(b, q[k])
  BY DEF QueueAt
<1> DEFINE u == SubSeq(q, 1, k)
<1>2. /\ DOMAIN u = 1..k
      /\ \A i \in DOMAIN u : i \in Nat \ {0} /\ 1 - 1 + i \in 1..k /\ u[i] = q[1 - 1 + i]
  <2>1. 1 \in 1..Len(q) + 1 /\ k \in 0..Len(q) /\ 1 <= k /\ k \in Nat /\ k - 1 + 1 = k
    BY <1>1
  <2>2. /\ QueueAt(b, u, low, right)
        /\ Len(u) = IF 1 <= k THEN k - 1 + 1 ELSE 0
        /\ \A i \in DOMAIN u : i \in Nat \ {0} /\ 1 - 1 + i \in 1..k /\ u[i] = q[1 - 1 + i]
    BY <2>1, PartOfQueue
  <2>3. Len(u) = k
    BY <2>1, <2>2
  <2> QED BY <2>2, <2>3 DEF QueueAt
<1> HIDE DEF u
<1>3. \A i \in DOMAIN u : i \in 1..k /\ u[i] = q[i]
  <2>1. \A i \in Nat : 1 - 1 + i = i
    OBVIOUS
  <2> QED BY <1>2, <2>1
<1>4. k \in DOMAIN u /\ u[k] = q[k]
  <2>1. k \in 1..k
    BY <1>1
  <2> QED BY <1>2, <1>3, <2>1
<1>5. ASSUME NEW i \in DOMAIN u, u[i].fin PROVE q[k].fin
  <2>1. i \in 1..k /\ q[i].fin /\ i \in DOMAIN q
    BY <1>1, <1>3, <1>5
  <2>2. i = Len(q)
    BY <2>1 DEF QueueAt
  <2>3. i = k
    BY <1>1, <2>1, <2>2
  <2> QED BY <2>1, <2>3
<1>6. AnyFin(u) \in BOOLEAN /\ q[k].fin \in BOOLEAN
  BY <1>1, SegmentNumbers DEF AnyFin
<1> QED BY <1>4, <1>5, <1>6 DEF AnyFin, u

LEMMA InOrderAt ==
  ASSUME NEW b, Base(b), NEW x \in 0..Bytes, NEW p, OpenAt(b, p, x),
         NEW s, SegmentAt(b, s), s.from = x, x + TcpLen(s) <= x + p.rcv_wnd
  PROVE  /\ InOrder(p, s).pcb.closing = p.closing
         /\ \E n \in Nat : Took(b, p, InOrder(p, s), x, n) /\ x + n <= Bytes
<1> DEFINE q == CutInOrder(p, s)
           right == x + p.rcv_wnd
           k == Follow(q)
           got == Gathered(q, k)
           fin == AnyFin(SubSeq(q, 1, k))
           wnd == IF got.n > p.rcv_wnd THEN 0 ELSE p.rcv_wnd - got.n
           t == [p EXCEPT !.rcv_nxt = Plus(@, got.n), !.rcv_wnd = wnd, !.ooseq = Drop(q, k)]
           r == InOrder(p, s)
           n == q[k].from + q[k].len - x
           end == q[k].from + TcpLen(q[k])
<1>1. QueueAt(b, q, x - 1, right) /\ Len(q) > 0 /\ q[1].from = x
  BY CutInOrderAt
<1>2. /\ r.pcb = Ack(UpdateAnnWnd(t)) /\ r.data = got.data /\ r.fin = fin
      /\ r.ok = (got.n <= p.rcv_wnd)
  BY DEF InOrder
<1> HIDE DEF r, q
<1>3. /\ p \in Pcb /\ p.rcv_wnd \in 0..Wnd /\ p.rcv_nxt = b + x /\ p.ann_edge \in Nat
      /\ b <= p.ann_edge /\ p.ann_edge <= b + x + p.rcv_wnd
      /\ x \in Nat /\ b \in Nat /\ Bytes \in Nat /\ Wnd \in Nat /\ SeqSize \in Nat
      /\ b + Bytes + Wnd + 1 < SeqSize
  BY ConstantsAssumption DEF OpenAt, Pcb, Base
<1>4. /\ q \in Seq(Segment) /\ DOMAIN q = 1..Len(q) /\ Len(q) \in Nat
  BY <1>1 DEF QueueAt
<1>5. k \in 1..Len(q) /\ Unbroken(q, k)
  BY <1>1, <1>4, FollowAt
<1>6. QueueAt(b, Drop(q, k), end, right) /\ (q[k].fin => Drop(q, k) = <<>>)
  BY <1>1, BehindFollow
<1> HIDE DEF k
<1>7. fin = q[k].fin
  BY <1>1, <1>5, LastHasFin
<1>8. got.n = end - x /\ got.data = Run(x, n) /\ x <= q[k].from
  <2> HIDE DEF right
  <2>1. x \in Nat
    BY <1>3
  <2>2. /\ got.n = (q[k].from + TcpLen(q[k])) - x
        /\ got.data = Run(x, q[k].from + q[k].len - x) /\ x <= q[k].from
    BY <1>1, <1>5, <2>1, GatheredAt
  <2> QED BY <2>2
<1> HIDE DEF got, fin
<1>9. SegmentAt(b, q[k]) /\ end <= right
  BY <1>1, <1>4, <1>5 DEF QueueAt
<1>10. /\ q[k].from \in Nat /\ q[k].len \in Nat /\ q[k].fin \in BOOLEAN
       /\ TcpLen(q[k]) = q[k].len + Flag(q[k].fin)
       /\ q[k].from + q[k].len <= Bytes /\ (q[k].fin => q[k].from + q[k].len = Bytes)
  BY <1>9, SegmentNumbers DEF SegmentAt, Flag
<1>11. /\ n \in Nat /\ x + n = q[k].from + q[k].len /\ x + n <= Bytes
       /\ end = x + n + Flag(fin) /\ Flag(fin) \in {0, 1}
  <2> DEFINE f == q[k].from
             l == q[k].len
  <2>1. /\ f \in Nat /\ l \in Nat /\ x <= f /\ f + l <= Bytes /\ Flag(fin) \in {0, 1}
        /\ end = f + (l + Flag(fin)) /\ n = f + l - x
    BY <1>7, <1>8, <1>10 DEF Flag
  <2> HIDE DEF f, l, n, end
  <2>2. n \in Nat /\ x + n = f + l /\ x + n <= Bytes /\ end = x + n + Flag(fin)
    BY <1>3, <2>1
  <2> QED BY <2>1, <2>2 DEF f, l
<1> DEFINE g == n + Flag(fin)
<1>12. /\ got.n = g /\ g \in Nat /\ g <= p.rcv_wnd /\ end = x + g /\ x + g \in 0..Bytes + 1
       /\ right = (x + g) + (p.rcv_wnd - g) /\ p.rcv_wnd - g \in 0..Wnd /\ wnd = p.rcv_wnd - g
       /\ x + n = q[k].from + q[k].len /\ n \in Nat /\ x + n <= Bytes
  <2> HIDE DEF n, end
  <2>1. g \in Nat /\ end = x + g /\ x + g \in 0..Bytes + 1 /\ got.n = g
    BY <1>3, <1>8, <1>11
  <2> HIDE DEF g
  <2>2. g <= p.rcv_wnd
    BY <1>3, <1>9, <2>1
  <2> QED BY <1>3, <1>11, <2>1, <2>2
<1> HIDE DEF n, end, right, g, wnd
<1>13. Plus(p.rcv_nxt, got.n) = b + (x + g)
  <2>1. x + g <= Bytes + Wnd + 1
    BY <1>3, <1>12
  <2>2. Plus(b + x, g) = b + x + g
    BY <1>3, <1>12, <2>1, PlusAt
  <2> QED BY <1>3, <1>12, <2>2
<1>14. t \in Pcb
  <2>1. b + (x + g) \in 0..SeqSize - 1 /\ Drop(q, k) \in Seq(Segment)
    BY <1>3, <1>6, <1>12 DEF QueueAt
  <2>2. Plus(p.rcv_nxt, got.n) \in 0..SeqSize - 1 /\ wnd \in 0..Wnd
    BY <1>12, <1>13, <2>1
  <2> QED BY <1>3, <2>1, <2>2 DEF Pcb
<1>15. /\ t.rcv_nxt = b + (x + g) /\ t.rcv_wnd = p.rcv_wnd - g /\ t.ooseq = Drop(q, k)
       /\ t.ann_edge = p.ann_edge /\ t.closing = p.closing
  BY <1>3, <1>12, <1>13 DEF Pcb
<1> HIDE DEF t
<1>16. OpenAt(b, t, x + g)
  <2>1. QueueAt(b, t.ooseq, x + g, (x + g) + t.rcv_wnd)
    BY <1>6, <1>12, <1>15
  <2>2. t.ann_edge <= b + (x + g) + t.rcv_wnd
    BY <1>3, <1>12, <1>15
  <2> QED BY <1>3, <1>14, <1>15, <2>1, <2>2 DEF OpenAt
<1>17. PcbAt(b, UpdateAnnWnd(t), x + g) /\ Alike(t, UpdateAnnWnd(t))
  BY <1>12, <1>16, UpdateAnnWndAt
<1>18. PcbAt(b, r.pcb, x + g) /\ Alike(UpdateAnnWnd(t), r.pcb)
  BY <1>2, <1>12, <1>17, AckAt
<1>19. /\ r.pcb.rcv_wnd = p.rcv_wnd - g /\ r.pcb.ooseq = Drop(q, k)
       /\ r.pcb.closing = p.closing /\ p.ann_edge <= r.pcb.ann_edge
  <2>1. UpdateAnnWnd(t).ann_edge \in Nat /\ r.pcb.ann_edge \in Nat
    BY <1>17, <1>18, ConstantsAssumption DEF Alike, Pcb
  <2>2. p.ann_edge <= UpdateAnnWnd(t).ann_edge /\ UpdateAnnWnd(t).ann_edge <= r.pcb.ann_edge
    BY <1>15, <1>17, <1>18 DEF Alike
  <2>3. p.ann_edge <= r.pcb.ann_edge
    BY <1>3, <2>1, <2>2
  <2> QED BY <1>15, <1>17, <1>18, <2>3 DEF Alike
<1>20. r.data = Run(x, n) /\ r.fin = fin /\ fin \in BOOLEAN /\ r.ok
  BY <1>2, <1>7, <1>8, <1>10, <1>12
<1>21. fin => x + n = Bytes /\ Drop(q, k) = <<>>
  BY <1>6, <1>7, <1>10, <1>12
<1>22. x + n + Flag(r.fin) = x + g /\ n + Flag(r.fin) = g
  <2>1. Flag(fin) \in Nat
    BY DEF Flag
  <2> QED BY <1>3, <1>12, <1>20, <2>1 DEF g
<1>23. Took(b, p, r, x, n)
  BY <1>12, <1>18, <1>19, <1>20, <1>21, <1>22 DEF Took
<1> QED BY <1>12, <1>19, <1>23 DEF r

\* ---- A segment arrives ----

\* The bytes before what is due are cut off; where the segment ends is the same.
LEMMA TrimLeftAt ==
  ASSUME NEW b, Base(b), NEW x \in 0..Bytes + 1, NEW p, p.rcv_nxt = b + x,
         NEW s, SegmentAt(b, s)
  PROVE  /\ SegmentAt(b, TrimLeft(p, s))
         /\ TrimLeft(p, s).from + TcpLen(TrimLeft(p, s)) = s.from + TcpLen(s)
<1> DEFINE due == Between(p.rcv_nxt, Plus(s.seqno, 1), Plus(s.seqno, TcpLen(s) + SeqSize - 1))
           off == Minus(p.rcv_nxt, s.seqno)
           t == TrimLeft(p, s)
<1>1. /\ s \in Segment /\ s.seqno = b + s.from /\ s.len = s.tot
      /\ s.from \in Nat /\ s.len \in Nat /\ s.fin \in BOOLEAN
      /\ TcpLen(s) \in Nat /\ TcpLen(s) > 0 /\ TcpLen(s) = s.len + (IF s.fin THEN 1 ELSE 0)
      /\ s.from + TcpLen(s) <= Bytes + 1
      /\ b \in Nat /\ x \in Nat /\ Bytes \in Nat /\ Wnd \in Nat /\ SeqSize \in Nat
      /\ b + Bytes + Wnd + 1 < SeqSize
  BY SegmentNumbers, ConstantsAssumption DEF SegmentAt, Base
<1>2. CASE ~ due
  <2>1. t = s
    BY <1>2 DEF TrimLeft
  <2> QED BY <2>1
<1>3. CASE due
  <2> DEFINE f == s.from
             l == TcpLen(s)
  <2>1. /\ f \in Nat /\ l \in Nat /\ l > 0 /\ f + l <= Bytes + 1 /\ l = s.len + (IF s.fin THEN 1 ELSE 0)
        /\ f + 1 \in 0..Bytes + Wnd + 1 /\ f + l - 1 \in 0..Bytes + Wnd + 1
        /\ x \in 0..Bytes + Wnd + 1 /\ f \in 0..Bytes + Wnd + 1
    <3> HIDE DEF f, l
    <3>1. f \in Nat /\ l \in Nat /\ l > 0 /\ f + l <= Bytes + 1
      BY <1>1 DEF f, l
    <3>2. l = s.len + (IF s.fin THEN 1 ELSE 0)
      BY <1>1 DEF l
    <3> QED BY <1>1, <3>1, <3>2
  <2>2. /\ Plus(s.seqno, 1) = b + (f + 1)
        /\ Plus(s.seqno, l + SeqSize - 1) = b + (f + l - 1)
    <3>1. f + 1 <= Bytes + Wnd + 1 /\ f + l <= Bytes + Wnd + 1 /\ l \in Nat \ {0}
      BY <1>1, <2>1
    <3>2. Plus(b + f, 1) = b + f + 1
      BY <2>1, <3>1, PlusAt
    <3>3. Plus(b + f, l + SeqSize - 1) = b + f + l - 1
      BY <2>1, <3>1, BackAt
    <3> HIDE DEF l
    <3> QED BY <1>1, <2>1, <3>2, <3>3
  <2> HIDE DEF f, l
  <2>3. f + 1 <= x /\ x <= f + l - 1
    <3>1. SeqLeq(b + (f + 1), b + x) /\ SeqLeq(b + x, b + (f + l - 1))
      BY <1>3, <2>2 DEF Between, l
    <3> QED BY <2>1, <3>1, LtAt
  <2>4. off = x - f
    <3>1. f <= x
      BY <2>1, <2>3, <1>1
    <3>2. Minus(b + x, b + f) = x - f
      BY <2>1, <3>1, MinusAt
    <3> QED BY <1>1, <3>2 DEF f
  <2> DEFINE o == x - f
  <2>5. /\ o \in Nat /\ o <= s.len /\ s.len - o \in Nat /\ f + o = x
        /\ (s.len - o) + (IF s.fin THEN 1 ELSE 0) > 0
        /\ x + (s.len - o) = f + s.len
    BY <1>1, <2>1, <2>3
  <2>6. t = [s EXCEPT !.seqno = p.rcv_nxt, !.len = @ - o, !.from = @ + o, !.tot = @ - o]
    BY <1>3, <2>4 DEF TrimLeft
  <2>7. f = s.from /\ s.tot - o = s.len - o /\ s.from + o = x
    BY <1>1, <2>5 DEF f
  <2>8. b + x \in 0..SeqSize - 1
    BY <1>1
  <2> HIDE DEF t, o
  <2>9. t \in Segment
    BY <1>1, <2>5, <2>6, <2>7, <2>8 DEF Segment
  <2>10. /\ t.seqno = b + x /\ t.from = x /\ t.len = s.len - o /\ t.tot = s.len - o
         /\ t.fin = s.fin
    BY <1>1, <2>6, <2>7 DEF Segment
  <2>11. TcpLen(t) = (s.len - o) + (IF s.fin THEN 1 ELSE 0)
    BY <2>10 DEF TcpLen, Flag
  <2>12. x + (s.len - o) = s.from + s.len
    BY <2>5, <2>7
  <2>13. SegmentAt(b, t)
    <3>1. TcpLen(t) > 0
      BY <2>5, <2>11
    <3> QED BY <2>9, <2>10, <2>12, <3>1 DEF SegmentAt
  <2>14. t.from + TcpLen(t) = s.from + TcpLen(s)
    <3> DEFINE g == IF s.fin THEN 1 ELSE 0
    <3>1. g \in Nat /\ TcpLen(t) = (s.len - o) + g /\ TcpLen(s) = s.len + g
      BY <1>1, <2>11
    <3> HIDE DEF g
    <3>2. x + ((s.len - o) + g) = s.from + (s.len + g)
      BY <1>1, <2>5, <2>12, <3>1
    <3> QED BY <2>10, <3>1, <3>2
  <2> QED BY <2>13, <2>14 DEF t
<1> QED BY <1>2, <1>3

\* Nothing is handed on.
LEMMA NothingAt ==
  ASSUME NEW b, NEW x \in Nat, NEW p, p.rcv_wnd \in Nat,
         NEW q, PcbAt(b, q, x), q.rcv_wnd = p.rcv_wnd, p.ann_edge <= q.ann_edge
  PROVE  Took(b, p, Nothing(q), x, 0)
<1> DEFINE r == Nothing(q)
<1>1. r.pcb = q /\ r.data = <<>> /\ r.fin = FALSE /\ r.ok = TRUE
  BY DEF Nothing
<1> HIDE DEF r
<1>2. Flag(r.fin) = 0 /\ Run(x, 0) = <<>>
  BY <1>1, NoRun DEF Flag
<1>3. /\ x + 0 + Flag(r.fin) = x /\ 0 + Flag(r.fin) <= p.rcv_wnd
      /\ r.pcb.rcv_wnd = p.rcv_wnd - (0 + Flag(r.fin)) /\ 0 \in Nat
  BY <1>1, <1>2
<1>4. r.data = Run(x, 0) /\ r.fin \in BOOLEAN /\ r.ok /\ ~ r.fin
  BY <1>1, <1>2
<1>5. PcbAt(b, r.pcb, x + 0 + Flag(r.fin)) /\ p.ann_edge <= r.pcb.ann_edge
  BY <1>1, <1>3, Zenon
<1>6. Took(b, p, r, x, 0)
  BY <1>3, <1>4, <1>5, Zenon DEF Took
<1> QED BY <1>6 DEF r

\* Another queue, or the state CLOSE_WAIT.
LEMMA OtherQueue ==
  ASSUME NEW b, NEW x, NEW p, PcbAt(b, p, x), NEW q, QueueAt(b, q, x, x + p.rcv_wnd)
  PROVE  LET r == [p EXCEPT !.ooseq = q]
         IN /\ PcbAt(b, r, x) /\ r.rcv_wnd = p.rcv_wnd /\ r.ann_edge = p.ann_edge
            /\ r.closing = p.closing
<1> DEFINE r == [p EXCEPT !.ooseq = q]
<1>1. p \in Pcb /\ q \in Seq(Segment)
  BY DEF PcbAt, OpenAt, QueueAt
<1>2. r \in Pcb
  BY <1>1 DEF Pcb
<1>3. /\ r.rcv_nxt = p.rcv_nxt /\ r.rcv_wnd = p.rcv_wnd /\ r.ann_edge = p.ann_edge
      /\ r.ann_wnd = p.ann_wnd /\ r.ooseq = q /\ r.closing = p.closing
  BY <1>1 DEF Pcb
<1> HIDE DEF r
<1>4. PcbAt(b, r, x)
  BY <1>2, <1>3 DEF PcbAt, OpenAt
<1> QED BY <1>3, <1>4 DEF r

LEMMA ClosingAt ==
  ASSUME NEW b, NEW x, NEW p, PcbAt(b, p, x)
  PROVE  LET r == [p EXCEPT !.closing = TRUE]
         IN /\ PcbAt(b, r, x) /\ r.rcv_wnd = p.rcv_wnd /\ r.ann_edge = p.ann_edge
            /\ r.ooseq = p.ooseq /\ r.closing
<1> DEFINE r == [p EXCEPT !.closing = TRUE]
<1>1. p \in Pcb
  BY DEF PcbAt, OpenAt
<1>2. r \in Pcb
  BY <1>1 DEF Pcb
<1>3. /\ r.rcv_nxt = p.rcv_nxt /\ r.rcv_wnd = p.rcv_wnd /\ r.ann_edge = p.ann_edge
      /\ r.ann_wnd = p.ann_wnd /\ r.ooseq = p.ooseq /\ r.closing = TRUE
  BY <1>1 DEF Pcb
<1> HIDE DEF r
<1>4. PcbAt(b, r, x)
  BY <1>2, <1>3 DEF PcbAt, OpenAt
<1> QED BY <1>3, <1>4 DEF r

\* Where the sender stays within what it was promised, or a byte behind what is
\* due to probe a closed window.
Promised(p, x, s) ==
    s.from + TcpLen(s) <= x + p.rcv_wnd \/ s.from + TcpLen(s) <= x + 1

\* tcp_receive and the passive close: bytes in order, acknowledged as they are
\* handed on, and no assertion fails.
LEMMA ReceiveAt ==
  ASSUME NEW b, Base(b), NEW x \in 0..Bytes + 1, NEW p, PcbAt(b, p, x),
         p.closing => x = Bytes + 1, ~ p.closing => x <= Bytes,
         NEW s, SegmentAt(b, s), Promised(p, x, s)
  PROVE  LET r == Receive(p, s)
         IN \E n \in Nat :
              /\ Took(b, p, r, x, n)
              /\ ~ p.closing => x + n <= Bytes /\ r.pcb.closing = r.fin
              /\ p.closing => n = 0 /\ ~ r.fin /\ r.pcb.ooseq = p.ooseq /\ r.pcb.closing
<1> DEFINE r == Receive(p, s)
           inWindow(y) == Between(y.seqno, p.rcv_nxt, Plus(p.rcv_nxt, p.rcv_wnd + SeqSize - 1))
           t == TrimLeft(p, s)
           q == IF SeqLt(t.seqno, p.rcv_nxt) THEN AckNow(p) ELSE p
           early == [SendEmptyAck(q) EXCEPT !.ooseq = QueueEarly(p, t)]
           in == InOrder(q, t)
<1>1. /\ p \in Pcb /\ p.rcv_nxt = b + x /\ p.rcv_wnd \in 0..Wnd /\ p.closing \in BOOLEAN
      /\ p.ann_edge \in Nat /\ x \in Nat /\ b \in Nat /\ Bytes \in Nat /\ Wnd \in Nat
      /\ OpenAt(b, p, x)
  <2>1. p \in Pcb /\ p.rcv_nxt = b + x /\ OpenAt(b, p, x)
    BY DEF PcbAt, OpenAt
  <2>2. x \in Nat /\ b \in Nat /\ Bytes \in Nat /\ Wnd \in Nat /\ SeqSize \in Nat
    BY ConstantsAssumption DEF Base
  <2>3. p.rcv_wnd \in 0..Wnd /\ p.closing \in BOOLEAN /\ p.ann_edge \in Nat
    BY <2>1, <2>2 DEF Pcb
  <2> QED BY <2>1, <2>2, <2>3
<1>2. /\ SegmentAt(b, t) /\ t.from + TcpLen(t) = s.from + TcpLen(s)
      /\ t.from \in Nat /\ TcpLen(t) \in Nat /\ TcpLen(t) > 0
      /\ t.from \in 0..Bytes + 1 /\ t.seqno = b + t.from /\ TcpLen(s) # 0
  <2>1. SegmentAt(b, t) /\ t.from + TcpLen(t) = s.from + TcpLen(s)
    BY <1>1, TrimLeftAt
  <2>2. t.from \in Nat /\ TcpLen(t) \in Nat /\ t.from + TcpLen(t) <= Bytes + 1 /\ TcpLen(s) \in Nat
    BY <2>1, SegmentNumbers
  <2>3. TcpLen(s) > 0 /\ TcpLen(t) > 0 /\ t.seqno = b + t.from
    BY <2>1 DEF SegmentAt
  <2>4. t.from \in 0..Bytes + 1 /\ TcpLen(s) # 0
    <3> DEFINE f == t.from
               l == TcpLen(t)
    <3>1. f \in Nat /\ l \in Nat /\ f + l <= Bytes + 1
      BY <2>2
    <3> HIDE DEF f, l
    <3>2. f \in 0..Bytes + 1
      BY <1>1, <3>1
    <3> QED BY <2>2, <2>3, <3>2 DEF f
  <2> QED BY <2>1, <2>2, <2>3, <2>4
<1>3. r = IF TcpLen(s) = 0 \/ p.closing
          THEN Nothing(IF inWindow(s) THEN p ELSE AckNow(p))
          ELSE IF ~ inWindow(t) THEN Nothing(SendEmptyAck(q))
          ELSE IF t.seqno # p.rcv_nxt THEN Nothing(early)
          ELSE IF in.fin THEN [in EXCEPT !.pcb = AckNow([in.pcb EXCEPT !.closing = TRUE])]
          ELSE in
  BY DEF Receive
<1>4. inWindow(t) <=> x <= t.from /\ t.from < x + p.rcv_wnd
  BY <1>1, <1>2, InWindow
<1>5. PcbAt(b, AckNow(p), x) /\ Alike(p, AckNow(p)) /\ Alike(p, p)
  BY <1>1, AckNowAt DEF Alike
<1>6. PcbAt(b, q, x) /\ Alike(p, q)
  BY <1>5
<1> HIDE DEF r, t, q, inWindow, early, in
<1>7. CASE p.closing
  <2> DEFINE u == IF inWindow(s) THEN p ELSE AckNow(p)
  <2>1. PcbAt(b, u, x) /\ Alike(p, u)
    BY <1>5
  <2>2. r = Nothing(u)
    BY <1>3, <1>7
  <2> HIDE DEF u
  <2>3. Took(b, p, r, x, 0)
    BY <1>1, <2>1, <2>2, NothingAt DEF Alike
  <2>4. r.pcb = u /\ r.fin = FALSE
    BY <2>2 DEF Nothing
  <2>5. ~ r.fin /\ r.pcb.ooseq = p.ooseq /\ r.pcb.closing
    BY <1>7, <2>1, <2>4 DEF Alike
  <2> QED BY <1>7, <2>3, <2>5 DEF r
<1>8. CASE ~ p.closing /\ ~ inWindow(t)
  <2>1. r = Nothing(SendEmptyAck(q))
    BY <1>2, <1>3, <1>8
  <2>2. PcbAt(b, SendEmptyAck(q), x) /\ Alike(q, SendEmptyAck(q))
    BY <1>6, SendEmptyAckAt
  <2> DEFINE u == SendEmptyAck(q)
  <2>3. Alike(p, u) /\ PcbAt(b, u, x)
    <3>1. u.ann_edge \in Nat /\ q.ann_edge \in Nat
      BY <1>6, <2>2, ConstantsAssumption DEF Alike, Pcb
    <3> HIDE DEF u
    <3> QED BY <1>1, <1>6, <2>2, <3>1 DEF Alike, u
  <2>4. r = Nothing(u)
    BY <2>1
  <2> HIDE DEF u
  <2>5. Took(b, p, r, x, 0)
    BY <1>1, <2>3, <2>4, NothingAt DEF Alike
  <2>6. r.pcb = u /\ r.fin = FALSE
    BY <2>4 DEF Nothing
  <2>7. r.pcb.closing = r.fin
    BY <1>1, <1>8, <2>3, <2>6 DEF Alike
  <2>8. x + 0 <= Bytes
    BY <1>1, <1>8
  <2> QED BY <1>8, <2>5, <2>7, <2>8 DEF r
\* In the window, and so within it from the first byte to the last.
<1>9. inWindow(t) => x <= t.from /\ t.from + TcpLen(t) <= x + p.rcv_wnd
  <2> SUFFICES ASSUME inWindow(t) PROVE x <= t.from /\ t.from + TcpLen(t) <= x + p.rcv_wnd
    OBVIOUS
  <2> DEFINE f == t.from
             l == TcpLen(t)
  <2>1. f \in Nat /\ l \in Nat /\ x <= f /\ f < x + p.rcv_wnd
    BY <1>2, <1>4
  <2>2. f + l <= x + p.rcv_wnd \/ f + l <= x + 1
    BY <1>2 DEF Promised
  <2> HIDE DEF f, l
  <2>3. x <= f /\ f + l <= x + p.rcv_wnd
    BY <1>1, <2>1, <2>2
  <2> QED BY <2>3 DEF f, l
<1>10. CASE ~ p.closing /\ inWindow(t) /\ t.seqno # p.rcv_nxt
  <2>1. r = Nothing(early)
    BY <1>2, <1>3, <1>10
  <2>2. x < t.from
    BY <1>1, <1>2, <1>9, <1>10
  <2>3. QueueAt(b, QueueEarly(p, t), x, x + p.rcv_wnd)
    BY <1>1, <1>2, <1>9, <1>10, <2>2, QueueEarlyAt
  <2>4. PcbAt(b, SendEmptyAck(q), x) /\ Alike(q, SendEmptyAck(q))
    BY <1>6, SendEmptyAckAt
  <2> DEFINE u == SendEmptyAck(q)
  <2>5. /\ u.ann_edge \in Nat /\ q.ann_edge \in Nat
        /\ u.rcv_wnd = p.rcv_wnd /\ u.closing = p.closing
    BY <1>6, <2>4, ConstantsAssumption DEF Alike, Pcb
  <2>6. p.ann_edge <= u.ann_edge
    <3> HIDE DEF u
    <3> QED BY <1>1, <1>6, <2>4, <2>5 DEF Alike, u
  <2> HIDE DEF u
  <2>7. PcbAt(b, u, x) /\ early = [u EXCEPT !.ooseq = QueueEarly(p, t)]
    BY <2>4 DEF early, u
  <2>8. /\ PcbAt(b, early, x) /\ early.rcv_wnd = p.rcv_wnd /\ early.closing = p.closing
        /\ p.ann_edge <= early.ann_edge
    BY <2>3, <2>5, <2>6, <2>7, OtherQueue
  <2>9. Took(b, p, r, x, 0)
    BY <1>1, <2>1, <2>8, NothingAt
  <2>10. r.pcb = early /\ r.fin = FALSE
    BY <2>1 DEF Nothing
  <2>11. r.pcb.closing = r.fin
    BY <1>1, <1>10, <2>8, <2>10
  <2>12. x + 0 <= Bytes
    BY <1>1, <1>10
  <2> QED BY <1>10, <2>9, <2>11, <2>12 DEF r
<1>11. CASE ~ p.closing /\ inWindow(t) /\ t.seqno = p.rcv_nxt
  <2>1. t.from = x /\ x \in 0..Bytes /\ x + TcpLen(t) <= x + q.rcv_wnd
    BY <1>1, <1>2, <1>6, <1>9, <1>11 DEF Alike
  <2>2. OpenAt(b, q, x)
    BY <1>6 DEF PcbAt
  <2>3. in.pcb.closing = q.closing /\ \E n \in Nat : Took(b, q, in, x, n) /\ x + n <= Bytes
    BY <1>2, <2>1, <2>2, InOrderAt DEF in
  <2>4. PICK n \in Nat : Took(b, q, in, x, n) /\ x + n <= Bytes
    BY <2>3
  <2>5. Took(b, p, in, x, n)
    <3>1. q.ann_edge \in Nat /\ in.pcb.ann_edge \in Nat
      <4>1. q \in Pcb
        BY <1>6 DEF Alike
      <4>2. in.pcb \in Pcb
        BY <2>4 DEF Took, PcbAt, OpenAt
      <4> QED BY <4>1, <4>2, ConstantsAssumption DEF Pcb
    <3>2. p.ann_edge <= q.ann_edge /\ q.ann_edge <= in.pcb.ann_edge
      BY <1>6, <2>4 DEF Alike, Took
    <3>3. p.ann_edge <= in.pcb.ann_edge
      BY <1>1, <3>1, <3>2
    <3>4. q.rcv_wnd = p.rcv_wnd
      BY <1>6 DEF Alike
    <3> QED BY <2>4, <3>3, <3>4 DEF Took
  <2>6. CASE ~ in.fin
    <3>1. r = in
      BY <1>2, <1>3, <1>11, <2>6
    <3>2. r.pcb.closing = r.fin
      BY <1>1, <1>6, <1>11, <2>3, <2>5, <2>6, <3>1 DEF Alike, Took
    <3> QED BY <1>11, <2>4, <2>5, <3>1, <3>2 DEF r
  <2>7. CASE in.fin
    <3> DEFINE u == [in.pcb EXCEPT !.closing = TRUE]
               v == AckNow(u)
               y == x + n + Flag(in.fin)
    <3>1. r = [in EXCEPT !.pcb = v]
      BY <1>2, <1>3, <1>11, <2>7
    <3>2. /\ PcbAt(b, in.pcb, y) /\ y \in 0..Bytes + 1
          /\ in.pcb.ann_edge \in Nat /\ p.ann_edge <= in.pcb.ann_edge
      <4>1. PcbAt(b, in.pcb, y) /\ p.ann_edge <= in.pcb.ann_edge
        BY <2>5 DEF Took
      <4>2. Flag(in.fin) = 1
        BY <2>7 DEF Flag
      <4>3. y \in 0..Bytes + 1
        BY <1>1, <2>4, <4>2
      <4>4. in.pcb \in Pcb
        BY <4>1 DEF PcbAt, OpenAt
      <4>5. in.pcb.ann_edge \in Nat
        BY <4>4, ConstantsAssumption DEF Pcb
      <4> QED BY <4>1, <4>3, <4>5
    <3>3. /\ PcbAt(b, u, y) /\ u.rcv_wnd = in.pcb.rcv_wnd /\ u.ann_edge = in.pcb.ann_edge
          /\ u.ooseq = in.pcb.ooseq /\ u.closing
      BY <3>2, ClosingAt
    <3> HIDE DEF u, y
    <3>4. PcbAt(b, v, y) /\ Alike(u, v)
      BY <3>2, <3>3, AckNowAt
    <3>5. v.ann_edge \in Nat
      BY <3>4, ConstantsAssumption DEF Alike, Pcb
    <3>6. /\ v.rcv_wnd = in.pcb.rcv_wnd /\ v.ooseq = in.pcb.ooseq /\ v.closing
          /\ p.ann_edge <= v.ann_edge
      BY <1>1, <3>2, <3>3, <3>4, <3>5 DEF Alike
    <3> HIDE DEF v
    <3>7. r.pcb = v /\ r.data = in.data /\ r.fin = in.fin /\ r.ok = in.ok
      <4>1. in = InOrder(q, t)
        BY DEF in
      <4> QED BY <3>1, <4>1 DEF InOrder
    <3>8. Took(b, p, r, x, n)
      BY <2>5, <3>4, <3>6, <3>7 DEF Took, y
    <3>9. r.pcb.closing = r.fin
      BY <2>5, <2>7, <3>3, <3>4, <3>7 DEF Took, Alike
    <3> QED BY <1>11, <2>4, <3>8, <3>9 DEF r
  <2> QED BY <2>6, <2>7
<1> QED BY <1>1, <1>7, <1>8, <1>10, <1>11

\* ---- The steps ----

\* What a sender may send that has been promised what the edge says.
LEMMA SendableAt ==
  ASSUME NEW x \in 0..Bytes + 1, Base(isn), PcbAt(isn, pcb, x), ~ FinBeyond,
         NEW s \in Sendable, TcpLen(s) > 0
  PROVE  SegmentAt(isn, s) /\ Promised(pcb, x, s)
<1> DEFINE edge == Pos(pcb.ann_edge)
           limit == Min2(Bytes, IF pcb.ann_edge = pcb.rcv_nxt THEN edge + 1 ELSE edge)
           e == pcb.ann_edge - isn
<1>1. /\ pcb \in Pcb /\ pcb.rcv_nxt = isn + x /\ isn <= pcb.ann_edge
      /\ pcb.ann_edge <= isn + x + pcb.rcv_wnd
  BY DEF PcbAt, OpenAt
<1>2. /\ x \in Nat /\ isn \in Nat /\ Bytes \in Nat /\ Wnd \in Nat /\ SeqSize \in Nat
      /\ isn + Bytes + Wnd + 1 < SeqSize
  BY ConstantsAssumption DEF Base
<1>3. pcb.ann_edge \in Nat /\ pcb.rcv_wnd \in 0..Wnd
  BY <1>1, <1>2 DEF Pcb
<1>4. /\ e \in 0..Bytes + Wnd + 1 /\ pcb.ann_edge = isn + e /\ e <= x + pcb.rcv_wnd
      /\ 0 \in 0..Bytes + Wnd + 1
  BY <1>1, <1>2, <1>3
<1> HIDE DEF e
<1>5. edge = e
  <2>1. Minus(isn + e, isn + 0) = e - 0
    BY <1>2, <1>4, MinusAt
  <2> QED BY <1>2, <1>4, <2>1 DEF Pos
<1>6. limit \in Nat /\ limit <= Bytes /\ (limit <= x + pcb.rcv_wnd \/ limit <= x + 1)
  <2>1. pcb.ann_edge = pcb.rcv_nxt => e = x
    BY <1>1, <1>2, <1>4
  <2> HIDE DEF edge
  <2> QED BY <1>2, <1>3, <1>4, <1>5, <2>1 DEF Min2
<1>7. PICK from \in 0..limit, len \in 0..limit, fin \in BOOLEAN : s = Cut(from, len, fin)
  BY DEF Sendable
<1>8. /\ s.from + s.len <= limit
      /\ s.fin => s.from + s.len = Bytes /\ (FinBeyond \/ Bytes < edge)
  BY DEF Sendable
<1> HIDE DEF limit, edge
<1>9. SeqNo(from) = isn + from
  <2>1. isn + from \in Nat /\ isn + from < SeqSize
    BY <1>2, <1>6
  <2> QED BY <1>2, <2>1, Divides DEF SeqNo
<1>10. /\ s.seqno = isn + from /\ s.len = len /\ s.fin = fin /\ s.from = from /\ s.tot = len
       /\ s = [seqno |-> isn + from, len |-> len, fin |-> fin, from |-> from, tot |-> len]
  BY <1>7, <1>9 DEF Cut
<1>11. s \in Segment
  <2>1. isn + from \in 0..SeqSize - 1 /\ len \in Nat /\ from \in Nat
    BY <1>2, <1>6
  <2> QED BY <1>10, <2>1 DEF Segment
<1>12. from + len <= limit /\ (fin => from + len = Bytes /\ Bytes < edge)
  BY <1>8, <1>10
<1>13. SegmentAt(isn, s)
  BY <1>2, <1>6, <1>10, <1>11, <1>12 DEF SegmentAt
<1>14. TcpLen(s) = len + (IF fin THEN 1 ELSE 0)
  BY <1>10 DEF TcpLen, Flag
<1>15. from + TcpLen(s) <= x + pcb.rcv_wnd \/ from + TcpLen(s) <= x + 1
  <2>1. CASE fin
    BY <1>2, <1>3, <1>4, <1>5, <1>6, <1>12, <1>14, <2>1
  <2>2. CASE ~ fin
    BY <1>2, <1>3, <1>6, <1>12, <1>14, <2>2
  <2> QED BY <2>1, <2>2
<1> QED BY <1>10, <1>13, <1>15 DEF Promised

\* What the invariant says of where the connection is.
LEMMA Place ==
  ASSUME NEW p, NEW d, NEW fin, Holding(p, d, fin), stream \in Seq(Nat), eof \in Nat
  PROVE  LET n == Len(stream \o d)
             x == n + Flag(p.closing)
         IN /\ n \in 0..Bytes /\ x \in 0..Bytes + 1 /\ PcbAt(isn, p, x)
            /\ p.closing \in BOOLEAN /\ p.rcv_wnd \in 0..Wnd /\ p.ann_edge \in Nat
            /\ p.closing => x = Bytes + 1
            /\ ~ p.closing => x = n /\ x <= Bytes
<1> DEFINE n == Len(stream \o d)
           x == n + Flag(p.closing)
<1>1. stream \o d \in Seq(Nat)
  BY DEF Holding
<1>2. n \in Nat /\ n <= Bytes /\ PcbAt(isn, p, x) /\ (p.closing => n = Bytes)
  BY <1>1 DEF Holding
<1>3. p \in Pcb
  BY <1>2 DEF PcbAt, OpenAt
<1>4. p.closing \in BOOLEAN /\ p.rcv_wnd \in 0..Wnd /\ p.ann_edge \in Nat /\ Bytes \in Nat
  BY <1>3, ConstantsAssumption DEF Pcb
<1> HIDE DEF n
<1>5. /\ n \in 0..Bytes /\ x \in 0..Bytes + 1
      /\ p.closing => x = Bytes + 1
      /\ ~ p.closing => x = n /\ x <= Bytes
  <2>1. CASE p.closing
    <3>1. x = n + 1
      BY <2>1 DEF Flag
    <3>2. n = Bytes /\ n \in Nat
      BY <1>2, <2>1
    <3> HIDE DEF x
    <3> QED BY <1>4, <2>1, <3>1, <3>2
  <2>2. CASE ~ p.closing
    <3>1. x = n + 0
      BY <2>2 DEF Flag
    <3>2. n \in Nat /\ n <= Bytes
      BY <1>2
    <3> HIDE DEF x
    <3> QED BY <1>4, <2>2, <3>1, <3>2
  <2> QED BY <2>1, <2>2
<1> QED BY <1>2, <1>4, <1>5 DEF n

\* A segment with data or a FIN.
LEMMA ReceiveHolds ==
  ASSUME NoWrap, ~ FinBeyond, IInv, refused.bytes = <<>>,
         NEW s \in Sendable, TcpLen(s) > 0
  PROVE  LET r == Receive(pcb, s)
         IN /\ Holding(r.pcb, r.data, r.fin) /\ r.ok /\ pcb.ann_edge <= r.pcb.ann_edge
            /\ pcb.ann_edge \in Nat /\ r.pcb.ann_edge \in Nat
<1> DEFINE r == Receive(pcb, s)
           g == Len(stream)
           x == g + Flag(pcb.closing)
<1>1. /\ isn \in Isn /\ stream \in Seq(Nat) /\ eof \in Nat /\ unread \in Nat
      /\ refused.fin \in BOOLEAN /\ g \in Nat /\ Bytes \in Nat /\ Wnd \in Nat
  BY ConstantsAssumption DEF IInv, TypeOK
<1>2. Base(isn)
  BY <1>1 DEF NoWrap
<1>3. Holding(pcb, <<>>, FALSE) /\ stream \o <<>> = stream
  <2>1. Holding(pcb, refused.bytes, refused.fin) /\ ~ refused.fin
    BY DEF IInv
  <2>2. refused.fin = FALSE
    BY <1>1, <2>1
  <2>3. stream \o <<>> = stream
    BY <1>1
  <2> QED BY <2>1, <2>2, <2>3
<1>4. /\ g \in 0..Bytes /\ x \in 0..Bytes + 1 /\ PcbAt(isn, pcb, x)
      /\ pcb.closing \in BOOLEAN /\ pcb.rcv_wnd \in 0..Wnd /\ pcb.ann_edge \in Nat
      /\ pcb.closing => x = Bytes + 1
      /\ ~ pcb.closing => x = g /\ x <= Bytes
  <2>1. LET n == Len(stream \o <<>>)
            y == n + Flag(pcb.closing)
        IN /\ n \in 0..Bytes /\ y \in 0..Bytes + 1 /\ PcbAt(isn, pcb, y)
           /\ pcb.closing \in BOOLEAN /\ pcb.rcv_wnd \in 0..Wnd /\ pcb.ann_edge \in Nat
           /\ pcb.closing => y = Bytes + 1
           /\ ~ pcb.closing => y = n /\ y <= Bytes
    BY <1>1, <1>3, Place
  <2> QED BY <1>3, <2>1
<1>5. /\ stream = Run(0, g) /\ (pcb.closing => g = Bytes /\ pcb.ooseq = <<>>)
      /\ eof + 0 = Flag(pcb.closing) /\ pcb.rcv_wnd + unread + 0 + 0 = Wnd
  BY <1>3 DEF Holding, Flag
<1> HIDE DEF x, g
<1>6. SegmentAt(isn, s) /\ Promised(pcb, x, s)
  BY <1>2, <1>4, SendableAt
<1>7. \E n \in Nat :
        /\ Took(isn, pcb, r, x, n)
        /\ ~ pcb.closing => x + n <= Bytes /\ r.pcb.closing = r.fin
        /\ pcb.closing => n = 0 /\ ~ r.fin /\ r.pcb.ooseq = pcb.ooseq /\ r.pcb.closing
  BY <1>2, <1>4, <1>6, ReceiveAt
<1> HIDE DEF r
<1>8. PICK n \in Nat :
        /\ Took(isn, pcb, r, x, n)
        /\ ~ pcb.closing => x + n <= Bytes /\ r.pcb.closing = r.fin
        /\ pcb.closing => n = 0 /\ ~ r.fin /\ r.pcb.ooseq = pcb.ooseq /\ r.pcb.closing
  BY <1>7
<1>9. /\ r.data = Run(x, n) /\ r.fin \in BOOLEAN /\ r.ok
      /\ PcbAt(isn, r.pcb, x + n + Flag(r.fin))
      /\ n + Flag(r.fin) <= pcb.rcv_wnd /\ r.pcb.rcv_wnd = pcb.rcv_wnd - (n + Flag(r.fin))
      /\ pcb.ann_edge <= r.pcb.ann_edge
      /\ r.fin => x + n = Bytes /\ r.pcb.ooseq = <<>>
  BY <1>8 DEF Took
<1>10. r.data \in Seq(Nat) /\ Len(r.data) = n
  BY <1>4, <1>9, RunIsBytes
<1>11. r.pcb.closing \in BOOLEAN /\ r.pcb.ann_edge \in Nat
  <2>1. r.pcb \in Pcb
    BY <1>9 DEF PcbAt, OpenAt
  <2> QED BY <2>1, ConstantsAssumption DEF Pcb
\* The bytes go on where those before them end.
<1>12. /\ stream \o r.data = Run(0, g + n) /\ Len(stream \o r.data) = g + n
       /\ g + n <= Bytes /\ g + n + Flag(r.pcb.closing) = x + n + Flag(r.fin)
       /\ r.pcb.closing => g + n = Bytes /\ r.pcb.ooseq = <<>>
       /\ eof + Flag(r.fin) = Flag(r.pcb.closing) /\ (eof = 1 => r.data = <<>>)
  <2>1. CASE pcb.closing
    <3>1. n = 0 /\ r.pcb.closing = TRUE /\ r.fin = FALSE /\ r.data = <<>> /\ r.pcb.ooseq = <<>>
      BY <1>5, <1>8, <1>9, <1>11, <2>1, NoRun
    <3>2. stream \o r.data = stream /\ g + n = g /\ g = Bytes
      BY <1>1, <1>5, <2>1, <3>1
    <3>3. Flag(r.fin) = 0 /\ Flag(r.pcb.closing) = 1 /\ x = g + 1 /\ eof = 1
      BY <1>1, <1>5, <2>1, <3>1 DEF Flag, x
    <3>4. g + n + Flag(r.pcb.closing) = x + n + Flag(r.fin) /\ g + n <= Bytes
      BY <1>1, <3>1, <3>2, <3>3
    <3>5. eof + Flag(r.fin) = Flag(r.pcb.closing)
      BY <3>3
    <3>6. stream \o r.data = Run(0, g + n) /\ Len(stream \o r.data) = g + n
      BY <1>5, <3>2 DEF g
    <3> QED BY <3>1, <3>2, <3>4, <3>5, <3>6
  <2>2. CASE ~ pcb.closing
    <3>1. x = g /\ x + n <= Bytes /\ r.pcb.closing = r.fin /\ eof = 0
      BY <1>1, <1>4, <1>5, <1>8, <2>2 DEF Flag
    <3>2. stream \o r.data = Run(0, g) \o Run(0 + g, n)
      <4>1. stream = Run(0, g) /\ r.data = Run(x, n) /\ x = g
        BY <1>5, <1>9, <3>1
      <4>2. 0 + g = g
        BY ONLY <1>1
      <4> QED BY ONLY <4>1, <4>2
    <3>3. Run(0, g) \o Run(0 + g, n) = Run(0, g + n)
      <4>1. 0 \in Nat /\ g \in Nat /\ n \in Nat
        BY <1>1
      <4> QED BY ONLY <4>1, RunsJoin
    <3>4. Len(Run(0, g + n)) = g + n
      BY <1>1, RunIsBytes
    <3>5. stream \o r.data = Run(0, g + n) /\ Len(stream \o r.data) = g + n
      BY <3>2, <3>3, <3>4
    <3>6. Flag(r.fin) \in Nat /\ Flag(r.pcb.closing) = Flag(r.fin)
      BY <3>1 DEF Flag
    <3>7. eof + Flag(r.fin) = Flag(r.pcb.closing)
      BY <3>1, <3>6
    <3>8. g + n <= Bytes /\ g + n + Flag(r.pcb.closing) = x + n + Flag(r.fin)
      BY <3>1, <3>6
    <3>9. r.pcb.closing => g + n = Bytes /\ r.pcb.ooseq = <<>>
      BY <1>9, <3>1
    <3>10. ~ (eof = 1)
      BY <3>1
    <3> QED BY <3>5, <3>7, <3>8, <3>9, <3>10
  <2> QED BY <1>4, <2>1, <2>2
<1>13. r.pcb.rcv_wnd + unread + Len(r.data) + Flag(r.fin) = Wnd
  <2>1. Flag(r.fin) \in Nat
    BY DEF Flag
  <2>2. /\ pcb.rcv_wnd \in Nat /\ unread \in Nat /\ Wnd \in Nat /\ n \in Nat
        /\ pcb.rcv_wnd + unread = Wnd
    BY <1>1, <1>4, <1>5
  <2>3. r.pcb.rcv_wnd = pcb.rcv_wnd - (n + Flag(r.fin)) /\ Len(r.data) = n
    BY <1>9, <1>10
  <2> QED BY ONLY <2>1, <2>2, <2>3
<1>14. Holding(r.pcb, r.data, r.fin)
  BY <1>9, <1>10, <1>12, <1>13 DEF Holding
<1> QED BY <1>4, <1>9, <1>11, <1>14 DEF r

\* The FIN's place in the window is given back.
LEMMA WiderByOne ==
  ASSUME NEW b, Base(b), NEW x \in 0..Bytes + 1, NEW p, PcbAt(b, p, x), p.rcv_wnd < Wnd
  PROVE  LET r == [p EXCEPT !.rcv_wnd = @ + 1]
         IN /\ PcbAt(b, r, x) /\ r.rcv_wnd = p.rcv_wnd + 1 /\ r.ann_edge = p.ann_edge
            /\ r.ooseq = p.ooseq /\ r.closing = p.closing
<1> DEFINE r == [p EXCEPT !.rcv_wnd = @ + 1]
<1>1. /\ p \in Pcb /\ p.rcv_nxt = b + x /\ b <= p.ann_edge /\ p.ann_edge <= b + x + p.ann_wnd
      /\ p.ann_edge <= b + x + p.rcv_wnd
      /\ p.ann_wnd <= p.rcv_wnd /\ QueueAt(b, p.ooseq, x, x + p.rcv_wnd)
  BY DEF PcbAt, OpenAt
<1>2. /\ p.rcv_wnd \in Nat /\ p.rcv_wnd + 1 \in 0..Wnd /\ p.ann_wnd \in Nat /\ p.ann_edge \in Nat
      /\ x \in Nat /\ b \in Nat /\ Wnd \in Nat /\ Bytes \in Nat
  <2>1. Wnd \in Nat /\ Bytes \in Nat /\ b \in Nat
    BY ConstantsAssumption DEF Base
  <2>2. p.rcv_wnd \in 0..Wnd /\ p.ann_wnd \in Nat /\ p.ann_edge \in Nat
    BY <1>1, ConstantsAssumption DEF Pcb
  <2>3. p.rcv_wnd + 1 \in 0..Wnd
    BY <2>1, <2>2
  <2> QED BY <2>1, <2>2, <2>3
<1>3. r \in Pcb
  BY <1>1, <1>2 DEF Pcb
<1>4. /\ r.rcv_nxt = p.rcv_nxt /\ r.rcv_wnd = p.rcv_wnd + 1 /\ r.ann_edge = p.ann_edge
      /\ r.ann_wnd = p.ann_wnd /\ r.ooseq = p.ooseq /\ r.closing = p.closing
  BY <1>1 DEF Pcb
<1> HIDE DEF r
<1>5. QueueAt(b, r.ooseq, x, x + r.rcv_wnd)
  <2>1. x + p.rcv_wnd \in Nat /\ x + (p.rcv_wnd + 1) \in Nat /\ x + p.rcv_wnd <= x + (p.rcv_wnd + 1)
    BY <1>2
  <2> QED BY <1>1, <1>4, <2>1, WiderQueue
<1>6. r.ann_wnd <= r.rcv_wnd /\ r.ann_edge <= b + x + r.rcv_wnd
  BY <1>1, <1>2, <1>4
<1>7. PcbAt(b, r, x)
  BY <1>1, <1>3, <1>4, <1>5, <1>6 DEF PcbAt, OpenAt
<1> QED BY <1>4, <1>7 DEF r

\* The bytes and the end are with the application.
LEMMA AcceptHolds ==
  ASSUME NoWrap, isn \in Isn, isn' = isn, stream \in Seq(Nat), eof \in Nat, unread \in Nat,
         NEW p, NEW d, NEW fin, Holding(p, d, fin), NEW inInput \in BOOLEAN,
         Accept(p, d, fin, inInput)
  PROVE  /\ Holding(pcb, refused.bytes, refused.fin)'
         /\ refused' = NoData /\ stream' \in Seq(Nat) /\ eof' \in Nat /\ unread' \in 0..Wnd
         /\ pcb' \in Pcb /\ p.ann_edge <= pcb'.ann_edge
<1> DEFINE n == Len(stream \o d)
           x == n + Flag(p.closing)
           q == IF ReadsLater \/ d = <<>> THEN p ELSE Recved(p, Len(d), inInput)
           r == IF fin /\ q.rcv_wnd # Wnd THEN [q EXCEPT !.rcv_wnd = @ + 1] ELSE q
<1>1. Base(isn)
  BY DEF NoWrap
<1>2. /\ d \in Seq(Nat) /\ fin \in BOOLEAN /\ stream \o d = Run(0, n) /\ n <= Bytes
      /\ p.closing => n = Bytes /\ p.ooseq = <<>>
      /\ eof + Flag(fin) = Flag(p.closing)
      /\ p.rcv_wnd + unread + Len(d) + Flag(fin) = Wnd
  BY DEF Holding
<1>3. /\ n \in Nat /\ x \in 0..Bytes + 1 /\ PcbAt(isn, p, x)
      /\ p.closing \in BOOLEAN /\ p.rcv_wnd \in 0..Wnd /\ p.ann_edge \in Nat
  BY Place
<1>4. /\ stream' = stream \o d /\ refused' = NoData /\ eof' = eof + Flag(fin)
      /\ unread' = (IF ReadsLater THEN unread + Len(d) ELSE unread)
      /\ pcb' = IF inInput THEN Output(r) ELSE r
  BY DEF Accept
<1>5. Len(d) \in Nat /\ Flag(fin) \in {0, 1} /\ Wnd \in Nat /\ Bytes \in Nat
  BY <1>2, ConstantsAssumption DEF Flag
<1> HIDE DEF x, n
<1>6. /\ PcbAt(isn, q, x) /\ q.ooseq = p.ooseq /\ q.closing = p.closing
      /\ p.ann_edge <= q.ann_edge /\ q.rcv_wnd \in Nat
      /\ q.rcv_wnd + unread' + Flag(fin) = Wnd
  <2>1. CASE ReadsLater
    <3>1. q = p /\ unread' = unread + Len(d)
      BY <1>4, <2>1
    <3>2. q.rcv_wnd + unread' + Flag(fin) = Wnd
      <4>1. /\ p.rcv_wnd \in Nat /\ unread \in Nat /\ Flag(fin) \in Nat
            /\ p.rcv_wnd + unread + Len(d) + Flag(fin) = Wnd
        BY <1>2, <1>3, <1>5
      <4> HIDE DEF q
      <4> QED BY ONLY <1>5, <3>1, <4>1
    <3> QED BY <1>3, <3>1, <3>2
  <2>2. CASE ~ ReadsLater /\ d = <<>>
    <3>1. q = p /\ unread' = unread /\ Len(d) = 0
      BY <1>4, <2>2
    <3>2. q.rcv_wnd + unread' + Flag(fin) = Wnd
      BY <1>2, <1>3, <1>5, <3>1
    <3> QED BY <1>3, <3>1, <3>2
  <2>3. CASE ~ ReadsLater /\ d # <<>>
    <3>1. q = Recved(p, Len(d), inInput) /\ unread' = unread
      BY <1>4, <2>3
    <3>2. p.rcv_wnd + Len(d) <= Wnd
      <4>1. p.rcv_wnd + unread + Len(d) + Flag(fin) = Wnd
        BY <1>2
      <4>2. p.rcv_wnd \in Nat /\ unread \in Nat /\ Len(d) \in Nat /\ Flag(fin) \in Nat /\ Wnd \in Nat
        BY <1>3, <1>5
      <4> QED BY ONLY <4>1, <4>2
    <3>3. /\ PcbAt(isn, q, x) /\ q.rcv_wnd = p.rcv_wnd + Len(d)
          /\ q.ooseq = p.ooseq /\ q.closing = p.closing /\ p.ann_edge <= q.ann_edge
      BY <1>1, <1>3, <1>5, <3>1, <3>2, RecvedAt
    <3>4. q.rcv_wnd + unread' + Flag(fin) = Wnd /\ q.rcv_wnd \in Nat
      <4> DEFINE w == p.rcv_wnd
                 l == Len(d)
                 f == Flag(fin)
      <4>1. /\ w \in Nat /\ l \in Nat /\ f \in Nat /\ w + unread + l + f = Wnd
            /\ q.rcv_wnd = w + l
        <5>1. w \in Nat
          BY <1>3, <1>5
        <5>2. l \in Nat /\ f \in Nat
          BY <1>5
        <5>3. w + unread + l + f = Wnd
          BY <1>2
        <5>4. q.rcv_wnd = w + l
          BY <3>3
        <5> QED BY <5>1, <5>2, <5>3, <5>4
      <4> HIDE DEF w, l, f
      <4>2. (w + l) + unread + f = Wnd /\ w + l \in Nat
        BY <4>1
      <4> QED BY <3>1, <4>1, <4>2 DEF f
    <3> QED BY <3>3, <3>4
  <2> QED BY <2>1, <2>2, <2>3
<1> HIDE DEF q
<1>7. /\ PcbAt(isn, r, x) /\ r.ooseq = p.ooseq /\ r.closing = p.closing
      /\ p.ann_edge <= r.ann_edge /\ r.rcv_wnd + unread' = Wnd
  <2>1. unread' \in Nat
    BY <1>4, <1>5
  <2>2. CASE fin
    <3>1. Flag(fin) = 1
      BY <2>2 DEF Flag
    <3>2. q.rcv_wnd < Wnd /\ q.rcv_wnd # Wnd
      BY <1>5, <1>6, <2>1, <3>1
    <3>3. r = [q EXCEPT !.rcv_wnd = @ + 1]
      BY <2>2, <3>2
    <3> HIDE DEF r
    <3>4. /\ PcbAt(isn, r, x) /\ r.rcv_wnd = q.rcv_wnd + 1 /\ r.ann_edge = q.ann_edge
          /\ r.ooseq = q.ooseq /\ r.closing = q.closing
      BY <1>1, <1>3, <1>6, <3>2, <3>3, WiderByOne
    <3>5. r.rcv_wnd + unread' = Wnd
      BY <1>5, <1>6, <2>1, <3>1, <3>4
    <3> QED BY <1>6, <3>4, <3>5
  <2>3. CASE ~ fin
    <3>1. Flag(fin) = 0 /\ r = q
      BY <2>3 DEF Flag
    <3>2. q.rcv_wnd + unread' = Wnd
      BY <1>5, <1>6, <2>1, <3>1
    <3> QED BY <1>6, <3>1, <3>2
  <2> QED BY <2>2, <2>3
<1> HIDE DEF r
<1>8. /\ PcbAt(isn, pcb', x) /\ pcb'.ooseq = p.ooseq /\ pcb'.closing = p.closing
      /\ p.ann_edge <= pcb'.ann_edge /\ pcb'.rcv_wnd + unread' = Wnd
  <2>1. PcbAt(isn, Output(r), x) /\ Alike(r, Output(r))
    BY <1>1, <1>3, <1>7, OutputAt
  <2>2. r.ann_edge \in Nat /\ Output(r).ann_edge \in Nat
    BY <1>7, <2>1, ConstantsAssumption DEF PcbAt, OpenAt, Pcb
  <2>3. p.ann_edge <= Output(r).ann_edge
    BY <1>3, <1>7, <2>1, <2>2 DEF Alike
  <2>4. CASE inInput
    BY <1>4, <1>7, <2>1, <2>3, <2>4 DEF Alike
  <2>5. CASE ~ inInput
    BY <1>4, <1>7, <2>5
  <2> QED BY <2>4, <2>5
<1>9. pcb' \in Pcb
  BY <1>8 DEF PcbAt, OpenAt
<1>10. unread' \in 0..Wnd
  <2>1. pcb'.rcv_wnd \in 0..Wnd
    BY <1>9 DEF Pcb
  <2>2. unread' \in Nat
    BY <1>4, <1>5
  <2> QED BY <1>5, <1>8, <2>1, <2>2
<1>11. /\ refused'.bytes = <<>> /\ refused'.fin = FALSE
       /\ stream' \in Seq(Nat) /\ eof' \in Nat
       /\ stream' \o refused'.bytes = stream \o d
  <2>1. refused'.bytes = <<>> /\ refused'.fin = FALSE
    BY <1>4 DEF NoData
  <2>2. stream' \in Seq(Nat)
    <3>1. stream' = stream \o d /\ d \in Seq(Nat)
      BY <1>2, <1>4
    <3> QED BY <3>1
  <2>3. stream' \o <<>> = stream'
    BY <2>2
  <2>4. eof' \in Nat
    BY <1>4, <1>5
  <2> QED BY <1>4, <2>1, <2>2, <2>3, <2>4
<1>12. Holding(pcb, refused.bytes, refused.fin)'
  <2> DEFINE got == stream' \o refused'.bytes
  <2>1. got = Run(0, Len(got)) /\ Len(got) = n
    BY <1>2, <1>11 DEF n
  <2> HIDE DEF got
  <2>2. PcbAt(isn', pcb', Len(got) + Flag(pcb'.closing))
    BY <1>8, <2>1 DEF x
  <2>3. eof' + Flag(refused'.fin) = Flag(pcb'.closing) /\ refused'.bytes = <<>>
    BY <1>2, <1>4, <1>5, <1>8, <1>11 DEF Flag
  <2>4. pcb'.rcv_wnd + unread' + Len(refused'.bytes) + Flag(refused'.fin) = Wnd
    <3>1. Len(refused'.bytes) = 0 /\ Flag(refused'.fin) = 0
      BY <1>11 DEF Flag
    <3>2. pcb'.rcv_wnd \in Nat
      BY <1>5, <1>9 DEF Pcb
    <3> QED BY <1>5, <1>8, <1>10, <3>1, <3>2
  <2>5. refused'.bytes \in Seq(Nat) /\ refused'.fin \in BOOLEAN
    <3>1. refused'.bytes = <<>> /\ refused'.fin = FALSE
      BY <1>11
    <3>2. <<>> \in Seq(Nat) /\ FALSE \in BOOLEAN
      OBVIOUS
    <3> QED BY <3>1, <3>2, Zenon
  <2> QED BY <1>2, <1>8, <2>1, <2>2, <2>3, <2>4, <2>5 DEF Holding, got
<1> QED BY <1>4, <1>8, <1>9, <1>10, <1>11, <1>12

\* A connection that has got no further, with the same window.
LEMMA AlikeHolds ==
  ASSUME stream \in Seq(Nat), eof \in Nat, NEW p, NEW d, NEW fin, Holding(p, d, fin),
         NEW q, PcbAt(isn, q, Len(stream \o d) + Flag(p.closing)), Alike(p, q)
  PROVE  Holding(q, d, fin)
BY DEF Holding, Alike

LEMMA OutputHolds ==
  ASSUME NoWrap, isn \in Isn, stream \in Seq(Nat), eof \in Nat,
         NEW p, NEW d, NEW fin, Holding(p, d, fin)
  PROVE  Holding(Output(p), d, fin) /\ Alike(p, Output(p))
<1> DEFINE x == Len(stream \o d) + Flag(p.closing)
<1>1. x \in 0..Bytes + 1 /\ PcbAt(isn, p, x)
  BY Place
<1> HIDE DEF x
<1>2. PcbAt(isn, Output(p), x) /\ Alike(p, Output(p))
  BY <1>1, OutputAt DEF NoWrap
<1> QED BY <1>2, AlikeHolds DEF x

\* What stays the same: everything but the connection and what it may refuse.
Untouched == UNCHANGED <<isn, stream, unread, eof>>

LEMMA UntouchedHolds ==
  ASSUME IInv, Untouched, refused' \in [bytes : Seq(Nat), fin : BOOLEAN],
         Holding(pcb', refused'.bytes, refused'.fin),
         refused'.fin => refused'.bytes # <<>>, failed' = FALSE
  PROVE  IInv'
<1>1. Holding(pcb, refused.bytes, refused.fin)'
  BY DEF Untouched, Holding
<1>2. pcb' \in Pcb
  BY DEF Holding, PcbAt, OpenAt
<1>3. TypeOK'
  BY <1>2 DEF IInv, TypeOK, Untouched
<1> QED BY <1>1, <1>3 DEF IInv

LEMMA RefuseHolds ==
  ASSUME NoWrap, IInv, NEW p, NEW d, NEW fin, Holding(p, d, fin), Refuse(p, d, fin),
         isn' = isn, d # <<>>, failed' = FALSE, p.ann_edge \in Nat
  PROVE  IInv' /\ p.ann_edge <= pcb'.ann_edge
<1>1. isn \in Isn /\ stream \in Seq(Nat) /\ eof \in Nat
  BY DEF IInv, TypeOK
<1>2. /\ refused' = [bytes |-> d, fin |-> fin] /\ pcb' = Output(p)
      /\ Untouched
  BY DEF Refuse, Untouched
<1>3. d \in Seq(Nat) /\ fin \in BOOLEAN
  BY DEF Holding
<1>4. /\ refused' \in [bytes : Seq(Nat), fin : BOOLEAN]
      /\ refused'.bytes = d /\ refused'.fin = fin
  BY <1>2, <1>3
<1>5. Holding(pcb', refused'.bytes, refused'.fin) /\ Alike(p, pcb')
  BY <1>1, <1>2, <1>4, OutputHolds
<1>6. refused'.bytes # <<>>
  BY <1>4
<1>7. IInv'
  BY <1>2, <1>4, <1>5, <1>6, UntouchedHolds
<1> QED BY <1>5, <1>7 DEF Alike

LEMMA AcceptIInv ==
  ASSUME NoWrap, IInv, NEW p, NEW d, NEW fin, Holding(p, d, fin), NEW inInput \in BOOLEAN,
         Accept(p, d, fin, inInput), isn' = isn, failed' = FALSE
  PROVE  IInv' /\ p.ann_edge <= pcb'.ann_edge
<1>1. isn \in Isn /\ stream \in Seq(Nat) /\ eof \in Nat /\ unread \in Nat
  BY ConstantsAssumption DEF IInv, TypeOK
<1>2. /\ Holding(pcb, refused.bytes, refused.fin)'
      /\ refused' = NoData /\ stream' \in Seq(Nat) /\ eof' \in Nat /\ unread' \in 0..Wnd
      /\ pcb' \in Pcb /\ p.ann_edge <= pcb'.ann_edge
  BY <1>1, AcceptHolds
<1>3. NoData \in [bytes : Seq(Nat), fin : BOOLEAN]
  BY DEF NoData
<1>4. TypeOK'
  BY <1>1, <1>2, <1>3 DEF TypeOK
<1>5. ~ refused'.fin
  BY <1>2 DEF NoData
<1> QED BY <1>2, <1>4, <1>5 DEF IInv

LEMMA EdgeIsNat ==
  ASSUME IInv
  PROVE  pcb.ann_edge \in Nat /\ isn \in Nat /\ isn <= pcb.ann_edge
<1>1. pcb \in Pcb /\ isn \in Isn /\ isn <= pcb.ann_edge
  BY DEF IInv, TypeOK, Holding, PcbAt, OpenAt
<1> QED BY <1>1, ConstantsAssumption DEF Pcb

\* The steps keep the invariant, and none moves the window's edge back.
LEMMA ArriveStep ==
  ASSUME NoWrap, ~ FinBeyond, IInv, Arrive
  PROVE  IInv' /\ pcb.ann_edge <= pcb'.ann_edge
<1>1. PICK s \in Sendable : ArriveSegment(s)
  BY DEF Arrive
<1> DEFINE r == Receive(pcb, s)
<1>2. /\ ~ failed /\ refused.bytes = <<>> /\ TcpLen(s) > 0 /\ failed' = ~ r.ok /\ isn' = isn
      /\ \/ Accept(r.pcb, r.data, r.fin, TRUE)
         \/ r.data # <<>> /\ Refuse(r.pcb, r.data, r.fin)
  BY <1>1 DEF ArriveSegment
<1>3. /\ Holding(r.pcb, r.data, r.fin) /\ r.ok /\ pcb.ann_edge <= r.pcb.ann_edge
      /\ pcb.ann_edge \in Nat /\ r.pcb.ann_edge \in Nat
  BY <1>2, ReceiveHolds
<1> HIDE DEF r
<1>4. failed' = FALSE
  BY <1>2, <1>3
<1>5. IInv' /\ r.pcb.ann_edge <= pcb'.ann_edge
  <2>1. CASE Accept(r.pcb, r.data, r.fin, TRUE)
    BY <1>2, <1>3, <1>4, <2>1, AcceptIInv
  <2>2. CASE r.data # <<>> /\ Refuse(r.pcb, r.data, r.fin)
    BY <1>2, <1>3, <1>4, <2>2, RefuseHolds
  <2> QED BY <1>2, <2>1, <2>2
<1>6. pcb'.ann_edge \in Nat
  <2>1. pcb' \in Pcb
    BY <1>5 DEF IInv, TypeOK
  <2> QED BY <2>1, ConstantsAssumption DEF Pcb
<1> QED BY <1>3, <1>5, <1>6

LEMMA ArriveEmptyStep ==
  ASSUME NoWrap, IInv, ArriveEmpty
  PROVE  IInv' /\ pcb.ann_edge <= pcb'.ann_edge
<1>1. PICK s \in Sendable : TcpLen(s) = 0 /\ pcb' = Output(Receive(pcb, s).pcb)
  BY DEF ArriveEmpty
<1>2. Receive(pcb, s).pcb = pcb \/ Receive(pcb, s).pcb = AckNow(pcb)
  BY <1>1 DEF Receive, Nothing
<1>3. /\ isn \in Isn /\ stream \in Seq(Nat) /\ eof \in Nat
      /\ refused \in [bytes : Seq(Nat), fin : BOOLEAN]
      /\ Holding(pcb, refused.bytes, refused.fin) /\ (refused.fin => refused.bytes # <<>>)
  BY DEF IInv, TypeOK
<1>4. Untouched /\ refused' = refused /\ failed' = FALSE
  BY DEF ArriveEmpty, Untouched, IInv, TypeOK
<1> DEFINE q == Receive(pcb, s).pcb
           x == Len(stream \o refused.bytes) + Flag(pcb.closing)
<1>5. x \in 0..Bytes + 1 /\ PcbAt(isn, pcb, x)
  BY <1>3, Place
<1> HIDE DEF x
<1>6. PcbAt(isn, AckNow(pcb), x) /\ Alike(pcb, AckNow(pcb))
  BY <1>3, <1>5, AckNowAt DEF NoWrap
<1>7. Holding(AckNow(pcb), refused.bytes, refused.fin)
  BY <1>3, <1>6, AlikeHolds DEF x
<1>8. /\ Holding(q, refused.bytes, refused.fin)
      /\ pcb.ann_edge <= q.ann_edge
  BY <1>2, <1>3, <1>6, <1>7, EdgeIsNat DEF Alike
<1> HIDE DEF q
<1>9. Holding(pcb', refused.bytes, refused.fin) /\ q.ann_edge <= pcb'.ann_edge
  BY <1>1, <1>3, <1>8, OutputHolds DEF Alike, q
<1>10. IInv'
  BY <1>3, <1>4, <1>9, UntouchedHolds
<1>11. q.ann_edge \in Nat /\ pcb'.ann_edge \in Nat /\ pcb.ann_edge \in Nat
  <2>1. q \in Pcb /\ pcb' \in Pcb
    BY <1>8, <1>9 DEF Holding, PcbAt, OpenAt
  <2> QED BY <2>1, EdgeIsNat, ConstantsAssumption DEF Pcb
<1> QED BY <1>8, <1>9, <1>10, <1>11

LEMMA OfferAgainStep ==
  ASSUME NoWrap, IInv, OfferAgain
  PROVE  IInv' /\ pcb.ann_edge <= pcb'.ann_edge
<1>1. /\ Accept(pcb, refused.bytes, refused.fin, FALSE) /\ isn' = isn /\ failed' = FALSE
      /\ Holding(pcb, refused.bytes, refused.fin)
  BY DEF OfferAgain, IInv, TypeOK
<1> QED BY <1>1, AcceptIInv

LEMMA FastTimerStep ==
  ASSUME NoWrap, IInv, FastTimer
  PROVE  IInv' /\ pcb.ann_edge <= pcb'.ann_edge
<1>1. /\ isn \in Isn /\ stream \in Seq(Nat) /\ eof \in Nat
      /\ refused \in [bytes : Seq(Nat), fin : BOOLEAN]
      /\ Holding(pcb, refused.bytes, refused.fin) /\ (refused.fin => refused.bytes # <<>>)
  BY DEF IInv, TypeOK
<1>2. Untouched /\ refused' = refused /\ failed' = FALSE /\ pcb' = SendEmptyAck(pcb)
  BY DEF FastTimer, Untouched, IInv, TypeOK
<1> DEFINE x == Len(stream \o refused.bytes) + Flag(pcb.closing)
<1>3. x \in 0..Bytes + 1 /\ PcbAt(isn, pcb, x)
  BY <1>1, Place
<1> HIDE DEF x
<1>4. PcbAt(isn, pcb', x) /\ Alike(pcb, pcb')
  BY <1>1, <1>2, <1>3, SendEmptyAckAt DEF NoWrap
<1>5. Holding(pcb', refused.bytes, refused.fin)
  BY <1>1, <1>4, AlikeHolds DEF x
<1>6. IInv'
  BY <1>1, <1>2, <1>5, UntouchedHolds
<1> QED BY <1>4, <1>6 DEF Alike

LEMMA ReadStep ==
  ASSUME NoWrap, IInv, Read
  PROVE  IInv' /\ pcb.ann_edge <= pcb'.ann_edge
<1>1. PICK n \in 1..unread : pcb' = Recved(pcb, n, FALSE) /\ unread' = unread - n
  BY DEF Read
<1>2. /\ isn \in Isn /\ stream \in Seq(Nat) /\ eof \in Nat /\ unread \in 0..Wnd
      /\ refused \in [bytes : Seq(Nat), fin : BOOLEAN] /\ ~ failed
      /\ Holding(pcb, refused.bytes, refused.fin) /\ (refused.fin => refused.bytes # <<>>)
  BY DEF IInv, TypeOK
<1>3. isn' = isn /\ refused' = refused /\ stream' = stream /\ eof' = eof /\ failed' = failed
  BY DEF Read
<1> DEFINE m == Len(stream \o refused.bytes)
           x == m + Flag(pcb.closing)
           l == Len(refused.bytes)
           f == Flag(refused.fin)
<1>4. x \in 0..Bytes + 1 /\ PcbAt(isn, pcb, x) /\ pcb.rcv_wnd \in 0..Wnd
  BY <1>2, Place
<1>5. /\ refused.bytes \in Seq(Nat) /\ refused.fin \in BOOLEAN
      /\ stream \o refused.bytes = Run(0, m) /\ m <= Bytes
      /\ pcb.closing => m = Bytes /\ pcb.ooseq = <<>>
      /\ eof + f = Flag(pcb.closing) /\ (eof = 1 => refused.bytes = <<>>)
      /\ pcb.rcv_wnd + unread + l + f = Wnd
  BY <1>2 DEF Holding
<1>6. l \in Nat /\ f \in Nat /\ Wnd \in Nat
  BY <1>5, ConstantsAssumption DEF Flag
<1> HIDE DEF m, x, l, f
<1>7. n \in Nat /\ pcb.rcv_wnd + n <= Wnd /\ unread' \in 0..Wnd
  <2>1. n \in 1..unread /\ unread' = unread - n /\ unread \in 0..Wnd
    BY <1>1, <1>2
  <2>2. pcb.rcv_wnd \in Nat /\ pcb.rcv_wnd + unread + l + f = Wnd
    BY <1>4, <1>5
  <2> QED BY ONLY <1>6, <2>1, <2>2
<1>8. /\ PcbAt(isn, pcb', x) /\ pcb'.rcv_wnd = pcb.rcv_wnd + n
      /\ pcb'.ooseq = pcb.ooseq /\ pcb'.closing = pcb.closing
      /\ pcb.ann_edge <= pcb'.ann_edge
  <2>1. Base(isn)
    BY <1>2 DEF NoWrap
  <2>2. /\ PcbAt(isn, Recved(pcb, n, FALSE), x)
        /\ Recved(pcb, n, FALSE).rcv_wnd = pcb.rcv_wnd + n
        /\ Recved(pcb, n, FALSE).ooseq = pcb.ooseq
        /\ Recved(pcb, n, FALSE).closing = pcb.closing
        /\ pcb.ann_edge <= Recved(pcb, n, FALSE).ann_edge
    BY <1>4, <1>7, <2>1, RecvedAt
  <2> QED BY <1>1, <2>2
<1>9. pcb'.rcv_wnd + unread' + l + f = Wnd
  <2> DEFINE w == pcb.rcv_wnd
  <2>1. /\ w \in Nat /\ unread \in Nat /\ n \in Nat /\ n <= unread
        /\ w + unread + l + f = Wnd
    BY <1>2, <1>4, <1>5, <1>6, <1>7
  <2>2. pcb'.rcv_wnd = w + n /\ unread' = unread - n
    BY <1>1, <1>8
  <2> HIDE DEF w
  <2>3. (w + n) + (unread - n) + l + f = Wnd
    BY <1>6, <2>1
  <2> QED BY <2>2, <2>3
<1>10. Holding(pcb, refused.bytes, refused.fin)'
  <2>1. Len(stream' \o refused'.bytes) = m
    BY <1>3 DEF m
  <2>2. PcbAt(isn', pcb', m + Flag(pcb'.closing))
    BY <1>3, <1>8 DEF x
  <2>3. /\ refused'.bytes \in Seq(Nat) /\ refused'.fin \in BOOLEAN
        /\ stream' \o refused'.bytes = Run(0, m)
    BY <1>3, <1>5
  <2>4. /\ pcb'.closing => m = Bytes /\ pcb'.ooseq = <<>>
        /\ eof' + Flag(refused'.fin) = Flag(pcb'.closing)
        /\ eof' = 1 => refused'.bytes = <<>>
    BY <1>3, <1>5, <1>8 DEF f
  <2>5. pcb'.rcv_wnd + unread' + Len(refused'.bytes) + Flag(refused'.fin) = Wnd
    BY <1>3, <1>9 DEF l, f
  <2> QED BY <1>5, <2>1, <2>2, <2>3, <2>4, <2>5 DEF Holding
<1>11. TypeOK'
  <2>1. pcb' \in Pcb
    BY <1>8 DEF PcbAt, OpenAt
  <2>2. failed' \in BOOLEAN
    BY <1>3 DEF IInv, TypeOK
  <2> QED BY <1>2, <1>3, <1>7, <2>1, <2>2 DEF TypeOK
<1>12. (refused'.fin => refused'.bytes # <<>>) /\ ~ failed'
  BY <1>2, <1>3
<1> QED BY <1>8, <1>10, <1>11, <1>12 DEF IInv

LEMMA InitHolds ==
  ASSUME NoWrap, Init
  PROVE  IInv
<1>1. /\ isn \in Isn /\ Base(isn) /\ isn \in Nat /\ Wnd \in Nat /\ Wnd > 0 /\ Bytes \in Nat
      /\ SeqSize \in Nat /\ isn + Bytes + Wnd + 1 < SeqSize
  BY ConstantsAssumption DEF Init, NoWrap, Base
<1>2. (isn + Wnd) % SeqSize = isn + Wnd
  <2>1. isn + Wnd \in Nat /\ isn + Wnd < SeqSize /\ SeqSize > 0
    BY <1>1
  <2> QED BY <1>1, <2>1, Divides
<1>3. pcb = [rcv_nxt |-> isn, rcv_wnd |-> Wnd, ann_edge |-> isn + Wnd,
             ann_wnd |-> Wnd, ooseq |-> <<>>, ack |-> {}, closing |-> FALSE]
  BY <1>2 DEF Init
<1>4. pcb \in Pcb
  <2>1. /\ isn \in 0..SeqSize - 1 /\ isn + Wnd \in 0..SeqSize - 1 /\ Wnd \in 0..Wnd
        /\ <<>> \in Seq(Segment)
    BY <1>1
  <2> QED BY <1>3, <2>1 DEF Pcb
<1>5. /\ pcb.rcv_nxt = isn /\ pcb.rcv_wnd = Wnd /\ pcb.ann_edge = isn + Wnd
      /\ pcb.ann_wnd = Wnd /\ pcb.ooseq = <<>> /\ pcb.closing = FALSE
  BY <1>3
<1>6. QueueAt(isn, pcb.ooseq, 0, 0 + pcb.rcv_wnd)
  <2>1. <<>> \in Seq(Segment) /\ DOMAIN <<>> = {}
    OBVIOUS
  <2> QED BY <1>5, <2>1 DEF QueueAt
<1>7. PcbAt(isn, pcb, 0)
  <2>1. /\ pcb.rcv_nxt = isn + 0 /\ isn <= pcb.ann_edge
        /\ pcb.ann_edge <= isn + 0 + pcb.rcv_wnd /\ pcb.ann_edge <= isn + 0 + pcb.ann_wnd
        /\ pcb.ann_wnd <= pcb.rcv_wnd
    BY <1>1, <1>5
  <2> QED BY <1>4, <1>6, <2>1 DEF PcbAt, OpenAt
<1>8. /\ refused.bytes = <<>> /\ refused.fin = FALSE /\ stream = <<>> /\ unread = 0 /\ eof = 0
      /\ failed = FALSE /\ refused \in [bytes : Seq(Nat), fin : BOOLEAN]
  <2>1. NoData \in [bytes : Seq(Nat), fin : BOOLEAN]
    BY DEF NoData
  <2> QED BY <2>1 DEF Init, NoData
<1>9. TypeOK
  <2>1. stream \in Seq(Nat) /\ unread \in 0..Wnd /\ eof \in Nat
    BY <1>1, <1>8
  <2> QED BY <1>1, <1>4, <1>8, <2>1 DEF TypeOK
<1>10. Holding(pcb, refused.bytes, refused.fin)
  <2>1. stream \o refused.bytes = <<>> /\ Len(<<>>) = 0 /\ Run(0, 0) = <<>>
    BY <1>8, NoRun
  <2>2. Flag(pcb.closing) = 0 /\ Flag(refused.fin) = 0
    BY <1>5, <1>8 DEF Flag
  <2>3. 0 + Flag(pcb.closing) = 0 /\ eof + Flag(refused.fin) = Flag(pcb.closing)
    BY <1>8, <2>2
  <2>4. pcb.rcv_wnd + unread + Len(refused.bytes) + Flag(refused.fin) = Wnd
    BY <1>1, <1>5, <1>8, <2>1, <2>2
  <2>5. refused.bytes \in Seq(Nat) /\ refused.fin \in BOOLEAN
    BY <1>9 DEF TypeOK
  <2>6. PcbAt(isn, pcb, Len(stream \o refused.bytes) + Flag(pcb.closing))
    BY <1>7, <2>1, <2>3
  <2>7. /\ stream \o refused.bytes = Run(0, Len(stream \o refused.bytes))
        /\ Len(stream \o refused.bytes) <= Bytes
    BY <1>1, <2>1
  <2>8. ~ pcb.closing
    BY <1>5
  <2> QED BY <1>8, <2>3, <2>4, <2>5, <2>6, <2>7, <2>8 DEF Holding
<1> QED BY <1>8, <1>9, <1>10 DEF IInv

LEMMA StepHolds ==
  ASSUME NoWrap, ~ FinBeyond, IInv, [Next]_vars
  PROVE  IInv' /\ pcb.ann_edge <= pcb'.ann_edge
<1>1. CASE Arrive
  BY <1>1, ArriveStep
<1>2. CASE ArriveEmpty
  BY <1>2, ArriveEmptyStep
<1>3. CASE OfferAgain
  BY <1>3, OfferAgainStep
<1>4. CASE FastTimer
  BY <1>4, FastTimerStep
<1>5. CASE Read
  BY <1>5, ReadStep
<1>6. CASE UNCHANGED vars
  <2>1. Untouched /\ refused' = refused /\ pcb' = pcb /\ failed' = failed
    BY <1>6 DEF vars, Untouched
  <2>2. /\ refused \in [bytes : Seq(Nat), fin : BOOLEAN] /\ failed \in BOOLEAN /\ ~ failed
        /\ Holding(pcb, refused.bytes, refused.fin) /\ (refused.fin => refused.bytes # <<>>)
    BY DEF IInv, TypeOK
  <2>3. IInv'
    BY <2>1, <2>2, UntouchedHolds
  <2>4. pcb.ann_edge <= pcb'.ann_edge
    BY <2>1, EdgeIsNat
  <2> QED BY <2>3, <2>4
<1> QED BY <1>1, <1>2, <1>3, <1>4, <1>5, <1>6 DEF Next

\* Every state has only values the code can store, and the window and the bytes
\* not yet read never exceed TCP_WND.
THEOREM TypeCorrect ==
  ASSUME NoWrap, ~ FinBeyond
  PROVE  Spec => []TypeOK
<1>1. Init => IInv
  BY InitHolds
<1>2. IInv /\ [Next]_vars => IInv'
  BY StepHolds
<1>3. IInv => TypeOK
  BY DEF IInv
<1> QED BY <1>1, <1>2, <1>3, PTL DEF Spec

\* The application gets the bytes in order, each once, and the end only after
\* the last (tcp_in.c:1135-1152).
THEOREM GetsTheStream ==
  ASSUME NoWrap, ~ FinBeyond
  PROVE  Spec => []StreamInOrder
<1>1. Init => IInv
  BY InitHolds
<1>2. IInv /\ [Next]_vars => IInv'
  BY StepHolds
<1>3. IInv => StreamInOrder
  <2> SUFFICES ASSUME IInv PROVE StreamInOrder
    OBVIOUS
  <2> DEFINE got == stream \o refused.bytes
  <2>1. /\ got = Run(0, Len(got)) /\ (pcb.closing => Len(got) = Bytes)
        /\ eof + Flag(refused.fin) = Flag(pcb.closing) /\ (eof = 1 => refused.bytes = <<>>)
        /\ refused.fin \in BOOLEAN
    BY DEF IInv, Holding
  <2>2. stream \in Seq(Nat) /\ eof \in Nat /\ stream \o <<>> = stream
    BY DEF IInv, TypeOK
  <2>3. got = [i \in 1..Len(got) |-> i - 1]
    <3> DEFINE n == Len(got)
    <3>1. got = [j \in 1..n |-> 0 + j - 1]
      BY <2>1 DEF Run
    <3> HIDE DEF n
    <3>2. [j \in 1..n |-> 0 + j - 1] = [i \in 1..n |-> i - 1]
      OBVIOUS
    <3> QED BY <3>1, <3>2 DEF n
  <2>4. eof <= 1 /\ (eof = 1 => pcb.closing) /\ (refused.fin => pcb.closing)
    BY <2>1, <2>2 DEF Flag
  <2>5. eof = 1 => Len(stream) = Bytes
    BY <2>1, <2>2, <2>4
  <2> QED BY <2>1, <2>3, <2>4, <2>5 DEF StreamInOrder
<1> QED BY <1>1, <1>2, <1>3, PTL DEF Spec

\* What has been acknowledged is with the application or kept for it, and the
\* window is what it has not read, so that all of it is given back.
THEOREM NothingLost ==
  ASSUME NoWrap, ~ FinBeyond
  PROVE  Spec => []Accounted
<1>1. Init => IInv
  BY InitHolds
<1>2. IInv /\ [Next]_vars => IInv'
  BY StepHolds
<1>3. IInv => Accounted
  <2> SUFFICES ASSUME IInv PROVE Accounted
    OBVIOUS
  <2> DEFINE n == Len(stream \o refused.bytes)
             x == n + Flag(pcb.closing)
             e == pcb.ann_edge - isn
  <2>1. /\ stream \in Seq(Nat) /\ eof \in Nat /\ isn \in Isn /\ unread \in Nat
        /\ Holding(pcb, refused.bytes, refused.fin)
    BY ConstantsAssumption DEF IInv, TypeOK
  <2>2. x \in 0..Bytes + 1 /\ PcbAt(isn, pcb, x) /\ pcb.rcv_wnd \in 0..Wnd
        /\ pcb.ann_edge \in Nat /\ pcb.closing \in BOOLEAN
    BY <2>1, Place
  <2>3. /\ pcb.rcv_nxt = isn + x /\ isn <= pcb.ann_edge /\ pcb.ann_edge <= isn + x + pcb.rcv_wnd
    BY <2>2 DEF PcbAt, OpenAt
  <2>4. Base(isn) /\ isn \in Nat /\ Bytes \in Nat /\ Wnd \in Nat
    BY <2>1, ConstantsAssumption DEF NoWrap, Base
  <2>5. /\ eof + Flag(refused.fin) = Flag(pcb.closing) /\ refused.fin \in BOOLEAN
        /\ pcb.rcv_wnd + unread + Len(refused.bytes) + Flag(refused.fin) = Wnd
    BY <2>1 DEF Holding
  <2> HIDE DEF x
  <2>6. /\ e \in 0..Bytes + Wnd + 1 /\ pcb.ann_edge = isn + e /\ e <= x + pcb.rcv_wnd
        /\ x \in 0..Bytes + Wnd + 1 /\ 0 \in 0..Bytes + Wnd + 1
    BY <2>2, <2>3, <2>4
  <2> HIDE DEF e
  <2>7. Pos(pcb.rcv_nxt) = x /\ Pos(pcb.ann_edge) = e
    <3>1. Minus(isn + x, isn + 0) = x - 0 /\ Minus(isn + e, isn + 0) = e - 0
      BY <2>4, <2>6, MinusAt
    <3> QED BY <2>3, <2>4, <2>6, <3>1 DEF Pos
  <2>8. Flag(refused.fin) = Flag(pcb.closing /\ eof = 0)
    BY <2>1, <2>2, <2>5 DEF Flag
  <2> QED BY <2>5, <2>6, <2>7, <2>8 DEF Accounted, x
<1> QED BY <1>1, <1>2, <1>3, PTL DEF Spec

\* ooseq is sorted, without overlaps and ahead of what is due, a FIN is last and
\* at the end of the stream, and no assertion of tcp_receive fails.
THEOREM QueueSane ==
  ASSUME NoWrap, ~ FinBeyond
  PROVE  Spec => []OoseqSane
<1>1. Init => IInv
  BY InitHolds
<1>2. IInv /\ [Next]_vars => IInv'
  BY StepHolds
<1>3. IInv => OoseqSane
  <2> SUFFICES ASSUME IInv PROVE OoseqSane
    OBVIOUS
  <2> DEFINE q == pcb.ooseq
             x == Len(stream \o refused.bytes) + Flag(pcb.closing)
  <2>1. /\ stream \in Seq(Nat) /\ eof \in Nat /\ isn \in Isn /\ ~ failed
        /\ Holding(pcb, refused.bytes, refused.fin)
    BY DEF IInv, TypeOK
  <2>2. x \in 0..Bytes + 1 /\ PcbAt(isn, pcb, x)
    BY <2>1, Place
  <2>3. Base(isn) /\ isn \in Nat /\ Bytes \in Nat /\ Wnd \in Nat
    BY <2>1, ConstantsAssumption DEF NoWrap, Base
  <2>4. pcb.rcv_nxt = isn + x /\ QueueAt(isn, q, x, x + pcb.rcv_wnd)
    BY <2>2 DEF PcbAt, OpenAt
  <2> HIDE DEF x, q
  <2>5. \A y \in 0..Bytes + Wnd + 1 : Pos(isn + y) = y
    <3> SUFFICES ASSUME NEW y \in 0..Bytes + Wnd + 1 PROVE Pos(isn + y) = y
      OBVIOUS
    <3>1. 0 \in 0..Bytes + Wnd + 1
      BY <2>3
    <3>2. Minus(isn + y, isn + 0) = y - 0
      BY <2>3, <3>1, MinusAt
    <3> QED BY <2>3, <3>2 DEF Pos
  <2>6. Pos(pcb.rcv_nxt) = x
    <3>1. x \in 0..Bytes + Wnd + 1
      BY <2>2, <2>3
    <3> QED BY <2>4, <2>5, <3>1
  <2>7. \A i \in DOMAIN q : /\ Pos(q[i].seqno) = q[i].from /\ q[i].len = q[i].tot
                            /\ Pos(End(q[i])) = q[i].from + q[i].len
                            /\ q[i].fin => q[i].from + q[i].len = Bytes
    <3> SUFFICES ASSUME NEW i \in DOMAIN q
                 PROVE  /\ Pos(q[i].seqno) = q[i].from /\ q[i].len = q[i].tot
                        /\ Pos(End(q[i])) = q[i].from + q[i].len
                        /\ q[i].fin => q[i].from + q[i].len = Bytes
      OBVIOUS
    <3>1. SegmentAt(isn, q[i])
      BY <2>4 DEF QueueAt
    <3>2. /\ End(q[i]) = isn + (q[i].from + q[i].len)
          /\ q[i].from + q[i].len \in 0..Bytes + Wnd + 1 /\ q[i].from \in 0..Bytes + Wnd + 1
      BY <2>3, <3>1, EndAt
    <3>3. /\ q[i].seqno = isn + q[i].from /\ q[i].len = q[i].tot
          /\ q[i].fin => q[i].from + q[i].len = Bytes
      BY <3>1 DEF SegmentAt
    <3> QED BY <2>5, <3>2, <3>3
  <2>8. ASSUME NEW i \in DOMAIN q
        PROVE  /\ x < q[i].from /\ (q[i].fin => i = Len(q))
               /\ i < Len(q) => q[i].from + q[i].len <= Pos(q[i + 1].seqno)
    <3>1. x < q[i].from /\ (q[i].fin => i = Len(q))
      BY <2>4 DEF QueueAt
    <3>2. ASSUME i < Len(q) PROVE q[i].from + q[i].len <= Pos(q[i + 1].seqno)
      <4>1. DOMAIN q = 1..Len(q) /\ Len(q) \in Nat
        BY <2>4 DEF QueueAt
      <4>2. i + 1 \in DOMAIN q /\ i < i + 1
        BY <3>2, <4>1
      <4> QED BY <2>4, <2>7, <4>2 DEF QueueAt
    <3> QED BY <3>1, <3>2
  <2> QED BY <2>1, <2>6, <2>7, <2>8 DEF OoseqSane, q
<1> QED BY <1>1, <1>2, <1>3, PTL DEF Spec

EdgeInRange ==
    /\ isn \in Isn /\ pcb.ann_edge \in Nat
    /\ pcb.ann_edge - isn \in 0..Bytes + Wnd + 1

\* The right edge of the window is never moved back, by no step.
THEOREM PromisesKept ==
  ASSUME NoWrap, ~ FinBeyond
  PROVE  Spec => EdgeNeverShrinks
<1>1. Init => IInv
  BY InitHolds
<1>2. IInv /\ [Next]_vars => IInv'
  BY StepHolds
<1>3. IInv => EdgeInRange
  <2> SUFFICES ASSUME IInv PROVE EdgeInRange
    OBVIOUS
  <2> DEFINE x == Len(stream \o refused.bytes) + Flag(pcb.closing)
  <2>1. /\ stream \in Seq(Nat) /\ eof \in Nat /\ isn \in Isn
        /\ Holding(pcb, refused.bytes, refused.fin)
    BY DEF IInv, TypeOK
  <2>2. /\ x \in 0..Bytes + 1 /\ PcbAt(isn, pcb, x) /\ pcb.rcv_wnd \in 0..Wnd
        /\ pcb.ann_edge \in Nat
    BY <2>1, Place
  <2>3. isn <= pcb.ann_edge /\ pcb.ann_edge <= isn + x + pcb.rcv_wnd
    BY <2>2 DEF PcbAt, OpenAt
  <2>4. isn \in Nat /\ Bytes \in Nat /\ Wnd \in Nat
    BY <2>1, ConstantsAssumption
  <2> HIDE DEF x
  <2> QED BY <2>1, <2>2, <2>3, <2>4 DEF EdgeInRange
<1>4. IInv /\ EdgeInRange /\ EdgeInRange' /\ [Next]_vars
        => [Pos(pcb.ann_edge') >= Pos(pcb.ann_edge)]_vars
  <2> SUFFICES ASSUME IInv, EdgeInRange, EdgeInRange', [Next]_vars
               PROVE  Pos(pcb.ann_edge') >= Pos(pcb.ann_edge)
    OBVIOUS
  <2> DEFINE d == pcb.ann_edge - isn
             e == pcb'.ann_edge - isn
  <2>1. isn' = isn
    BY DEF Next, vars, Arrive, ArriveSegment, ArriveEmpty, OfferAgain, FastTimer, Read
  <2>2. /\ d \in 0..Bytes + Wnd + 1 /\ e \in 0..Bytes + Wnd + 1 /\ isn \in Isn
        /\ pcb.ann_edge \in Nat /\ pcb'.ann_edge \in Nat
    BY <2>1 DEF EdgeInRange
  <2>3. Base(isn) /\ isn \in Nat /\ Bytes \in Nat /\ Wnd \in Nat
    BY <2>2, ConstantsAssumption DEF NoWrap, Base
  <2>4. pcb.ann_edge <= pcb'.ann_edge
    BY StepHolds
  <2>5. d <= e /\ pcb.ann_edge = isn + d /\ pcb'.ann_edge = isn + e
    BY <2>2, <2>3, <2>4
  <2> HIDE DEF d, e
  <2>6. Pos(pcb.ann_edge) = d /\ Pos(pcb'.ann_edge) = e
    <3>1. 0 \in 0..Bytes + Wnd + 1
      BY <2>3
    <3>2. Minus(isn + d, isn + 0) = d - 0 /\ Minus(isn + e, isn + 0) = e - 0
      BY <2>2, <2>3, <3>1, MinusAt
    <3> QED BY <2>2, <2>3, <2>5, <3>2 DEF Pos
  <2> QED BY <2>2, <2>3, <2>5, <2>6
<1> QED BY <1>1, <1>2, <1>3, <1>4, PTL DEF Spec, EdgeNeverShrinks
=============================================================================
