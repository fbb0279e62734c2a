--------------------------- MODULE TcpSendProofs ---------------------------
(***************************************************************************)
(* What TcpSend promises, for every size of segments, buffers and windows. *)
(***************************************************************************)
EXTENDS TcpSend, SequenceLemmas
----------------------------------------------------------------------------
\* A segment of tcp_write as long as it may be.
Mss1 == Min2(Mss, Wnd \div 2)

\* A segment of the first d bytes; f: the FIN follows them.
Whole(s, d, f) ==
    /\ s.len <= Mss1 /\ TcpLen(s) > 0
    /\ s.seqno + s.len <= d
    /\ s.fin => f /\ s.seqno + s.len = d

\* Segments that follow each other without a gap.
Tiled(q, d, f) ==
    /\ q \in Seq(Segment)
    /\ \A i \in 1..Len(q) : Whole(q[i], d, f)
    /\ \A i \in 1..Len(q) - 1 : End(q[i]) = q[i + 1].seqno
    /\ \A i, j \in 1..Len(q) : i < j => End(q[i]) <= q[j].seqno

\* From what ack acknowledges to the end.
Spans(q, ack, end) ==
    /\ q = <<>> => ack = end
    /\ q # <<>> => q[1].seqno <= ack /\ ack < End(q[1]) /\ End(q[Len(q)]) = end

\* What has been sent reaches no further than snd_nxt, and fits the window.
Sent(u, ack, nxt, wnd) ==
    \A i \in 1..Len(u) : End(u[i]) <= nxt /\ u[i].seqno + u[i].len <= ack + wnd

Line(p, q, d, f) ==
    /\ Tiled(q, d, f)
    /\ Spans(q, p.lastack, d + Flag(f))
    /\ p.lastack <= p.snd_nxt /\ p.snd_nxt <= d + Flag(f)
    /\ Sent(p.unacked, p.lastack, p.snd_nxt, p.snd_wnd)
    /\ ~ f => p.snd_lbb = d
    /\ f => \/ q = <<>> /\ p.snd_lbb \in {d, d + 1}
            \/ q # <<>> /\ p.snd_lbb = d + Flag(q[Len(q)].len = 0)

Rest(p, f) ==
    /\ p \in Pcb
    /\ p.lastack <= p.wl2
    /\ p.queuelen = Pbufs(p.unacked) + Pbufs(p.unsent)
    /\ p.oversize > 0 => p.unsent # <<>> /\ p.unsent[Len(p.unsent)].len + p.oversize <= Mss1
    /\ p.state = "ESTABLISHED" => ~ f /\ p.snd_buf = SndBuf - (p.snd_lbb - p.lastack)
    /\ p.cwnd >= 1 /\ p.ssthresh >= 1
    /\ p.snd_wnd_max = Wnd

PcbInv(p, d, f) == Rest(p, f) /\ Line(p, p.unacked \o p.unsent, d, f)

\* How far the peer can have got: a probe goes one byte further.
Probing(p) == p.unacked = <<>> /\ p.unsent # <<>> /\ p.unsent[1].seqno = p.snd_nxt
Reach(p) == p.snd_nxt + Flag(Probing(p))

Flies(s, d, f, r) ==
    /\ s.seqno + s.len <= d
    /\ s.fin => f /\ s.seqno + s.len = d
    /\ End(s) <= r

\* The answers in transit, and the last one the sender has taken its window from.
Heard(a, p) == a \cup {[ackno |-> p.wl2, wnd |-> p.snd_wnd]}

Told1(a, d, n, edge) ==
    /\ a.ackno <= n
    /\ Min2(a.ackno, d) + a.wnd <= edge
    /\ a.ackno + a.wnd <= Max2(n, edge)

Net(p, d, f, fly, ans, got, edge) ==
    /\ \A s \in fly : Flies(s, d, f, Reach(p))
    /\ \A m \in got : m < Reach(p) /\ (m < d => m < edge)
    /\ edge <= Place(got) + Wnd
    /\ \A a \in Heard(ans, p) : Told1(a, d, Place(got), edge)
    /\ \A a, b \in Heard(ans, p) : a.ackno < b.ackno => a.ackno + a.wnd <= b.ackno + b.wnd

Follows(d) ==
    /\ PcbInv(pcb, d, owner = "closed")
    /\ Net(pcb, d, owner = "closed", data, acks, peer.got, peer.edge)

IInv == TypeOK /\ \E d \in 0..Bytes : Follows(d)
----------------------------------------------------------------------------
\* Segments, and numbers of pbufs.
LEMMA SegmentFields ==
  ASSUME NEW s \in Segment
  PROVE  /\ s.seqno \in Nat /\ s.len \in Nat /\ s.fin \in BOOLEAN /\ s.bufs \in Nat
         /\ Flag(s.fin) \in 0..1 /\ TcpLen(s) \in Nat /\ End(s) \in Nat
         /\ End(s) = s.seqno + TcpLen(s) /\ TcpLen(s) = s.len + Flag(s.fin)
<1>1. s.seqno \in Nat /\ s.len \in Nat /\ s.fin \in BOOLEAN /\ s.bufs \in Nat
  BY DEF Segment
<1>2. Flag(s.fin) \in 0..1
  BY DEF Flag
<1> QED BY <1>1, <1>2 DEF TcpLen, End

\* The sums of the numbers of pbufs of the first n segments.
IsSums(q, n, s) ==
    /\ s \in [0..n -> Nat]
    /\ s[0] = 0
    /\ \A i \in 1..n : s[i] = s[i - 1] + q[i].bufs

LEMMA SumsOfPbufs ==
  ASSUME NEW q \in Seq(Segment)
  PROVE  \E s : IsSums(q, Len(q), s) /\ Pbufs(q) = s[Len(q)]
<1> DEFINE T == {n \in 0..Len(q) : \E s : IsSums(q, n, s)}
<1>0. Len(q) \in Nat
  OBVIOUS
<1>1. 0 \in T
  <2>1. IsSums(q, 0, [j \in 0..0 |-> 0])
    BY DEF IsSums
  <2> QED BY <1>0, <2>1
<1>2. ASSUME NEW n \in 0..Len(q), n < Len(q), n \in T PROVE n + 1 \in T
  <2>1. PICK s : IsSums(q, n, s)
    BY <1>2
  <2> DEFINE t == [j \in 0..n + 1 |-> IF j = n + 1 THEN s[n] + q[n + 1].bufs ELSE s[j]]
  <2>2. n + 1 \in 1..Len(q) /\ q[n + 1].bufs \in Nat
    <3>1. n + 1 \in 1..Len(q)
      BY <1>2, <1>0
    <3>2. q[n + 1] \in Segment
      BY <3>1
    <3> QED BY <3>1, <3>2, SegmentFields
  <2>3. \A j \in 0..n : s[j] \in Nat
    BY <2>1 DEF IsSums
  <2>4. t \in [0..n + 1 -> Nat]
    BY <2>2, <2>3
  <2>5. t[0] = 0
    BY <2>1 DEF IsSums
  <2>6. ASSUME NEW i \in 1..n + 1 PROVE t[i] = t[i - 1] + q[i].bufs
    BY <2>1 DEF IsSums
  <2>7. IsSums(q, n + 1, t)
    BY <2>4, <2>5, <2>6 DEF IsSums
  <2>8. n + 1 \in 0..Len(q)
    BY <2>2, <1>0
  <2> QED BY <2>7, <2>8
<1> HIDE DEF T
<1>3. 0..Len(q) \subseteq T
  BY <1>0, <1>1, <1>2, UpTo
<1>4. Len(q) \in T
  BY <1>0, <1>3
<1>5. PICK r : IsSums(q, Len(q), r)
  BY <1>4 DEF T
<1> DEFINE IsRec(s) == s = [i \in 0..Len(q) |-> IF i = 0 THEN 0 ELSE s[i - 1] + q[i].bufs]
           sum == CHOOSE s : IsRec(s)
<1>6. IsRec(r)
  BY <1>0, <1>5 DEF IsSums
<1> HIDE DEF IsRec
<1>7. IsRec(sum)
  BY <1>6
<1> HIDE DEF sum
<1>8. Pbufs(q) = sum[Len(q)]
  BY DEF Pbufs, sum, IsRec
<1> DEFINE U == {i \in 0..Len(q) : sum[i] = r[i]}
<1>9. 0 \in U
  BY <1>0, <1>5, <1>7 DEF IsRec, IsSums
<1>10. \A i \in 0..Len(q) : i < Len(q) /\ i \in U => i + 1 \in U
  <2> SUFFICES ASSUME NEW i \in 0..Len(q), i < Len(q), sum[i] = r[i]
               PROVE  i + 1 \in 0..Len(q) /\ sum[i + 1] = r[i + 1]
    BY <1>0
  <2>1. i + 1 \in 1..Len(q) /\ i + 1 \in 0..Len(q) /\ (i + 1) - 1 = i /\ i + 1 # 0
    BY <1>0
  <2>2. sum[i + 1] = sum[i] + q[i + 1].bufs
    BY <1>7, <2>1 DEF IsRec
  <2>3. r[i + 1] = r[i] + q[i + 1].bufs
    BY <1>5, <2>1 DEF IsSums
  <2> QED BY <2>1, <2>2, <2>3
<1> HIDE DEF U
<1>11. 0..Len(q) \subseteq U
  BY <1>0, <1>9, <1>10, UpTo
<1>12. Pbufs(q) = r[Len(q)]
  BY <1>0, <1>8, <1>11 DEF U
<1> QED BY <1>5, <1>12

LEMMA PbufsIsNat ==
  ASSUME NEW q \in Seq(Segment)
  PROVE  Pbufs(q) \in Nat
<1>1. PICK s : IsSums(q, Len(q), s) /\ Pbufs(q) = s[Len(q)]
  BY SumsOfPbufs
<1>2. Len(q) \in 0..Len(q)
  OBVIOUS
<1> QED BY <1>1, <1>2 DEF IsSums

LEMMA PbufsOfNone == Pbufs(<<>>) = 0
<1>1. <<>> \in Seq(Segment) /\ Len(<<>>) = 0
  OBVIOUS
<1>2. PICK s : IsSums(<<>>, Len(<<>>), s) /\ Pbufs(<<>>) = s[Len(<<>>)]
  BY <1>1, SumsOfPbufs
<1> QED BY <1>1, <1>2 DEF IsSums

LEMMA PbufsOfOne ==
  ASSUME NEW s \in Segment
  PROVE  Pbufs(<<s>>) = s.bufs
<1>1. <<s>> \in Seq(Segment) /\ Len(<<s>>) = 1 /\ <<s>>[1] = s
  OBVIOUS
<1>2. PICK t : IsSums(<<s>>, Len(<<s>>), t) /\ Pbufs(<<s>>) = t[Len(<<s>>)]
  BY <1>1, SumsOfPbufs
<1>3. t[1] = t[1 - 1] + <<s>>[1].bufs /\ t[0] = 0
  BY <1>1, <1>2 DEF IsSums
<1> QED BY <1>1, <1>2, <1>3, SegmentFields

\* Each in one pbuf.
Singles(q) == \A i \in 1..Len(q) : q[i].bufs = 1

\* Of segments of one pbuf each there are as many as pbufs.
LEMMA PbufsOfSingles ==
  ASSUME NEW q \in Seq(Segment), Singles(q)
  PROVE  Pbufs(q) = Len(q)
<1>0. Len(q) \in Nat
  OBVIOUS
<1>s. \A i \in 1..Len(q) : q[i].bufs = 1
  BY DEF Singles
<1>1. PICK s : IsSums(q, Len(q), s) /\ Pbufs(q) = s[Len(q)]
  BY SumsOfPbufs
<1> DEFINE U == {i \in 0..Len(q) : s[i] = i}
<1>2. 0 \in U
  BY <1>0, <1>1 DEF IsSums
<1>3. \A i \in 0..Len(q) : i < Len(q) /\ i \in U => i + 1 \in U
  <2> SUFFICES ASSUME NEW i \in 0..Len(q), i < Len(q), s[i] = i
               PROVE  i + 1 \in 0..Len(q) /\ s[i + 1] = i + 1
    BY <1>0
  <2>1. i + 1 \in 1..Len(q) /\ i + 1 \in 0..Len(q) /\ (i + 1) - 1 = i
    BY <1>0
  <2>2. s[i + 1] = s[i] + q[i + 1].bufs
    BY <1>1, <2>1 DEF IsSums
  <2>3. q[i + 1].bufs = 1
    BY <1>s, <2>1
  <2> QED BY <2>1, <2>2, <2>3
<1> HIDE DEF U
<1>4. 0..Len(q) \subseteq U
  BY <1>0, <1>2, <1>3, UpTo
<1> QED BY <1>0, <1>1, <1>4 DEF U

LEMMA ConcatAt ==
  ASSUME NEW S, NEW q \in Seq(S), NEW r \in Seq(S)
  PROVE  /\ q \o r \in Seq(S) /\ Len(q \o r) = Len(q) + Len(r)
         /\ Len(q) \in Nat /\ Len(r) \in Nat
         /\ \A i \in 1..Len(q) : (q \o r)[i] = q[i] /\ q[i] \in S
         /\ \A i \in 1..Len(r) : (q \o r)[Len(q) + i] = r[i] /\ r[i] \in S
<1>1. /\ q \o r \in Seq(S) /\ Len(q \o r) = Len(q) + Len(r)
      /\ \A i \in 1..Len(q) + Len(r) :
           (q \o r)[i] = IF i <= Len(q) THEN q[i] ELSE r[i - Len(q)]
  BY ConcatProperties
<1>2. Len(q) \in Nat /\ Len(r) \in Nat
  OBVIOUS
<1>3. ASSUME NEW i \in 1..Len(q) PROVE (q \o r)[i] = q[i]
  BY <1>1, <1>2
<1>4. ASSUME NEW i \in 1..Len(r) PROVE (q \o r)[Len(q) + i] = r[i]
  <2>1. Len(q) + i \in 1..Len(q) + Len(r) /\ ~ (Len(q) + i <= Len(q)) /\ (Len(q) + i) - Len(q) = i
    BY <1>2
  <2> QED BY <1>1, <2>1
<1> QED BY <1>1, <1>2, <1>3, <1>4

LEMMA PbufsAdd ==
  ASSUME NEW q \in Seq(Segment), NEW r \in Seq(Segment)
  PROVE  Pbufs(q \o r) = Pbufs(q) + Pbufs(r)
<1> DEFINE w == q \o r
<1>1. /\ w \in Seq(Segment) /\ Len(w) = Len(q) + Len(r)
      /\ Len(q) \in Nat /\ Len(r) \in Nat
      /\ \A i \in 1..Len(q) : w[i] = q[i]
      /\ \A i \in 1..Len(r) : w[Len(q) + i] = r[i]
  BY ConcatAt
<1> HIDE DEF w
<1>2. PICK s : IsSums(q, Len(q), s) /\ Pbufs(q) = s[Len(q)]
  BY SumsOfPbufs
<1>3. PICK t : IsSums(r, Len(r), t) /\ Pbufs(r) = t[Len(r)]
  BY SumsOfPbufs
<1>4. PICK u : IsSums(w, Len(w), u) /\ Pbufs(w) = u[Len(w)]
  BY <1>1, SumsOfPbufs
<1> DEFINE A == {i \in 0..Len(q) : u[i] = s[i]}
           B == {i \in 0..Len(r) : u[Len(q) + i] = s[Len(q)] + t[i]}
<1>5. 0 \in A
  BY <1>1, <1>2, <1>4 DEF IsSums
<1>6. \A i \in 0..Len(q) : i < Len(q) /\ i \in A => i + 1 \in A
  <2> SUFFICES ASSUME NEW i \in 0..Len(q), i < Len(q), u[i] = s[i]
               PROVE  i + 1 \in 0..Len(q) /\ u[i + 1] = s[i + 1]
    BY <1>1
  <2>1. i + 1 \in 1..Len(q) /\ i + 1 \in 1..Len(w) /\ i + 1 \in 0..Len(q) /\ (i + 1) - 1 = i
    BY <1>1
  <2>2. s[i + 1] = s[i] + q[i + 1].bufs
    BY <1>2, <2>1 DEF IsSums
  <2>3. u[i + 1] = u[i] + w[i + 1].bufs
    BY <1>4, <2>1 DEF IsSums
  <2> QED BY <1>1, <2>1, <2>2, <2>3
<1> HIDE DEF A
<1>7. 0..Len(q) \subseteq A
  BY <1>1, <1>5, <1>6, UpTo
<1>0. Len(q) \in 0..Len(q) /\ Len(r) \in 0..Len(r)
  BY <1>1
<1>8. u[Len(q)] = s[Len(q)]
  BY <1>0, <1>7 DEF A
<1>9. /\ s[Len(q)] \in Nat /\ t[0] = 0
      /\ \A i \in 0..Len(r) : t[i] \in Nat
  BY <1>0, <1>2, <1>3 DEF IsSums
<1>10. 0 \in B
  BY <1>1, <1>8, <1>9
<1>11. \A i \in 0..Len(r) : i < Len(r) /\ i \in B => i + 1 \in B
  <2> SUFFICES ASSUME NEW i \in 0..Len(r), i < Len(r), u[Len(q) + i] = s[Len(q)] + t[i]
               PROVE  i + 1 \in 0..Len(r) /\ u[Len(q) + (i + 1)] = s[Len(q)] + t[i + 1]
    BY <1>1
  <2>1. /\ i + 1 \in 1..Len(r) /\ i + 1 \in 0..Len(r) /\ (i + 1) - 1 = i
        /\ Len(q) + (i + 1) \in 1..Len(w) /\ (Len(q) + (i + 1)) - 1 = Len(q) + i
    BY <1>1
  <2>2. t[i + 1] = t[i] + r[i + 1].bufs
    BY <1>3, <2>1 DEF IsSums
  <2>3. u[Len(q) + (i + 1)] = u[Len(q) + i] + w[Len(q) + (i + 1)].bufs
    BY <1>4, <2>1 DEF IsSums
  <2>4. w[Len(q) + (i + 1)] = r[i + 1]
    BY <1>1, <2>1
  <2>5. r[i + 1].bufs \in Nat
    BY <2>1, SegmentFields
  <2>6. t[i] \in Nat /\ s[Len(q)] \in Nat
    BY <1>9
  <2> DEFINE b == r[i + 1].bufs
             x == t[i]
             y == s[Len(q)]
  <2>7. /\ u[Len(q) + (i + 1)] = (y + x) + b
        /\ t[i + 1] = x + b
        /\ x \in Nat /\ y \in Nat /\ b \in Nat
    BY <2>2, <2>3, <2>4, <2>5, <2>6
  <2> HIDE DEF b, x
  <2>8. (y + x) + b = y + (x + b)
    BY ONLY <2>7
  <2> QED BY <2>1, <2>7, <2>8
<1> HIDE DEF B
<1>12. 0..Len(r) \subseteq B
  BY <1>1, <1>10, <1>11, UpTo
<1>13. u[Len(q) + Len(r)] = s[Len(q)] + t[Len(r)]
  BY <1>0, <1>12 DEF B
<1> QED BY <1>1, <1>2, <1>3, <1>4, <1>13 DEF w
----------------------------------------------------------------------------
\* Queues cut in two, and put together.
LEMMA CutAt ==
  ASSUME NEW S, NEW q \in Seq(S), NEW k \in 0..Len(q)
  PROVE  /\ SubSeq(q, 1, k) \in Seq(S) /\ Len(SubSeq(q, 1, k)) = k
         /\ \A i \in 1..k : SubSeq(q, 1, k)[i] = q[i] /\ q[i] \in S
         /\ SubSeq(q, k + 1, Len(q)) \in Seq(S) /\ Len(SubSeq(q, k + 1, Len(q))) = Len(q) - k
         /\ \A i \in 1..Len(q) - k : SubSeq(q, k + 1, Len(q))[i] = q[k + i] /\ q[k + i] \in S
         /\ SubSeq(q, 1, k) \o SubSeq(q, k + 1, Len(q)) = q
         /\ Len(q) \in Nat /\ k \in Nat
<1>1. Len(q) \in Nat /\ k \in Nat /\ k <= Len(q) /\ \A i \in 1..Len(q) : q[i] \in S
  OBVIOUS
<1>2. /\ SubSeq(q, 1, k) \in Seq(S)
      /\ Len(SubSeq(q, 1, k)) = IF 1 <= k THEN k - 1 + 1 ELSE 0
      /\ \A i \in 1..k - 1 + 1 : SubSeq(q, 1, k)[i] = q[1 + i - 1]
  <2>1. \A i \in 1..k : q[i] \in S
    BY <1>1
  <2> QED BY <1>1, <2>1, SubSeqProperties
<1>3. /\ SubSeq(q, k + 1, Len(q)) \in Seq(S)
      /\ Len(SubSeq(q, k + 1, Len(q))) = IF k + 1 <= Len(q) THEN Len(q) - (k + 1) + 1 ELSE 0
      /\ \A i \in 1..Len(q) - (k + 1) + 1 : SubSeq(q, k + 1, Len(q))[i] = q[(k + 1) + i - 1]
  <2>1. \A i \in k + 1..Len(q) : q[i] \in S
    BY <1>1
  <2> QED BY <1>1, <2>1, SubSeqProperties
<1>4. Len(SubSeq(q, 1, k)) = k /\ \A i \in 1..k : SubSeq(q, 1, k)[i] = q[i]
  <2>1. k - 1 + 1 = k /\ \A i \in 1..k : 1 + i - 1 = i
    BY <1>1
  <2> QED BY <1>1, <1>2, <2>1
<1>5. Len(SubSeq(q, k + 1, Len(q))) = Len(q) - k
  BY <1>1, <1>3
<1>6. ASSUME NEW i \in 1..Len(q) - k PROVE SubSeq(q, k + 1, Len(q))[i] = q[k + i] /\ q[k + i] \in S
  <2>1. i \in 1..Len(q) - (k + 1) + 1 /\ (k + 1) + i - 1 = k + i /\ k + i \in 1..Len(q)
    BY <1>1
  <2> QED BY <1>1, <1>3, <2>1
<1>7. SubSeq(q, 1, k) \o SubSeq(q, k + 1, Len(q)) = q
  <2>1. 1 \in 1..Len(q) + 1 /\ k \in 1 - 1..Len(q) /\ Len(q) \in k..Len(q)
    BY <1>1
  <2> QED BY <2>1, ConcatAdjacentSubSeq, SubSeqFull
<1>8. \A i \in 1..k : q[i] \in S
  BY <1>1
<1> QED BY <1>1, <1>2, <1>3, <1>4, <1>5, <1>6, <1>7, <1>8

\* a and b are the first k members of q and the rest of them.
Pieces(S, q, k, a, b) ==
  /\ a \in Seq(S) /\ Len(a) = k /\ \A i \in 1..k : a[i] = q[i]
  /\ b \in Seq(S) /\ Len(b) = Len(q) - k
  /\ \A i \in 1..Len(q) - k : b[i] = q[k + i]
  /\ a \o b = q

LEMMA CutPieces ==
  ASSUME NEW S, NEW q \in Seq(S), NEW k \in 0..Len(q)
  PROVE  Pieces(S, q, k, SubSeq(q, 1, k), SubSeq(q, k + 1, Len(q)))
<1>1. Len(q) \in Nat /\ k \in Nat
  OBVIOUS
<1> DEFINE a == SubSeq(q, 1, k)
           b == SubSeq(q, k + 1, Len(q))
<1>2. a \in Seq(S) /\ Len(a) = k /\ \A i \in 1..k : a[i] = q[i]
  BY CutAt
<1>3. b \in Seq(S) /\ Len(b) = Len(q) - k /\ \A i \in 1..Len(q) - k : b[i] = q[k + i]
  BY CutAt
<1>4. a \o b = q
  BY CutAt
<1> HIDE DEF a, b
<1>5. Pieces(S, q, k, a, b)
  BY ONLY <1>2, <1>3, <1>4 DEF Pieces
<1> QED BY ONLY <1>5 DEF a, b

LEMMA OneFirst ==
  ASSUME NEW S, NEW s \in S, NEW q \in Seq(S)
  PROVE  /\ <<s>> \o q \in Seq(S) /\ Len(<<s>> \o q) = Len(q) + 1 /\ Len(q) \in Nat
         /\ (<<s>> \o q)[1] = s
         /\ \A i \in 1..Len(q) : (<<s>> \o q)[i + 1] = q[i] /\ q[i] \in S
<1>1. <<s>> \in Seq(S) /\ Len(<<s>>) = 1 /\ <<s>>[1] = s
  OBVIOUS
<1>2. /\ <<s>> \o q \in Seq(S) /\ Len(<<s>> \o q) = 1 + Len(q) /\ Len(q) \in Nat
      /\ \A i \in 1..1 : (<<s>> \o q)[i] = <<s>>[i]
      /\ \A i \in 1..Len(q) : (<<s>> \o q)[1 + i] = q[i] /\ q[i] \in S
  BY <1>1, ConcatAt
<1>3. \A i \in 1..Len(q) : 1 + i = i + 1
  BY <1>2
<1>4. Len(<<s>> \o q) = Len(q) + 1
  BY <1>2
<1>5. (<<s>> \o q)[1] = s
  BY <1>1, <1>2
<1> QED BY <1>2, <1>3, <1>4, <1>5

\* Nothing of q begins before s.
LEMMA InsertFirst ==
  ASSUME NEW q \in Seq(Segment), NEW s \in Segment,
         \A i \in 1..Len(q) : ~ (q[i].seqno < s.seqno)
  PROVE  Insert(q, s) = <<s>> \o q
<1> DEFINE T == {n \in 0..Len(q) : \A i \in 1..n : q[i].seqno < s.seqno}
<1>0. Len(q) \in Nat
  OBVIOUS
<1>1. 0 \in T
  BY <1>0
<1>2. \A n \in T : n = 0
  BY <1>0
<1>3. Max(T) = 0
  <2>1. Max(T) \in T
    BY <1>0, <1>1, GreatestNat
  <2> QED BY <1>2, <2>1
<1> HIDE DEF T
<1>4. Insert(q, s) = (SubSeq(q, 1, 0) \o <<s>>) \o SubSeq(q, 0 + 1, Len(q))
  BY <1>3 DEF Insert, T
<1>5. SubSeq(q, 1, 0) = <<>> /\ SubSeq(q, 0 + 1, Len(q)) = q
  <2>1. SubSeq(q, 1, 0) = <<>>
    BY SubSeqEmpty
  <2>2. SubSeq(q, 1, Len(q)) = q
    BY SubSeqFull
  <2>3. 0 + 1 = 1
    OBVIOUS
  <2> QED BY <2>1, <2>2, <2>3
<1>6. <<s>> \in Seq(Segment)
  OBVIOUS
<1>7. <<>> \o <<s>> = <<s>>
  BY <1>6, ConcatEmptySeq
<1> QED BY <1>4, <1>5, <1>7

LEMMA FileFirst ==
  ASSUME NEW q \in Seq(Segment), NEW s \in Segment,
         \A i \in 1..Len(q) : s.seqno < q[i].seqno
  PROVE  File(q, s) = <<s>> \o q
<1>0. Len(q) \in Nat /\ <<s>> \in Seq(Segment)
  OBVIOUS
<1>1. CASE q = <<>>
  <2>1. File(q, s) = Append(q, s)
    BY <1>1 DEF File
  <2>2. Append(q, s) = q \o <<s>>
    BY AppendIsConcat
  <2>3. q \o <<s>> = <<s>> /\ <<s>> \o q = <<s>>
    BY <1>0, <1>1, ConcatEmptySeq
  <2> QED BY <2>1, <2>2, <2>3
<1>2. CASE q # <<>>
  <2>1. Len(q) \in 1..Len(q)
    BY <1>0, <1>2, EmptySeq
  <2>2. File(q, s) = Insert(q, s)
    BY <1>2, <2>1 DEF File, Last
  <2>3. \A i \in 1..Len(q) : ~ (q[i].seqno < s.seqno)
    <3> SUFFICES ASSUME NEW i \in 1..Len(q) PROVE ~ (q[i].seqno < s.seqno)
      OBVIOUS
    <3>1. q[i] \in Segment
      OBVIOUS
    <3>2. q[i].seqno \in Nat /\ s.seqno \in Nat
      BY <3>1, SegmentFields
    <3> QED BY <3>2
  <2> QED BY <2>2, <2>3, InsertFirst
<1> QED BY <1>1, <1>2

LEMMA FileLast ==
  ASSUME NEW q \in Seq(Segment), NEW s \in Segment,
         q # <<>> => q[Len(q)].seqno <= s.seqno
  PROVE  File(q, s) = q \o <<s>>
<1>1. File(q, s) = Append(q, s)
  <2>1. CASE q = <<>>
    BY <2>1 DEF File
  <2>2. CASE q # <<>>
    <3>1. q[Len(q)] \in Segment
      BY <2>2, EmptySeq
    <3>2. q[Len(q)].seqno \in Nat /\ s.seqno \in Nat
      BY <3>1, SegmentFields
    <3>3. ~ (s.seqno < Last(q).seqno)
      BY <2>2, <3>2 DEF Last
    <3> QED BY <3>3 DEF File
  <2> QED BY <2>1, <2>2
<1> QED BY <1>1, AppendIsConcat

\* A function that satisfies the equations of filed is filed.
LEMMA FiledIs ==
  ASSUME NEW q, NEW out \in Seq(Segment), NEW g, g = [i \in 0..Len(out) |-> g[i]],
         g[0] = q, \A i \in 1..Len(out) : g[i] = File(g[i - 1], out[i])
  PROVE  Filed(q, out) = g[Len(out)]
<1>0. Len(out) \in Nat
  OBVIOUS
<1> DEFINE IsRec(h) == h = [i \in 0..Len(out) |-> IF i = 0 THEN q ELSE File(h[i - 1], out[i])]
           filed == CHOOSE h : IsRec(h)
<1>1. IsRec(g)
  <2>1. ASSUME NEW i \in 0..Len(out)
        PROVE  g[i] = IF i = 0 THEN q ELSE File(g[i - 1], out[i])
    <3>1. CASE i = 0
      BY <3>1
    <3>2. CASE i # 0
      <4>1. i \in 1..Len(out)
        BY <1>0, <3>2
      <4> QED BY <3>2, <4>1
    <3> QED BY <3>1, <3>2
  <2>2. [i \in 0..Len(out) |-> g[i]]
          = [i \in 0..Len(out) |-> IF i = 0 THEN q ELSE File(g[i - 1], out[i])]
    BY <2>1, Zenon
  <2> QED BY <2>2
<1> HIDE DEF IsRec
<1>2. IsRec(filed)
  BY <1>1
<1> HIDE DEF filed
<1>3. Filed(q, out) = filed[Len(out)]
  BY DEF Filed, filed, IsRec
<1> DEFINE U == {i \in 0..Len(out) : filed[i] = g[i]}
<1>4. 0 \in U
  BY <1>0, <1>2 DEF IsRec
<1>5. \A i \in 0..Len(out) : i < Len(out) /\ i \in U => i + 1 \in U
  <2> SUFFICES ASSUME NEW i \in 0..Len(out), i < Len(out), filed[i] = g[i]
               PROVE  i + 1 \in 0..Len(out) /\ filed[i + 1] = g[i + 1]
    BY <1>0
  <2>1. i + 1 \in 1..Len(out) /\ i + 1 \in 0..Len(out) /\ (i + 1) - 1 = i /\ i + 1 # 0
    BY <1>0
  <2>2. filed[i + 1] = File(filed[i], out[i + 1])
    BY <1>2, <2>1 DEF IsRec
  <2>3. g[i + 1] = File(g[i], out[i + 1])
    BY <2>1
  <2> QED BY <2>1, <2>2, <2>3
<1> HIDE DEF U
<1>6. 0..Len(out) \subseteq U
  BY <1>0, <1>4, <1>5, UpTo
<1>7. Len(out) \in 0..Len(out)
  BY <1>0
<1> QED BY <1>3, <1>6, <1>7 DEF U

Rising(q) == \A i, j \in 1..Len(q) : i < j => q[i].seqno < q[j].seqno

\* Segments that follow those of b are filed behind them.
LEMMA FiledBehind ==
  ASSUME NEW b \in Seq(Segment), NEW out \in Seq(Segment), Rising(b \o out),
         NEW i \in 1..Len(out)
  PROVE  File(b \o SubSeq(out, 1, i - 1), out[i]) = b \o SubSeq(out, 1, i)
<1> DEFINE p == SubSeq(out, 1, i - 1)
           r == b \o p
<1>0. Len(out) \in Nat /\ i \in 1..Len(out) /\ i - 1 \in 0..Len(out) /\ out[i] \in Segment
  OBVIOUS
<1>1. p \in Seq(Segment) /\ Len(p) = i - 1 /\ \A j \in 1..i - 1 : p[j] = out[j]
  BY <1>0, CutAt
<1> HIDE DEF p
<1>2. /\ r \in Seq(Segment) /\ Len(r) = Len(b) + (i - 1) /\ Len(b) \in Nat
      /\ \A j \in 1..Len(b) : r[j] = b[j]
      /\ \A j \in 1..i - 1 : r[Len(b) + j] = p[j]
  BY <1>1, ConcatAt
<1>3. /\ Len(b \o out) = Len(b) + Len(out)
      /\ \A j \in 1..Len(b) : (b \o out)[j] = b[j]
      /\ \A j \in 1..Len(out) : (b \o out)[Len(b) + j] = out[j]
  BY ConcatAt
<1> HIDE DEF r
<1>4. r # <<>> => r[Len(r)].seqno <= out[i].seqno
  <2> SUFFICES ASSUME r # <<>> PROVE r[Len(r)].seqno <= out[i].seqno
    OBVIOUS
  <2>1. Len(r) \in 1..Len(r) /\ r[Len(r)] \in Segment
    BY <1>2, EmptySeq
  <2>2. r[Len(r)] = (b \o out)[Len(r)]
    <3>1. CASE i = 1
      <4>1. Len(r) \in 1..Len(b)
        BY <1>0, <1>2, <2>1, <3>1
      <4> QED BY <1>2, <1>3, <4>1
    <3>2. CASE i # 1
      <4>1. i - 1 \in 1..i - 1 /\ i - 1 \in 1..Len(out) /\ Len(r) = Len(b) + (i - 1)
        BY <1>0, <1>2, <3>2
      <4>2. r[Len(r)] = p[i - 1] /\ p[i - 1] = out[i - 1]
        BY <1>1, <1>2, <4>1
      <4>3. (b \o out)[Len(r)] = out[i - 1]
        BY <1>3, <4>1
      <4> QED BY <4>2, <4>3
    <3> QED BY <3>1, <3>2
  <2>3. /\ Len(r) \in 1..Len(b \o out) /\ Len(b) + i \in 1..Len(b \o out)
        /\ Len(r) < Len(b) + i
    BY <1>0, <1>2, <1>3, <2>1
  <2>4. (b \o out)[Len(b) + i] = out[i]
    BY <1>3
  <2>5. r[Len(r)].seqno < out[i].seqno
    BY <2>2, <2>3, <2>4 DEF Rising
  <2>6. r[Len(r)].seqno \in Nat /\ out[i].seqno \in Nat
    BY <1>0, <2>1, SegmentFields
  <2> QED BY <2>5, <2>6
<1>5. File(r, out[i]) = r \o <<out[i]>>
  BY <1>0, <1>2, <1>4, FileLast
<1>6. r \o <<out[i]>> = b \o (p \o <<out[i]>>)
  <2>1. <<out[i]>> \in Seq(Segment)
    BY <1>0
  <2>2. b \in Seq(Segment) /\ p \in Seq(Segment)
    BY <1>1
  <2> DEFINE x == <<out[i]>>
  <2>3. x \in Seq(Segment)
    BY <2>1
  <2> HIDE DEF x
  <2>4. (b \o p) \o x = b \o (p \o x)
    BY ONLY <2>2, <2>3
  <2> QED BY <2>4 DEF r, x
<1>7. p \o <<out[i]>> = SubSeq(out, 1, i)
  <2>1. 1 \in 1..Len(out) /\ i \in 1..Len(out)
    BY <1>0
  <2> QED BY <2>1, SubSeqRecursiveSecond DEF p
<1> QED BY <1>5, <1>6, <1>7 DEF r, p

\* tcp_output appends what follows the segments on unacked.
LEMMA FiledInOrder ==
  ASSUME NEW u \in Seq(Segment), NEW out \in Seq(Segment), Rising(u \o out)
  PROVE  Filed(u, out) = u \o out
<1> DEFINE g == [i \in 0..Len(out) |-> u \o SubSeq(out, 1, i)]
<1>0. Len(out) \in Nat
  OBVIOUS
<1>1. g[0] = u
  <2>1. SubSeq(out, 1, 0) = <<>>
    BY SubSeqEmpty
  <2>2. u \o <<>> = u
    BY ConcatEmptySeq
  <2> QED BY <1>0, <2>1, <2>2
<1>2. ASSUME NEW i \in 1..Len(out) PROVE g[i] = File(g[i - 1], out[i])
  <2>1. i \in 0..Len(out) /\ i - 1 \in 0..Len(out)
    BY <1>0
  <2> QED BY <2>1, FiledBehind
<1>3. g = [i \in 0..Len(out) |-> g[i]]
  OBVIOUS
<1>4. g[Len(out)] = u \o out
  BY <1>0, SubSeqFull
<1> HIDE DEF g
<1>5. Filed(u, out) = g[Len(out)]
  BY <1>1, <1>2, <1>3, FiledIs
<1> QED BY <1>4, <1>5

\* After a fast retransmission the first one goes back to the front.
LEMMA FiledAtFront ==
  ASSUME NEW u \in Seq(Segment), NEW s \in Segment, NEW rest \in Seq(Segment),
         Rising((<<s>> \o u) \o rest)
  PROVE  Filed(u, <<s>> \o rest) = (<<s>> \o u) \o rest
<1> DEFINE b == <<s>> \o u
           out == <<s>> \o rest
<1>0. /\ b \in Seq(Segment) /\ Len(b) = Len(u) + 1 /\ Len(u) \in Nat /\ b[1] = s
      /\ \A i \in 1..Len(u) : b[i + 1] = u[i]
  BY OneFirst
<1>1. /\ out \in Seq(Segment) /\ Len(out) = Len(rest) + 1 /\ Len(rest) \in Nat /\ out[1] = s
      /\ \A i \in 1..Len(rest) : out[i + 1] = rest[i]
  BY OneFirst
<1> DEFINE g == [i \in 0..Len(out) |-> IF i = 0 THEN u ELSE b \o SubSeq(rest, 1, i - 1)]
<1>2. g[0] = u
  BY <1>1
<1>3. ASSUME NEW i \in 1..Len(out) PROVE g[i] = File(g[i - 1], out[i])
  <2>1. CASE i = 1
    <3>1. \A j \in 1..Len(u) : s.seqno < u[j].seqno
      <4> SUFFICES ASSUME NEW j \in 1..Len(u) PROVE s.seqno < u[j].seqno
        OBVIOUS
      <4>1. /\ Len(b \o rest) = Len(b) + Len(rest)
            /\ \A m \in 1..Len(b) : (b \o rest)[m] = b[m]
        BY <1>0, ConcatAt
      <4>2. 1 \in 1..Len(b) /\ j + 1 \in 1..Len(b) /\ 1 < j + 1
        BY <1>0
      <4>3. 1 \in 1..Len(b \o rest) /\ j + 1 \in 1..Len(b \o rest)
        BY <1>0, <1>1, <4>1, <4>2
      <4>4. (b \o rest)[1].seqno < (b \o rest)[j + 1].seqno
        BY <4>2, <4>3 DEF Rising
      <4> QED BY <1>0, <4>1, <4>2, <4>4
    <3>2. File(u, s) = b
      BY <3>1, FileFirst
    <3>3. SubSeq(rest, 1, 0) = <<>> /\ b \o <<>> = b
      BY <1>0, SubSeqEmpty, ConcatEmptySeq
    <3>4. g[1] = b \o SubSeq(rest, 1, 0)
      BY <1>1
    <3> QED BY <1>1, <1>2, <2>1, <3>2, <3>3, <3>4
  <2>2. CASE i # 1
    <3>1. i - 1 \in 1..Len(rest) /\ (i - 1) + 1 = i /\ i \in 0..Len(out) /\ i - 1 \in 0..Len(out)
      BY <1>1, <2>2
    <3>2. File(b \o SubSeq(rest, 1, (i - 1) - 1), rest[i - 1]) = b \o SubSeq(rest, 1, i - 1)
      BY <1>0, <3>1, FiledBehind
    <3>3. out[i] = rest[i - 1]
      BY <1>1, <3>1
    <3>4. g[i] = b \o SubSeq(rest, 1, i - 1) /\ g[i - 1] = b \o SubSeq(rest, 1, (i - 1) - 1)
      <4>1. i # 0 /\ i - 1 # 0
        BY <3>1
      <4> QED BY ONLY <3>1, <4>1
    <3> QED BY <3>2, <3>3, <3>4
  <2> QED BY <2>1, <2>2
<1>4. g = [i \in 0..Len(out) |-> g[i]]
  OBVIOUS
<1>5. g[Len(out)] = b \o rest
  <2>1. Len(out) # 0 /\ Len(out) \in 0..Len(out) /\ Len(out) - 1 = Len(rest)
    BY <1>1
  <2> QED BY <2>1, SubSeqFull
<1> HIDE DEF g, out
<1>6. Filed(u, out) = g[Len(out)]
  BY <1>1, <1>2, <1>3, <1>4, FiledIs
<1> QED BY <1>5, <1>6 DEF out
----------------------------------------------------------------------------
\* Segments without a gap.
LEMMA TiledRises ==
  ASSUME NEW q, NEW d \in Nat, NEW f \in BOOLEAN, Tiled(q, d, f)
  PROVE  q \in Seq(Segment) /\ Rising(q)
<1>1. q \in Seq(Segment)
  BY DEF Tiled
<1>2. ASSUME NEW i \in 1..Len(q), NEW j \in 1..Len(q), i < j PROVE q[i].seqno < q[j].seqno
  <2>1. End(q[i]) <= q[j].seqno /\ TcpLen(q[i]) > 0
    BY <1>2 DEF Tiled, Whole
  <2>2. q[i] \in Segment /\ q[j] \in Segment
    BY <1>1
  <2>3. q[i].seqno \in Nat /\ TcpLen(q[i]) \in Nat /\ End(q[i]) = q[i].seqno + TcpLen(q[i])
    BY <2>2, SegmentFields
  <2>4. q[j].seqno \in Nat
    BY <2>2, SegmentFields
  <2> QED BY ONLY <2>1, <2>3, <2>4
<1> QED BY <1>1, <1>2 DEF Rising

\* What is written afterwards, and the FIN, change nothing of them.
LEMMA TiledMore ==
  ASSUME NEW q, NEW d \in Nat, Tiled(q, d, FALSE), NEW e \in Nat, d <= e, NEW f \in BOOLEAN
  PROVE  Tiled(q, e, f)
<1>1. q \in Seq(Segment)
  BY DEF Tiled
<1>2. ASSUME NEW i \in 1..Len(q) PROVE Whole(q[i], e, f)
  <2>1. Whole(q[i], d, FALSE)
    BY DEF Tiled
  <2>2. q[i] \in Segment
    BY <1>1
  <2>3. q[i].seqno \in Nat /\ q[i].len \in Nat /\ ~ q[i].fin
    BY <2>1, <2>2, SegmentFields DEF Whole
  <2>4. q[i].seqno + q[i].len <= e
    <3>1. q[i].seqno + q[i].len <= d
      BY <2>1 DEF Whole
    <3> QED BY <2>3, <3>1
  <2> QED BY <2>1, <2>3, <2>4 DEF Whole
<1> QED BY <1>1, <1>2 DEF Tiled

LEMMA TiledPart ==
  ASSUME NEW q, NEW d \in Nat, NEW f \in BOOLEAN, Tiled(q, d, f), NEW k \in 0..Len(q)
  PROVE  Tiled(SubSeq(q, 1, k), d, f) /\ Tiled(SubSeq(q, k + 1, Len(q)), d, f)
<1> DEFINE b == SubSeq(q, 1, k)
           r == SubSeq(q, k + 1, Len(q))
<1>1. q \in Seq(Segment)
  BY DEF Tiled
<1>2. /\ b \in Seq(Segment) /\ Len(b) = k
      /\ \A i \in 1..k : b[i] = q[i]
      /\ r \in Seq(Segment) /\ Len(r) = Len(q) - k
      /\ \A i \in 1..Len(q) - k : r[i] = q[k + i]
      /\ Len(q) \in Nat /\ k \in 0..Len(q)
  BY <1>1, CutAt
<1> HIDE DEF b, r
<1>3. Tiled(b, d, f)
  <2>1. \A i \in 1..k : i \in 1..Len(q)
    BY <1>2
  <2>2. \A i \in 1..k - 1 : i \in 1..Len(q) - 1 /\ i \in 1..k /\ i + 1 \in 1..k
    BY <1>2
  <2>3. \A i \in 1..Len(b) : Whole(b[i], d, f)
    BY <1>2, <2>1 DEF Tiled
  <2>4. \A i \in 1..Len(b) - 1 : End(b[i]) = b[i + 1].seqno
    BY <1>2, <2>2 DEF Tiled
  <2>5. \A i, j \in 1..Len(b) : i < j => End(b[i]) <= b[j].seqno
    BY <1>2, <2>1 DEF Tiled
  <2> QED BY <1>2, <2>3, <2>4, <2>5 DEF Tiled
<1>4. Tiled(r, d, f)
  <2> DEFINE n == Len(q) - k
  <2>1. \A i \in 1..n : k + i \in 1..Len(q)
    BY <1>2
  <2>2. \A i \in 1..n - 1 : /\ k + i \in 1..Len(q) - 1 /\ i \in 1..n /\ i + 1 \in 1..n
                            /\ (k + i) + 1 = k + (i + 1)
    BY <1>2
  <2>3. \A i, j \in 1..n : i < j => k + i < k + j
    BY <1>2
  <2>4. Len(r) = n /\ \A i \in 1..n : r[i] = q[k + i]
    BY <1>2
  <2> HIDE DEF n
  <2>5. \A i \in 1..Len(r) : Whole(r[i], d, f)
    BY <2>1, <2>4 DEF Tiled
  <2>6. \A i \in 1..Len(r) - 1 : End(r[i]) = r[i + 1].seqno
    <3> SUFFICES ASSUME NEW i \in 1..n - 1 PROVE End(r[i]) = r[i + 1].seqno
      BY <2>4
    <3>1. End(q[k + i]) = q[(k + i) + 1].seqno
      BY <2>2 DEF Tiled
    <3>2. r[i] = q[k + i] /\ r[i + 1] = q[k + (i + 1)]
      BY <2>2, <2>4
    <3>3. (k + i) + 1 = k + (i + 1)
      BY <2>2
    <3> QED BY <3>1, <3>2, <3>3
  <2>7. \A i, j \in 1..Len(r) : i < j => End(r[i]) <= r[j].seqno
    <3> SUFFICES ASSUME NEW i \in 1..n, NEW j \in 1..n, i < j PROVE End(r[i]) <= r[j].seqno
      BY <2>4
    <3>1. End(q[k + i]) <= q[k + j].seqno
      BY <2>1, <2>3 DEF Tiled
    <3> QED BY <2>4, <3>1
  <2> QED BY <1>2, <2>5, <2>6, <2>7 DEF Tiled
<1> QED BY <1>3, <1>4 DEF b, r

\* Queues that meet.
LEMMA TiledTogether ==
  ASSUME NEW q, NEW r, NEW d \in Nat, NEW f \in BOOLEAN, Tiled(q, d, f), Tiled(r, d, f),
         NEW from, NEW at \in Nat, NEW to, Spans(q, from, at), Spans(r, at, to),
         r # <<>> => r[1].seqno = at
  PROVE  Tiled(q \o r, d, f) /\ Spans(q \o r, from, to)
<1> DEFINE w == q \o r
           m == Len(q)
           n == Len(r)
<1>1. q \in Seq(Segment) /\ r \in Seq(Segment)
  BY DEF Tiled
<1>2. /\ w \in Seq(Segment) /\ Len(w) = m + n /\ m \in Nat /\ n \in Nat
      /\ \A i \in 1..m : w[i] = q[i] /\ q[i] \in Segment
      /\ \A i \in 1..n : w[m + i] = r[i] /\ r[i] \in Segment
  BY <1>1, ConcatAt
<1>3. (q = <<>> <=> m = 0) /\ (r = <<>> <=> n = 0)
  BY <1>1, EmptySeq
<1> HIDE DEF w, m, n
<1>4. \A i \in 1..m + n : i \in 1..m \/ (i - m \in 1..n /\ m + (i - m) = i)
  BY <1>2
<1>5. \A i \in 1..m : End(q[i]) <= at
  <2> SUFFICES ASSUME NEW i \in 1..m PROVE End(q[i]) <= at
    OBVIOUS
  <2>1. m \in 1..m /\ m # 0 /\ q[m] \in Segment /\ q[i] \in Segment
    BY <1>2
  <2>2. End(q[m]) = at
    BY <1>3, <2>1 DEF Spans, m
  <2>3. CASE i = m
    BY <2>2, <2>3
  <2>4. CASE i # m
    <3>1. i < m
      BY <1>2, <2>4
    <3>2. End(q[i]) <= q[m].seqno
      BY <2>1, <3>1 DEF Tiled, m
    <3>3. q[m].seqno \in Nat /\ TcpLen(q[m]) \in Nat /\ End(q[m]) = q[m].seqno + TcpLen(q[m])
      BY <2>1, SegmentFields
    <3>4. End(q[i]) \in Nat
      BY <2>1, SegmentFields
    <3> QED BY ONLY <2>2, <3>2, <3>3, <3>4
  <2> QED BY <2>3, <2>4
<1>6. \A i \in 1..n : at <= r[i].seqno
  <2> SUFFICES ASSUME NEW i \in 1..n PROVE at <= r[i].seqno
    OBVIOUS
  <2>1. 1 \in 1..n /\ n # 0 /\ r[1] \in Segment /\ r[i] \in Segment
    BY <1>2
  <2>2. r[1].seqno = at
    BY <1>3, <2>1
  <2>3. CASE i = 1
    BY <2>2, <2>3
  <2>4. CASE i # 1
    <3>1. 1 < i
      BY <1>2, <2>4
    <3>2. End(r[1]) <= r[i].seqno
      BY <2>1, <3>1 DEF Tiled, n
    <3>3. r[1].seqno \in Nat /\ TcpLen(r[1]) \in Nat /\ End(r[1]) = r[1].seqno + TcpLen(r[1])
      BY <2>1, SegmentFields
    <3>4. r[i].seqno \in Nat
      BY <2>1, SegmentFields
    <3> QED BY ONLY <2>2, <3>2, <3>3, <3>4
  <2> QED BY <2>3, <2>4
<1>7. \A i \in 1..m + n : Whole(w[i], d, f)
  <2> SUFFICES ASSUME NEW i \in 1..m + n PROVE Whole(w[i], d, f)
    OBVIOUS
  <2>1. CASE i \in 1..m
    <3>1. Whole(q[i], d, f)
      BY <2>1 DEF Tiled, m
    <3> QED BY <1>2, <2>1, <3>1
  <2>2. CASE i - m \in 1..n /\ m + (i - m) = i
    <3>1. Whole(r[i - m], d, f)
      BY <2>2 DEF Tiled, n
    <3>2. w[m + (i - m)] = r[i - m]
      BY <1>2, <2>2
    <3> QED BY <2>2, <3>1, <3>2
  <2> QED BY <1>4, <2>1, <2>2
<1>8. \A i \in 1..(m + n) - 1 : End(w[i]) = w[i + 1].seqno
  <2> SUFFICES ASSUME NEW i \in 1..(m + n) - 1 PROVE End(w[i]) = w[i + 1].seqno
    OBVIOUS
  <2>1. CASE i < m
    <3>1. i \in 1..m - 1 /\ i \in 1..m /\ i + 1 \in 1..m
      BY <1>2, <2>1
    <3>2. End(q[i]) = q[i + 1].seqno
      BY <3>1 DEF Tiled, m
    <3> QED BY <1>2, <3>1, <3>2
  <2>2. CASE i = m
    <3>1. m \in 1..m /\ 1 \in 1..n /\ m # 0 /\ n # 0
      BY <1>2, <2>2
    <3>2. End(q[m]) = at
      BY <1>3, <3>1 DEF Spans, m
    <3>3. r[1].seqno = at
      BY <1>3, <3>1
    <3> QED BY <1>2, <2>2, <3>1, <3>2, <3>3
  <2>3. CASE m < i
    <3> DEFINE j == i - m
    <3>1. j \in 1..n - 1 /\ j \in 1..n /\ j + 1 \in 1..n /\ m + j = i /\ m + (j + 1) = i + 1
      BY <1>2, <2>3
    <3> HIDE DEF j
    <3>2. End(r[j]) = r[j + 1].seqno
      BY <3>1 DEF Tiled, n
    <3>3. w[m + j] = r[j] /\ w[m + (j + 1)] = r[j + 1]
      BY <1>2, <3>1
    <3> QED BY <3>1, <3>2, <3>3
  <2> QED BY <1>2, <2>1, <2>2, <2>3
<1>9. \A i, j \in 1..m + n : i < j => End(w[i]) <= w[j].seqno
  <2> SUFFICES ASSUME NEW i \in 1..m + n, NEW j \in 1..m + n, i < j
               PROVE  End(w[i]) <= w[j].seqno
    OBVIOUS
  <2>1. CASE i \in 1..m /\ j \in 1..m
    <3>1. End(q[i]) <= q[j].seqno
      BY <2>1 DEF Tiled, m
    <3> QED BY <1>2, <2>1, <3>1
  <2>2. CASE i \in 1..m /\ j - m \in 1..n /\ m + (j - m) = j
    <3>1. w[i] = q[i] /\ w[m + (j - m)] = r[j - m]
      BY <1>2, <2>2
    <3>2. End(q[i]) <= at /\ at <= r[j - m].seqno
      BY <1>5, <1>6, <2>2
    <3>3. q[i] \in Segment /\ r[j - m] \in Segment
      BY <1>2, <2>2
    <3>4. End(q[i]) \in Nat /\ r[j - m].seqno \in Nat
      BY <3>3, SegmentFields
    <3>5. End(q[i]) <= r[j - m].seqno
      BY ONLY <3>2, <3>4, at \in Nat
    <3> QED BY <2>2, <3>1, <3>5
  <2>3. CASE i - m \in 1..n /\ m + (i - m) = i /\ j - m \in 1..n /\ m + (j - m) = j
    <3>1. w[m + (i - m)] = r[i - m] /\ w[m + (j - m)] = r[j - m]
      BY <1>2, <2>3
    <3>2. i - m < j - m
      BY <1>2
    <3>3. End(r[i - m]) <= r[j - m].seqno
      BY <2>3, <3>2 DEF Tiled, n
    <3> QED BY <2>3, <3>1, <3>3
  <2>4. i \in 1..m \/ j - m \in 1..n
    BY <1>2
  <2>5. i \notin 1..m => j \notin 1..m
    BY <1>2
  <2> QED BY <1>4, <2>1, <2>2, <2>3, <2>4, <2>5
<1>10. Tiled(w, d, f)
  BY <1>2, <1>7, <1>8, <1>9 DEF Tiled
<1>11. Spans(w, from, to)
  <2>1. CASE m = 0
    <3>1. w = r /\ q = <<>>
      BY <1>1, <1>3, <2>1, ConcatEmptySeq DEF w
    <3> QED BY <3>1 DEF Spans
  <2>2. CASE m # 0 /\ n = 0
    <3>1. w = q /\ r = <<>>
      BY <1>1, <1>3, <2>2, ConcatEmptySeq DEF w
    <3> QED BY <3>1 DEF Spans
  <2>3. CASE m # 0 /\ n # 0
    <3>1. w[1] = q[1] /\ w[Len(w)] = r[n] /\ w # <<>>
      <4>1. 1 \in 1..m /\ n \in 1..n /\ Len(w) = m + n /\ m + n # 0
        BY <1>2, <2>3
      <4>2. w # <<>>
        BY <1>2, <4>1, EmptySeq
      <4> QED BY <1>2, <4>1, <4>2
    <3>2. q[1].seqno <= from /\ from < End(q[1])
      BY <1>3, <2>3 DEF Spans
    <3>3. End(r[n]) = to
      BY <1>3, <2>3 DEF Spans, n
    <3> QED BY <3>1, <3>2, <3>3 DEF Spans
  <2> QED BY <2>1, <2>2, <2>3
<1> QED BY <1>10, <1>11 DEF w
LEMMA TiledOne ==
  ASSUME NEW s \in Segment, NEW d \in Nat, NEW f \in BOOLEAN, Whole(s, d, f),
         NEW from \in Nat, s.seqno <= from, from < End(s)
  PROVE  Tiled(<<s>>, d, f) /\ Spans(<<s>>, from, End(s))
<1> DEFINE q == <<s>>
<1>1. q \in Seq(Segment) /\ Len(q) = 1 /\ q[1] = s /\ q # <<>>
  OBVIOUS
<1> HIDE DEF q
<1>2. Tiled(q, d, f)
  <2>1. \A i \in 1..Len(q) : i = 1
    BY <1>1
  <2>2. \A i \in 1..Len(q) - 1 : FALSE
    BY <1>1
  <2>3. \A i, j \in 1..Len(q) : ~ (i < j)
    BY <1>1
  <2> QED BY <1>1, <2>1, <2>2, <2>3 DEF Tiled
<1>3. Spans(q, from, End(s))
  BY <1>1 DEF Spans
<1> QED BY <1>2, <1>3 DEF q

\* The last segment grows, or takes the FIN.
LEMMA LastReplaced ==
  ASSUME NEW q, NEW d \in Nat, Tiled(q, d, FALSE), q # <<>>,
         NEW from \in Nat, NEW to, Spans(q, from, to),
         NEW s \in Segment, NEW e \in Nat, d <= e, NEW f \in BOOLEAN, Whole(s, e, f),
         s.seqno = q[Len(q)].seqno, End(q[Len(q)]) <= End(s)
  PROVE  LET r == SubSeq(q, 1, Len(q) - 1) \o <<s>>
         IN /\ Tiled(r, e, f) /\ Spans(r, from, End(s))
            /\ Len(r) = Len(q) /\ r[Len(r)] = s /\ r # <<>> /\ r[1].seqno = q[1].seqno
<1> DEFINE b == SubSeq(q, 1, Len(q) - 1)
           r == b \o <<s>>
           n == Len(q)
<1>1. q \in Seq(Segment) /\ n \in Nat /\ n # 0 /\ n - 1 \in 0..n /\ n \in 1..n
  BY EmptySeq DEF Tiled
<1>2. b \in Seq(Segment) /\ Len(b) = n - 1 /\ \A i \in 1..n - 1 : b[i] = q[i]
  <2> DEFINE k == Len(q) - 1
  <2>1. k \in 0..Len(q) /\ k = n - 1
    BY <1>1
  <2> HIDE DEF k
  <2>2. LET c == SubSeq(q, 1, k)
        IN c \in Seq(Segment) /\ Len(c) = k /\ \A i \in 1..k : c[i] = q[i]
    BY <1>1, <2>1, CutAt
  <2> QED BY <2>1, <2>2 DEF k
<1>3. Tiled(b, e, f)
  <2>1. Tiled(b, d, FALSE)
    BY <1>1, TiledPart
  <2> QED BY <2>1, TiledMore
<1>4. <<s>> \in Seq(Segment) /\ Len(<<s>>) = 1 /\ <<s>>[1] = s
  OBVIOUS
<1>5. /\ r \in Seq(Segment) /\ Len(r) = (n - 1) + 1
      /\ \A i \in 1..n - 1 : r[i] = b[i]
      /\ \A i \in 1..1 : r[(n - 1) + i] = <<s>>[i]
  BY <1>2, <1>4, ConcatAt
<1> HIDE DEF b, n
<1>6. Len(r) = n /\ r[n] = s /\ r # <<>>
  <2>1. (n - 1) + 1 = n /\ 1 \in 1..1
    BY <1>1
  <2>2. r[n] = s
    BY <1>4, <1>5, <2>1
  <2> QED BY <1>1, <1>5, <2>1, <2>2, EmptySeq
<1>7. /\ s.seqno \in Nat /\ TcpLen(s) \in Nat /\ TcpLen(s) > 0 /\ End(s) = s.seqno + TcpLen(s)
      /\ s.seqno < End(s)
  BY SegmentFields DEF Whole
<1>8. q[n] \in Segment /\ q[1] \in Segment
  BY <1>1 DEF n
<1>9. q[1].seqno <= from /\ from < End(q[1])
  BY DEF Spans
<1>10. CASE n = 1
  <2>1. b = <<>>
    BY <1>1, <1>2, <1>10, EmptySeq
  <2>2. r = <<s>>
    BY <1>4, <2>1, ConcatEmptySeq
  <2>3. s.seqno <= from /\ from < End(s)
    <3>1. End(q[1]) <= End(s) /\ s.seqno = q[1].seqno
      BY <1>10 DEF n
    <3>2. End(q[1]) \in Nat /\ End(s) \in Nat
      BY <1>8, SegmentFields
    <3> QED BY ONLY <1>9, <3>1, <3>2, from \in Nat
  <2>4. Tiled(r, e, f) /\ Spans(r, from, End(s))
    BY <2>2, <2>3, TiledOne
  <2>5. r[1].seqno = q[1].seqno
    BY <1>6, <1>10 DEF n
  <2> QED BY <1>6, <2>4, <2>5 DEF b, n
<1>11. CASE n # 1
  <2>1. 1 \in 1..n - 1 /\ n - 1 \in 1..n - 1 /\ (n - 1) + 1 = n
    BY <1>1, <1>11
  <2>2. b # <<>>
    BY <1>2, <2>1, EmptySeq
  <2>3. End(q[n - 1]) = q[n].seqno
    <3>1. End(q[n - 1]) = q[(n - 1) + 1].seqno
      BY <2>1 DEF Tiled, n
    <3> QED BY <2>1, <3>1
  <2>4. Spans(b, from, s.seqno)
    <3>1. b[1] = q[1] /\ b[Len(b)] = q[n - 1]
      BY <1>2, <2>1
    <3>2. s.seqno = q[n].seqno
      BY DEF n
    <3> QED BY <1>9, <2>2, <2>3, <3>1, <3>2 DEF Spans
  <2>5. Tiled(<<s>>, e, f) /\ Spans(<<s>>, s.seqno, End(s))
    BY <1>7, TiledOne
  <2>6. <<s>>[1].seqno = s.seqno /\ s.seqno \in Nat
    BY <1>4, <1>7
  <2>7. Tiled(r, e, f) /\ Spans(r, from, End(s))
    BY <1>3, <2>4, <2>5, <2>6, TiledTogether
  <2>8. r[1] = q[1]
    BY <1>2, <1>5, <2>1
  <2> QED BY <1>6, <2>7, <2>8 DEF b, n
<1> QED BY <1>10, <1>11

LEMMA Regroup ==
  ASSUME NEW a \in Seq(Segment), NEW b \in Seq(Segment), NEW c \in Seq(Segment)
  PROVE  a \o (b \o c) = (a \o b) \o c
OBVIOUS

LEMMA QueuesEnd ==
  ASSUME NEW u \in Seq(Segment), NEW v \in Seq(Segment), v # <<>>, NEW s \in Segment
  PROVE  LET q == u \o v
         IN /\ u \o (SubSeq(v, 1, Len(v) - 1) \o <<s>>) = SubSeq(q, 1, Len(q) - 1) \o <<s>>
            /\ q[Len(q)] = v[Len(v)] /\ q # <<>> /\ q \in Seq(Segment)
<1> DEFINE q == u \o v
           b == SubSeq(v, 1, Len(v) - 1)
           p == SubSeq(q, 1, Len(q) - 1)
           x == <<s>>
<1>0. Len(v) \in Nat /\ Len(v) # 0 /\ Len(u) \in Nat
  BY EmptySeq
<1>1. /\ q \in Seq(Segment) /\ Len(q) = Len(u) + Len(v)
      /\ \A i \in 1..Len(u) : q[i] = u[i]
      /\ \A i \in 1..Len(v) : q[Len(u) + i] = v[i]
  BY ConcatAt
<1> HIDE DEF q
<1>2. b \in Seq(Segment) /\ Len(b) = Len(v) - 1 /\ \A i \in 1..Len(v) - 1 : b[i] = v[i]
  <2> DEFINE m == Len(v) - 1
  <2>1. m \in 0..Len(v)
    BY <1>0
  <2> HIDE DEF m
  <2>2. /\ SubSeq(v, 1, m) \in Seq(Segment) /\ Len(SubSeq(v, 1, m)) = m
        /\ \A i \in 1..m : SubSeq(v, 1, m)[i] = v[i]
    BY ONLY <2>1, v \in Seq(Segment), CutAt
  <2> QED BY <2>2 DEF m
<1>3. p \in Seq(Segment) /\ Len(p) = Len(q) - 1 /\ \A i \in 1..Len(q) - 1 : p[i] = q[i]
  <2>1. Len(q) - 1 \in 0..Len(q)
    BY <1>0, <1>1
  <2> QED BY <1>1, <2>1, CutAt
<1> HIDE DEF b, p
<1>4. /\ u \o b \in Seq(Segment) /\ Len(u \o b) = Len(u) + (Len(v) - 1)
      /\ \A i \in 1..Len(u) : (u \o b)[i] = u[i]
      /\ \A i \in 1..Len(v) - 1 : (u \o b)[Len(u) + i] = b[i]
  <2>1. /\ u \o b \in Seq(Segment) /\ Len(u \o b) = Len(u) + Len(b)
        /\ \A i \in 1..Len(u) : (u \o b)[i] = u[i]
        /\ \A i \in 1..Len(b) : (u \o b)[Len(u) + i] = b[i]
    <3>1. b \in Seq(Segment)
      BY <1>2
    <3> QED BY ONLY <3>1, u \in Seq(Segment), ConcatAt
  <2>2. Len(b) = Len(v) - 1
    BY <1>2
  <2> QED BY <2>1, <2>2
<1>5. Len(p) = Len(u \o b)
  BY <1>0, <1>1, <1>3, <1>4
<1>6. ASSUME NEW i \in 1..Len(p) PROVE p[i] = (u \o b)[i]
  <2>1. i \in 1..Len(q) - 1
    BY <1>3
  <2>2. CASE i \in 1..Len(u)
    BY <1>1, <1>3, <1>4, <2>1, <2>2
  <2>3. CASE i \notin 1..Len(u)
    <3> DEFINE j == i - Len(u)
    <3>1. j \in 1..Len(v) - 1 /\ j \in 1..Len(v) /\ Len(u) + j = i
      BY <1>0, <1>1, <2>1, <2>3
    <3> HIDE DEF j
    <3>2. q[Len(u) + j] = v[j] /\ (u \o b)[Len(u) + j] = b[j] /\ b[j] = v[j]
      BY <1>1, <1>2, <1>4, <3>1
    <3> QED BY <1>3, <2>1, <3>1, <3>2
  <2> QED BY <2>2, <2>3
<1>7. p = u \o b
  BY <1>3, <1>4, <1>5, <1>6, SeqEqual
<1>8. x \in Seq(Segment)
  OBVIOUS
<1> HIDE DEF x
<1>9. u \o (b \o x) = (u \o b) \o x
  <2>1. b \in Seq(Segment)
    BY ONLY <1>2
  <2> HIDE DEF b
  <2> QED BY ONLY u \in Seq(Segment), <2>1, <1>8, Regroup
<1>10. q[Len(q)] = v[Len(v)]
  <2>1. Len(v) \in 1..Len(v)
    BY <1>0
  <2> QED BY <1>1, <2>1
<1>11. q # <<>>
  <2>1. Len(q) # 0
    BY <1>0, <1>1
  <2> QED BY <2>1
<1> QED BY <1>1, <1>7, <1>9, <1>10, <1>11 DEF q, b, p, x

\* The parameters of tcp_write.
LEMMA Sizes ==
  /\ Mss1 \in Nat /\ Mss1 >= 1 /\ Mss1 <= Mss
  /\ Mss \in Nat /\ Mss >= 1 /\ Wnd \in Nat /\ Wnd >= 2 /\ Bytes \in Nat /\ U16 \in Nat
  /\ SndBuf \in Nat /\ SndBuf < U16 /\ SndBuf >= 1
  /\ QueueMax \in Nat /\ MaxRtx \in Nat
<1>1. /\ Mss \in Nat /\ Mss >= 1 /\ Wnd \in Nat /\ Wnd >= 2 /\ Bytes \in Nat /\ U16 \in Nat
      /\ SndBuf \in Nat /\ SndBuf < U16 /\ SndBuf >= 1 /\ QueueMax \in Nat /\ MaxRtx \in Nat
  BY ConstantsAssumption
<1>2. Wnd \div 2 \in Nat /\ Wnd \div 2 >= 1
  BY <1>1
<1> QED BY <1>1, <1>2 DEF Mss1, Min2

LEMMA Multiples ==
  ASSUME NEW m \in Nat, NEW i \in Nat, NEW j \in Nat
  PROVE  /\ i * m \in Nat
         /\ i <= j => i * m <= j * m
         /\ (i + 1) * m = i * m + m
<1>1. i * m \in Nat
  OBVIOUS
<1>2. ASSUME i <= j PROVE i * m <= j * m
  <2> DEFINE k == j - i
  <2>1. k \in Nat /\ j = i + k
    BY <1>2
  <2> HIDE DEF k
  <2>2. (i + k) * m = i * m + k * m
    BY <2>1
  <2>3. k * m \in Nat
    BY <2>1
  <2> QED BY <1>1, <2>1, <2>2, <2>3
<1>3. (i + 1) * m = i * m + m
  OBVIOUS
<1> QED BY <1>1, <1>2, <1>3

\* As many segments of m bytes as n bytes need.
LEMMA Ceiling ==
  ASSUME NEW m \in Nat, m >= 1, NEW n \in Nat
  PROVE  LET k == (n + m - 1) \div m
         IN /\ k \in Nat /\ n <= k * m /\ (k = 0 <=> n = 0)
            /\ \A i \in 1..k : (i - 1) * m < n
<1> DEFINE k == ((n + m) - 1) \div m
<1>0. n + m - 1 = (n + m) - 1 /\ (n + m) - 1 \in Nat
  OBVIOUS
<1>1. k \in Nat
  BY <1>0
<1>2. k * m <= (n + m) - 1 /\ (n + m) - 1 < (k + 1) * m
  BY <1>0
<1> HIDE DEF k
<1>3. (k + 1) * m = k * m + m /\ k * m \in Nat
  BY <1>1, Multiples
<1>4. n <= k * m
  BY <1>2, <1>3
<1>5. ASSUME NEW i \in 1..k PROVE (i - 1) * m < n
  <2>1. i - 1 \in Nat /\ i \in Nat /\ i <= k /\ (i - 1) + 1 = i
    BY <1>1
  <2>2. i * m <= k * m /\ ((i - 1) + 1) * m = (i - 1) * m + m /\ i * m \in Nat /\ (i - 1) * m \in Nat
    BY <1>1, <2>1, Multiples
  <2>3. i * m = (i - 1) * m + m
    BY <2>1, <2>2
  <2> DEFINE a == (i - 1) * m
             b == i * m
             c == k * m
  <2>4. b <= c /\ b = a + m /\ c <= (n + m) - 1 /\ a \in Nat /\ b \in Nat /\ c \in Nat
    BY <1>2, <1>3, <2>2, <2>3
  <2> HIDE DEF a, b, c
  <2>5. a < n
    BY <2>4
  <2> QED BY <2>5 DEF a
<1>6. k = 0 => n = 0
  BY <1>4
<1>7. n = 0 => k = 0
  <2> SUFFICES ASSUME n = 0, k # 0 PROVE FALSE
    OBVIOUS
  <2>1. k \in 1..k
    BY <1>1
  <2>2. (k - 1) * m < 0
    BY <1>5, <2>1
  <2>3. (k - 1) * m \in Nat
    <3>1. k - 1 \in Nat
      BY <1>1
    <3> QED BY <3>1, Multiples
  <2> QED BY <2>2, <2>3
<1> QED BY <1>0, <1>1, <1>4, <1>5, <1>6, <1>7 DEF k
LEMMA MssOfWrite ==
  ASSUME NEW p, p.snd_wnd_max = Wnd
  PROVE  Mss2(p) = Mss1
BY DEF Mss2, Mss1

\* What tcp_write cuts n bytes into.
LEMMA CutTiles ==
  ASSUME NEW p, p.snd_wnd_max = Wnd, NEW a \in Nat, NEW n \in Nat
  PROVE  /\ Tiled(Cut(p, a, n), a + n, FALSE)
         /\ Spans(Cut(p, a, n), a, a + n)
         /\ Cut(p, a, n) # <<>> => Cut(p, a, n)[1].seqno = a
         /\ Cut(p, a, n) = <<>> <=> n = 0
         /\ Singles(Cut(p, a, n))
<1> DEFINE m == Mss1
           k == (n + m - 1) \div m
           x(i) == (i - 1) * m
           r == [i \in 1..k |->
                   [seqno |-> a + (i - 1) * m, len |-> Min2(m, n - (i - 1) * m),
                    fin |-> FALSE, bufs |-> 1]]
<1>0. m \in Nat /\ m >= 1 /\ m <= Mss
  BY Sizes
<1>1. Cut(p, a, n) = r
  <2>1. Mss2(p) = Mss1
    BY MssOfWrite
  <2> QED BY <2>1, Zenon DEF Cut
<1> HIDE DEF m
<1>2. k \in Nat /\ n <= k * m /\ (k = 0 <=> n = 0) /\ \A i \in 1..k : x(i) < n
  BY <1>0, Ceiling
<1> HIDE DEF k
<1>3. \A i \in 1..k + 1 : x(i) \in Nat
  <2> SUFFICES ASSUME NEW i \in 1..k + 1 PROVE x(i) \in Nat
    OBVIOUS
  <2>1. i - 1 \in Nat
    BY <1>2
  <2> QED BY <1>0, <2>1, Multiples
<1>4. \A i \in 1..k : x(i + 1) = x(i) + m
  <2> SUFFICES ASSUME NEW i \in 1..k PROVE x(i + 1) = x(i) + m
    OBVIOUS
  <2>1. i - 1 \in Nat /\ (i + 1) - 1 = (i - 1) + 1
    BY <1>2
  <2>2. ((i - 1) + 1) * m = (i - 1) * m + m
    BY <1>0, <2>1, Multiples
  <2> QED BY <2>1, <2>2
<1>5. \A i, j \in 1..k + 1 : i <= j => x(i) <= x(j)
  <2> SUFFICES ASSUME NEW i \in 1..k + 1, NEW j \in 1..k + 1, i <= j PROVE x(i) <= x(j)
    OBVIOUS
  <2>1. i - 1 \in Nat /\ j - 1 \in Nat /\ i - 1 <= j - 1
    BY <1>2
  <2> QED BY <1>0, <2>1, Multiples
<1>6. x(1) = 0
  BY <1>0
<1>7. n <= x(k + 1)
  <2>1. (k + 1) - 1 = k
    BY <1>2
  <2> QED BY <1>2, <2>1
<1>8. r = [i \in 1..k |-> [seqno |-> a + x(i), len |-> Min2(m, n - x(i)), fin |-> FALSE, bufs |-> 1]]
  OBVIOUS
<1> HIDE DEF x, r
<1>9. ASSUME NEW i \in 1..k
      PROVE  /\ r[i] \in Segment /\ r[i].seqno = a + x(i) /\ r[i].bufs = 1 /\ ~ r[i].fin
             /\ r[i].len \in 1..m
             /\ End(r[i]) = (a + x(i)) + r[i].len
             /\ i < k => End(r[i]) = a + x(i + 1)
             /\ i = k => End(r[i]) = a + n
  <2>1. /\ i \in 1..k + 1 /\ i + 1 \in 1..k + 1
        /\ i < k => i + 1 \in 1..k
    BY <1>2
  <2> DEFINE y == x(i)
             z == x(i + 1)
  <2>2. y \in Nat /\ y < n /\ z = y + m /\ (i < k => z < n) /\ (i = k => n <= z)
    BY <1>2, <1>3, <1>4, <1>7, <2>1
  <2>3. /\ r[i].seqno = a + y /\ r[i].len = Min2(m, n - y) /\ r[i].fin = FALSE /\ r[i].bufs = 1
        /\ r[i] = [seqno |-> a + y, len |-> Min2(m, n - y), fin |-> FALSE, bufs |-> 1]
    BY <1>8
  <2> HIDE DEF y, z
  <2>4. /\ Min2(m, n - y) \in 1..m
        /\ i < k => Min2(m, n - y) = m
        /\ i = k => Min2(m, n - y) = n - y
    BY <1>0, <2>2 DEF Min2
  <2>5. r[i] \in Segment
    BY <1>0, <2>2, <2>3, <2>4 DEF Segment
  <2>6. End(r[i]) = (a + y) + Min2(m, n - y)
    <3>1. TcpLen(r[i]) = Min2(m, n - y) + 0
      BY <2>3 DEF TcpLen, Flag
    <3>2. Min2(m, n - y) + 0 = Min2(m, n - y)
      BY <1>0, <2>4
    <3> QED BY <2>3, <3>1, <3>2 DEF End
  <2>7. i < k => End(r[i]) = a + z
    <3> SUFFICES ASSUME i < k PROVE End(r[i]) = a + z
      OBVIOUS
    <3>1. End(r[i]) = (a + y) + m
      BY <2>4, <2>6
    <3> QED BY <1>0, <2>2, <3>1
  <2>8. i = k => End(r[i]) = a + n
    <3> SUFFICES ASSUME i = k PROVE End(r[i]) = a + n
      OBVIOUS
    <3>1. End(r[i]) = (a + y) + (n - y)
      BY <2>4, <2>6
    <3> QED BY <2>2, <3>1
  <2> QED BY <2>3, <2>4, <2>5, <2>6, <2>7, <2>8 DEF y, z
<1>10. r \in Seq(Segment) /\ Len(r) = k
  <2>1. r = [i \in 1..k |-> r[i]]
    BY <1>8
  <2>2. r \in [1..k -> Segment]
    BY <1>9, <2>1
  <2> QED BY <1>2, <2>2
<1>11. Tiled(r, a + n, FALSE)
  <2>1. \A i \in 1..k : Whole(r[i], a + n, FALSE)
    <3> SUFFICES ASSUME NEW i \in 1..k PROVE Whole(r[i], a + n, FALSE)
      OBVIOUS
    <3>1. TcpLen(r[i]) = r[i].len + 0
      BY <1>9 DEF TcpLen, Flag
    <3>2. r[i].len <= m /\ TcpLen(r[i]) > 0
      BY <1>0, <1>9, <3>1
    <3>3. r[i].seqno + r[i].len = End(r[i])
      BY <1>9
    <3>4. End(r[i]) <= a + n
      <4>1. CASE i = k
        BY <1>9, <4>1
      <4>2. CASE i # k
        <5>1. i < k /\ i + 1 \in 1..k /\ i + 1 \in 1..k + 1
          BY <1>2, <4>2
        <5>2. End(r[i]) = a + x(i + 1) /\ x(i + 1) < n /\ x(i + 1) \in Nat
          BY <1>2, <1>3, <1>9, <5>1
        <5> QED BY <5>2
      <4> QED BY <4>1, <4>2
    <3>5. r[i].seqno + r[i].len <= a + n
      BY <3>3, <3>4
    <3> QED BY <1>9, <3>2, <3>5 DEF Whole, m
  <2>2. \A i \in 1..k - 1 : End(r[i]) = r[i + 1].seqno
    <3> SUFFICES ASSUME NEW i \in 1..k - 1 PROVE End(r[i]) = r[i + 1].seqno
      OBVIOUS
    <3>1. i \in 1..k /\ i < k /\ i + 1 \in 1..k
      BY <1>2
    <3> QED BY <1>9, <3>1
  <2>3. \A i, j \in 1..k : i < j => End(r[i]) <= r[j].seqno
    <3> SUFFICES ASSUME NEW i \in 1..k, NEW j \in 1..k, i < j PROVE End(r[i]) <= r[j].seqno
      OBVIOUS
    <3>1. i < k /\ i + 1 \in 1..k + 1 /\ j \in 1..k + 1 /\ i + 1 <= j
      BY <1>2
    <3>2. End(r[i]) = a + x(i + 1) /\ r[j].seqno = a + x(j)
      BY <1>9, <3>1
    <3>3. x(i + 1) <= x(j) /\ x(i + 1) \in Nat /\ x(j) \in Nat
      BY <1>3, <1>5, <3>1
    <3> QED BY <3>2, <3>3
  <2> QED BY <1>10, <2>1, <2>2, <2>3 DEF Tiled
<1>12. r = <<>> <=> n = 0
  <2>1. r = <<>> <=> k = 0
    BY <1>2, <1>10, EmptySeq
  <2> QED BY <1>2, <2>1
<1>13. ASSUME r # <<>> PROVE r[1].seqno = a /\ a < End(r[1]) /\ End(r[Len(r)]) = a + n
  <2>1. 1 \in 1..k /\ k \in 1..k
    BY <1>2, <1>12, <1>13
  <2>2. r[1].seqno = a
    <3>1. r[1].seqno = a + x(1)
      BY <1>9, <2>1
    <3> QED BY <1>6, <3>1
  <2>3. a < End(r[1])
    <3>1. End(r[1]) = (a + x(1)) + r[1].len /\ r[1].len \in 1..m
      BY <1>9, <2>1
    <3> QED BY <1>0, <1>6, <3>1
  <2>4. End(r[Len(r)]) = a + n
    BY <1>9, <1>10, <2>1
  <2> QED BY <2>2, <2>3, <2>4
<1>14. Spans(r, a, a + n)
  <2>1. r = <<>> => a = a + n
    BY <1>12
  <2>2. r # <<>> => r[1].seqno <= a
    BY <1>13
  <2> QED BY <1>13, <2>1, <2>2 DEF Spans
<1>15. Singles(r)
  BY <1>9, <1>10 DEF Singles
<1> QED BY <1>1, <1>11, <1>12, <1>13, <1>14, <1>15
----------------------------------------------------------------------------
\* What an ACK frees.
LEMMA AckedIs ==
  ASSUME NEW q \in Seq(Segment), NEW ackno \in Nat
  PROVE  /\ Acked(q, ackno) \in 0..Len(q)
         /\ \A i \in 1..Acked(q, ackno) : End(q[i]) <= ackno
         /\ Acked(q, ackno) < Len(q) => ackno < End(q[Acked(q, ackno) + 1])
<1> DEFINE T == {k \in 0..Len(q) : \A i \in 1..k : End(q[i]) <= ackno}
           k == Max(T)
<1>0. Len(q) \in Nat
  OBVIOUS
<1>1. 0 \in T
  BY <1>0
<1>2. k \in T /\ \A y \in T : k >= y
  BY <1>0, <1>1, GreatestNat
<1>3. Acked(q, ackno) = k
  BY DEF Acked
<1>4. k \in 0..Len(q) /\ \A i \in 1..k : End(q[i]) <= ackno
  BY <1>2
<1>5. \A y \in 0..Len(q) : (\A i \in 1..y : End(q[i]) <= ackno) => k >= y
  BY <1>2
<1> HIDE DEF k
<1>6. ASSUME k < Len(q) PROVE ackno < End(q[k + 1])
  <2>1. k + 1 \in 0..Len(q) /\ k + 1 \in 1..Len(q) /\ ~ (k >= k + 1)
    BY <1>0, <1>4, <1>6
  <2>2. PICK i \in 1..k + 1 : ~ (End(q[i]) <= ackno)
    BY <1>5, <2>1
  <2>3. i = k + 1
    BY <1>0, <1>4, <2>2
  <2>4. q[k + 1] \in Segment
    BY <2>1
  <2>5. End(q[k + 1]) \in Nat
    BY <2>4, SegmentFields
  <2> QED BY <2>2, <2>3, <2>5
<1> QED BY <1>3, <1>4, <1>6

\* Nothing is freed by an ACK that does not reach the end of the first segment.
LEMMA NoneAcked ==
  ASSUME NEW q \in Seq(Segment), NEW ackno \in Nat, q # <<>> => ackno < End(q[1])
  PROVE  Acked(q, ackno) = 0
<1> DEFINE k == Acked(q, ackno)
<1>1. k \in 0..Len(q) /\ \A i \in 1..k : End(q[i]) <= ackno
  BY AckedIs
<1> HIDE DEF k
<1>2. ASSUME k # 0 PROVE FALSE
  <2>1. 1 \in 1..k /\ 1 \in 1..Len(q) /\ q # <<>>
    BY <1>1, <1>2
  <2>2. q[1] \in Segment
    BY <2>1
  <2>3. End(q[1]) \in Nat
    BY <2>2, SegmentFields
  <2>4. End(q[1]) <= ackno /\ ackno < End(q[1])
    BY <1>1, <2>1
  <2> QED BY <2>3, <2>4
<1> QED BY <1>2 DEF k

SameEnd(q, r) == q # <<>> => r # <<>> /\ q[Len(q)] = r[Len(r)]

\* tcp_receive takes what is acknowledged from unacked, and then from unsent.
LEMMA Freed ==
  ASSUME NEW u \in Seq(Segment), NEW v \in Seq(Segment), NEW d \in Nat, NEW f \in BOOLEAN,
         Tiled(u \o v, d, f), NEW old \in Nat, NEW to \in Nat, Spans(u \o v, old, to),
         NEW ackno \in Nat, old <= ackno, ackno <= to
  PROVE  LET i == Acked(u, ackno)
             j == Acked(v, ackno)
             q == SubSeq(u, i + 1, Len(u)) \o SubSeq(v, j + 1, Len(v))
         IN /\ Tiled(q, d, f) /\ Spans(q, ackno, to)
            /\ SameEnd(q, u \o v)
<1> DEFINE i == Acked(u, ackno)
           j == Acked(v, ackno)
           u1 == SubSeq(u, i + 1, Len(u))
           v1 == SubSeq(v, j + 1, Len(v))
           w == u \o v
<1>1. /\ w \in Seq(Segment) /\ Len(w) = Len(u) + Len(v) /\ Len(u) \in Nat /\ Len(v) \in Nat
      /\ \A m \in 1..Len(u) : w[m] = u[m]
      /\ \A m \in 1..Len(v) : w[Len(u) + m] = v[m]
  BY ConcatAt
<1>2. /\ i \in 0..Len(u)
      /\ \A m \in 1..i : End(u[m]) <= ackno
      /\ i < Len(u) => ackno < End(u[i + 1])
  BY AckedIs
<1>3. /\ j \in 0..Len(v)
      /\ \A m \in 1..j : End(v[m]) <= ackno
      /\ j < Len(v) => ackno < End(v[j + 1])
  BY AckedIs
<1>4. Tiled(w, d, f) /\ Spans(w, old, to)
  OBVIOUS
<1> HIDE DEF w, i, j
<1>5. u1 \in Seq(Segment) /\ Len(u1) = Len(u) - i /\ \A m \in 1..Len(u) - i : u1[m] = u[i + m]
  BY <1>2, CutAt
<1>6. v1 \in Seq(Segment) /\ Len(v1) = Len(v) - j /\ \A m \in 1..Len(v) - j : v1[m] = v[j + m]
  BY <1>3, CutAt
<1> HIDE DEF u1, v1
<1>7. \A m \in 1..Len(w) : w[m] \in Segment /\ End(w[m]) \in Nat /\ w[m].seqno \in Nat
  <2> SUFFICES ASSUME NEW m \in 1..Len(w)
               PROVE  w[m] \in Segment /\ End(w[m]) \in Nat /\ w[m].seqno \in Nat
    OBVIOUS
  <2>1. w[m] \in Segment
    BY <1>1
  <2> QED BY <2>1, SegmentFields
<1>8. ASSUME i < Len(u) PROVE j = 0
  <2> SUFFICES ASSUME j # 0 PROVE FALSE
    OBVIOUS
  <2>1. /\ i + 1 \in 1..Len(u) /\ 1 \in 1..j /\ 1 \in 1..Len(v)
        /\ i + 1 \in 1..Len(w) /\ Len(u) + 1 \in 1..Len(w) /\ i + 1 < Len(u) + 1
    BY <1>1, <1>2, <1>3, <1>8
  <2>2. End(w[i + 1]) <= w[Len(u) + 1].seqno
    BY <1>4, <2>1 DEF Tiled
  <2>3. w[i + 1] = u[i + 1] /\ w[Len(u) + 1] = v[1]
    BY <1>1, <2>1
  <2>4. ackno < End(w[i + 1]) /\ End(w[Len(u) + 1]) <= ackno
    BY <1>2, <1>3, <1>8, <2>1, <2>3
  <2>5. w[Len(u) + 1] \in Segment
    BY <1>7, <2>1
  <2>6. End(w[Len(u) + 1]) = w[Len(u) + 1].seqno + TcpLen(w[Len(u) + 1]) /\ TcpLen(w[Len(u) + 1]) \in Nat
    BY <2>5, SegmentFields
  <2>7. End(w[i + 1]) \in Nat /\ w[Len(u) + 1].seqno \in Nat
    BY <1>7, <2>1
  <2> QED BY ONLY <2>2, <2>4, <2>6, <2>7, ackno \in Nat
<1> DEFINE k == i + j
           q == SubSeq(w, k + 1, Len(w))
<1>9. k \in 0..Len(w)
  BY <1>1, <1>2, <1>3
<1>10. \A m \in 1..k : End(w[m]) <= ackno
  <2> SUFFICES ASSUME NEW m \in 1..k PROVE End(w[m]) <= ackno
    OBVIOUS
  <2>1. CASE m \in 1..i
    <3>1. m \in 1..Len(u)
      BY <1>1, <1>2, <2>1
    <3> QED BY <1>1, <1>2, <2>1, <3>1
  <2>2. CASE m \notin 1..i
    <3>1. j # 0
      BY <1>2, <1>3, <2>2
    <3>2. i = Len(u)
      BY <1>1, <1>2, <1>8, <3>1
    <3> DEFINE n == m - Len(u)
    <3>3. n \in 1..j /\ n \in 1..Len(v) /\ Len(u) + n = m
      BY <1>1, <1>2, <1>3, <2>2, <3>2
    <3> HIDE DEF n
    <3>4. w[Len(u) + n] = v[n] /\ End(v[n]) <= ackno
      BY <1>1, <1>3, <3>3
    <3> QED BY <3>3, <3>4
  <2> QED BY <2>1, <2>2
<1>11. ASSUME k < Len(w) PROVE ackno < End(w[k + 1])
  <2>1. CASE i < Len(u)
    <3>1. j = 0
      BY <1>8, <2>1
    <3>2. i + 1 \in 1..Len(u) /\ k + 1 = i + 1
      BY <1>1, <1>2, <2>1, <3>1
    <3> QED BY <1>1, <1>2, <2>1, <3>2
  <2>2. CASE ~ (i < Len(u))
    <3>1. i = Len(u) /\ j < Len(v) /\ j + 1 \in 1..Len(v) /\ k + 1 = Len(u) + (j + 1)
      <4> DEFINE a == Len(u)
                 b == Len(v)
      <4>1. a \in Nat /\ b \in Nat /\ i \in 0..a /\ j \in 0..b /\ ~ (i < a)
        BY <1>1, <1>2, <1>3, <2>2
      <4>2. i + j < a + b
        BY <1>1, <1>11
      <4> HIDE DEF a, b
      <4>3. i = a /\ j < b /\ j + 1 \in 1..b
        BY ONLY <4>1, <4>2
      <4>4. k + 1 = a + (j + 1)
        BY ONLY <4>1, <4>3 DEF k
      <4> QED BY <4>3, <4>4 DEF a, b
    <3>2. w[Len(u) + (j + 1)] = v[j + 1]
      BY <1>1, <3>1
    <3> QED BY <1>3, <3>1, <3>2
  <2> QED BY <2>1, <2>2
<1>12. /\ q \in Seq(Segment) /\ Len(q) = Len(w) - k
       /\ \A m \in 1..Len(w) - k : q[m] = w[k + m]
  <2> HIDE DEF k
  <2>1. w \in Seq(Segment) /\ k \in 0..Len(w)
    BY <1>1, <1>9
  <2> QED BY ONLY <2>1, CutAt
<1>13. Tiled(q, d, f)
  BY <1>4, <1>9, TiledPart
<1> HIDE DEF k, q
<1>14. u1 \o v1 = q
  <2>1. /\ u1 \o v1 \in Seq(Segment) /\ Len(u1 \o v1) = Len(u1) + Len(v1)
        /\ \A m \in 1..Len(u1) : (u1 \o v1)[m] = u1[m]
        /\ \A m \in 1..Len(v1) : (u1 \o v1)[Len(u1) + m] = v1[m]
    <3>1. u1 \in Seq(Segment) /\ v1 \in Seq(Segment)
      BY <1>5, <1>6
    <3> QED BY ONLY <3>1, ConcatAt
  <2>2. Len(u1 \o v1) = Len(q)
    <3>1. Len(u1) = Len(u) - i /\ Len(v1) = Len(v) - j
      BY <1>5, <1>6
    <3>2. Len(q) = Len(w) - k
      BY <1>12
    <3> QED BY <1>1, <1>2, <1>3, <2>1, <3>1, <3>2 DEF k
  <2>3. ASSUME NEW m \in 1..Len(q) PROVE (u1 \o v1)[m] = q[m]
    <3>0. m \in Nat /\ m >= 1 /\ m <= Len(w) - k /\ q[m] = w[k + m]
      BY <1>1, <1>9, <1>12
    <3>1. CASE i < Len(u) /\ m <= Len(u) - i
      <4>1. j = 0 /\ k = i
        BY <1>2, <1>8, <3>1 DEF k
      <4>2. m \in 1..Len(u1) /\ m \in 1..Len(u) - i /\ i + m \in 1..Len(u)
        BY <1>1, <1>2, <1>5, <3>0, <3>1
      <4>3. (u1 \o v1)[m] = u[i + m]
        BY <1>5, <2>1, <4>2
      <4> QED BY <1>1, <3>0, <4>1, <4>2, <4>3
    <3>2. CASE ~ (i < Len(u) /\ m <= Len(u) - i)
      <4> DEFINE n == m - (Len(u) - i)
      <4>1. Len(u1) = Len(u) - i
        BY <1>5
      <4>2. n >= 1 /\ n \in Nat /\ Len(u1) + n = m
        BY <1>1, <1>2, <3>0, <3>2, <4>1
      <4>3. n <= Len(v) - j
        BY <1>1, <1>2, <1>3, <3>0 DEF k
      <4>4. n \in 1..Len(v) - j /\ j + n \in 1..Len(v) /\ k + m = Len(u) + (j + n)
        BY <1>1, <1>2, <1>3, <3>0, <4>2, <4>3 DEF k
      <4> HIDE DEF n
      <4>5. v1[n] = v[j + n] /\ n \in 1..Len(v1)
        BY <1>6, <4>4
      <4>6. (u1 \o v1)[Len(u1) + n] = v1[n]
        BY <2>1, <4>5
      <4>7. w[Len(u) + (j + n)] = v[j + n]
        BY <1>1, <4>4
      <4> QED BY <3>0, <4>2, <4>4, <4>5, <4>6, <4>7
    <3> QED BY <3>1, <3>2
  <2> QED BY <1>12, <2>1, <2>2, <2>3, SeqEqual
<1>15. q # <<>> => w # <<>> /\ q[Len(q)] = w[Len(w)]
  <2> SUFFICES ASSUME q # <<>> PROVE w # <<>> /\ q[Len(q)] = w[Len(w)]
    OBVIOUS
  <2>1. Len(q) \in Nat /\ Len(q) # 0
    BY <1>12, EmptySeq
  <2>2. Len(q) \in 1..Len(w) - k /\ k + Len(q) = Len(w) /\ Len(w) # 0
    BY <1>1, <1>9, <1>12, <2>1
  <2>3. w # <<>>
    BY <2>2
  <2> QED BY <1>12, <2>2, <2>3
<1>16. Spans(q, ackno, to)
  <2>1. CASE q = <<>>
    <3>1. k = Len(w)
      <4>1. Len(w) - k = 0
        BY <1>12, <2>1, EmptySeq
      <4>2. Len(w) \in Nat /\ k \in Nat
        BY <1>1, <1>9
      <4> QED BY ONLY <4>1, <4>2
    <3>2. CASE w = <<>>
      BY <1>4, <2>1, <3>2 DEF Spans
    <3>3. CASE w # <<>>
      <4>1. Len(w) \in 1..k /\ Len(w) \in 1..Len(w)
        BY <1>1, <3>1, <3>3, EmptySeq
      <4>2. End(w[Len(w)]) = to /\ End(w[Len(w)]) <= ackno
        BY <1>4, <1>10, <3>3, <4>1 DEF Spans
      <4>3. ackno = to
        BY <4>2
      <4> QED BY <2>1, <4>3 DEF Spans
    <3> QED BY <3>2, <3>3
  <2>2. CASE q # <<>>
    <3>1. Len(q) \in Nat /\ Len(q) # 0
      BY <1>12, <2>2, EmptySeq
    <3>2. k < Len(w) /\ 1 \in 1..Len(w) - k /\ k + 1 \in 1..Len(w)
      <4>1. Len(w) - k \in Nat /\ Len(w) - k # 0
        BY <1>12, <3>1
      <4>2. Len(w) \in Nat /\ k \in Nat
        BY <1>1, <1>9
      <4> QED BY ONLY <4>1, <4>2
    <3>3. q[1] = w[k + 1]
      BY <1>12, <3>2
    <3>4. End(q[Len(q)]) = to
      BY <1>4, <1>15, <2>2 DEF Spans
    <3>5. w[k + 1].seqno <= ackno
      <4>1. CASE k = 0
        <5>1. w[1].seqno <= old
          BY <1>4, <1>15, <2>2 DEF Spans
        <5>2. w[1].seqno \in Nat /\ k + 1 = 1
          BY <1>7, <3>2, <4>1
        <5> QED BY <5>1, <5>2
      <4>2. CASE k # 0
        <5>1. k \in 1..Len(w) - 1 /\ k \in 1..k
          BY <1>1, <1>9, <3>2, <4>2
        <5>2. End(w[k]) = w[k + 1].seqno
          BY <1>4, <5>1 DEF Tiled
        <5> QED BY <1>10, <5>1, <5>2
      <4> QED BY <4>1, <4>2
    <3>6. ackno < End(w[k + 1])
      BY <1>11, <3>2
    <3> QED BY <2>2, <3>3, <3>4, <3>5, <3>6 DEF Spans
  <2> QED BY <2>1, <2>2
<1>17. SameEnd(q, w)
  BY <1>15 DEF SameEnd
<1> QED BY <1>13, <1>14, <1>16, <1>17 DEF i, j, u1, v1, w
----------------------------------------------------------------------------
\* What tcp_output does to the queues.  After a fast retransmission the first
\* segment waits on unsent while others are still on unacked.
Jumped(u, v, q) == v # <<>> /\ q = (<<v[1]>> \o u) \o SubSeq(v, 2, Len(v))

\* The queue q of the first k of v to be sent is u and v together.
Together(u, v, q, k) == q = u \o v \/ (Jumped(u, v, q) /\ k >= 1)

LEMMA RisingPart ==
  ASSUME NEW a \in Seq(Segment), NEW b \in Seq(Segment), Rising(a \o b)
  PROVE  Rising(a)
<1> DEFINE q == a \o b
<1>1. /\ Len(q) = Len(a) + Len(b) /\ Len(a) \in Nat /\ Len(b) \in Nat
      /\ \A i \in 1..Len(a) : q[i] = a[i]
  BY ConcatAt
<1>2. Rising(q)
  OBVIOUS
<1> HIDE DEF q
<1>3. \A i \in 1..Len(a) : i \in 1..Len(q)
  BY <1>1
<1> SUFFICES ASSUME NEW i \in 1..Len(a), NEW j \in 1..Len(a), i < j
             PROVE  a[i].seqno < a[j].seqno
  BY DEF Rising
<1>4. q[i].seqno < q[j].seqno
  BY <1>2, <1>3 DEF Rising
<1> QED BY <1>1, <1>4

Refiled(u, v, q, k, u1, v1) ==
  /\ u1 \in Seq(Segment) /\ v1 \in Seq(Segment) /\ u1 \o v1 = q
  /\ Pbufs(u1) + Pbufs(v1) = Pbufs(u) + Pbufs(v)
  /\ \A i \in 1..Len(u1) : \/ \E j \in 1..Len(u) : u1[i] = u[j]
                           \/ \E j \in 1..k : u1[i] = v[j]
  /\ v1 # <<>> => v # <<>> /\ v1[Len(v1)] = v[Len(v)]
  /\ k = 0 => u1 = u /\ v1 = v

LEMMA OutputMoves ==
  ASSUME NEW u \in Seq(Segment), NEW v \in Seq(Segment), NEW q, Rising(q),
         NEW k \in 0..Len(v), Together(u, v, q, k)
  PROVE  Refiled(u, v, q, k, Filed(u, SubSeq(v, 1, k)), SubSeq(v, k + 1, Len(v)))
<1> DEFINE out == SubSeq(v, 1, k)
           v1 == SubSeq(v, k + 1, Len(v))
           u1 == Filed(u, out)
<1>1. /\ out \in Seq(Segment) /\ Len(out) = k /\ \A j \in 1..k : out[j] = v[j]
      /\ v1 \in Seq(Segment) /\ Len(v1) = Len(v) - k
      /\ \A j \in 1..Len(v) - k : v1[j] = v[k + j]
      /\ out \o v1 = v /\ Len(v) \in Nat /\ k \in Nat /\ k <= Len(v)
  <2>1. /\ out \in Seq(Segment) /\ Len(out) = k /\ \A j \in 1..k : out[j] = v[j]
        /\ v1 \in Seq(Segment) /\ Len(v1) = Len(v) - k
        /\ \A j \in 1..Len(v) - k : v1[j] = v[k + j]
        /\ out \o v1 = v
    <3>1. Pieces(Segment, v, k, out, v1)
      BY ONLY v \in Seq(Segment), k \in 0..Len(v), CutPieces
    <3> HIDE DEF out, v1
    <3> QED BY ONLY <3>1 DEF Pieces
  <2>2. Len(v) \in Nat /\ k \in Nat /\ k <= Len(v)
    OBVIOUS
  <2> QED BY <2>1, <2>2
<1>2. Pbufs(out) + Pbufs(v1) = Pbufs(v) /\ Pbufs(out) \in Nat /\ Pbufs(v1) \in Nat
  <2>1. out \in Seq(Segment) /\ v1 \in Seq(Segment) /\ out \o v1 = v
    BY <1>1
  <2> HIDE DEF out, v1
  <2> QED BY <2>1, PbufsAdd, PbufsIsNat
<1>3. Pbufs(u) \in Nat
  BY PbufsIsNat
<1>4. v1 # <<>> => v # <<>> /\ v1[Len(v1)] = v[Len(v)]
  <2> HIDE DEF v1
  <2> SUFFICES ASSUME v1 # <<>> PROVE v # <<>> /\ v1[Len(v1)] = v[Len(v)]
    OBVIOUS
  <2>1. Len(v1) \in Nat /\ Len(v1) # 0
    BY <1>1, EmptySeq
  <2>2. Len(v) - k \in Nat /\ Len(v) - k # 0 /\ Len(v1) = Len(v) - k
    BY <1>1, <2>1
  <2>3. Len(v) - k \in 1..Len(v) - k /\ k + (Len(v) - k) = Len(v) /\ Len(v) # 0
    BY <1>1, <2>2
  <2>4. v # <<>>
    BY <2>3
  <2> QED BY <1>1, <2>2, <2>3, <2>4
<1>5. CASE q = u \o v
  <2>1. (u \o out) \o v1 = u \o (out \o v1)
    <3>1. out \in Seq(Segment) /\ v1 \in Seq(Segment)
      BY <1>1
    <3> HIDE DEF out, v1
    <3> QED BY ONLY <3>1, u \in Seq(Segment)
  <2>2. (u \o out) \o v1 = q
    BY <1>1, <1>5, <2>1
  <2> HIDE DEF out, v1
  <2>3. /\ u \o out \in Seq(Segment) /\ Len(u \o out) = Len(u) + Len(out) /\ Len(u) \in Nat
        /\ \A i \in 1..Len(u) : (u \o out)[i] = u[i]
        /\ \A i \in 1..Len(out) : (u \o out)[Len(u) + i] = out[i]
    <3>1. out \in Seq(Segment)
      BY <1>1
    <3> QED BY ONLY <3>1, u \in Seq(Segment), ConcatAt
  <2>4. Rising(u \o out)
    BY <1>1, <2>2, <2>3, RisingPart
  <2>5. u1 = u \o out
    BY <1>1, <2>4, FiledInOrder
  <2>6. Pbufs(u1) = Pbufs(u) + Pbufs(out)
    BY <1>1, <2>5, PbufsAdd
  <2>7. Pbufs(u1) + Pbufs(v1) = Pbufs(u) + Pbufs(v)
    BY <1>2, <1>3, <2>6
  <2>8. \A i \in 1..Len(u \o out) : \/ \E j \in 1..Len(u) : (u \o out)[i] = u[j]
                                    \/ \E j \in 1..k : (u \o out)[i] = v[j]
    <3> SUFFICES ASSUME NEW i \in 1..Len(u \o out), i \notin 1..Len(u)
                 PROVE  \E j \in 1..k : (u \o out)[i] = v[j]
      BY <2>3
    <3> DEFINE j == i - Len(u)
    <3>1. j \in 1..k /\ j \in 1..Len(out) /\ Len(u) + j = i
      BY <1>1, <2>3
    <3> HIDE DEF j
    <3>2. (u \o out)[Len(u) + j] = out[j] /\ out[j] = v[j]
      BY <1>1, <2>3, <3>1
    <3> QED BY <3>1, <3>2
  <2>9. k = 0 => u1 = u /\ v1 = v
    <3> SUFFICES ASSUME k = 0 PROVE u1 = u /\ v1 = v
      OBVIOUS
    <3>1. out = <<>>
      BY <1>1, EmptySeq
    <3>2. u \o <<>> = u /\ <<>> \o v1 = v1
      BY <1>1, ConcatEmptySeq
    <3>3. u1 = u
      BY <2>5, <3>1, <3>2
    <3>4. v1 = v
      BY <1>1, <3>1, <3>2
    <3> QED BY <3>3, <3>4
  <2>10. u1 \in Seq(Segment) /\ u1 \o v1 = q
    BY <2>2, <2>3, <2>5
  <2>11. \A i \in 1..Len(u1) : \/ \E j \in 1..Len(u) : u1[i] = u[j]
                               \/ \E j \in 1..k : u1[i] = v[j]
    BY <2>5, <2>8
  <2> HIDE DEF u1
  <2>12. Refiled(u, v, q, k, u1, v1)
    BY <1>1, <1>4, <2>7, <2>9, <2>10, <2>11 DEF Refiled
  <2> QED BY <2>12 DEF u1, v1, out
<1>6. CASE Jumped(u, v, q) /\ k >= 1
  <2> DEFINE s == v[1]
             o == SubSeq(v, 2, k)
             rest == SubSeq(v, 2, Len(v))
             b == <<s>> \o u
  <2>0. 1 \in 1..Len(v) /\ k \in 1..Len(v) /\ 1 \in 1..k /\ s \in Segment
    BY <1>1, <1>6
  <2>1. out = <<s>> \o o
    <3>1. 1 + 1 = 2
      OBVIOUS
    <3> QED BY <2>0, <3>1, SubSeqRecursiveFirst
  <2>2. o \in Seq(Segment) /\ Len(o) = k - 1 /\ \A j \in 1..k - 1 : o[j] = v[j + 1]
    <3>1. \A i \in 2..k : v[i] \in Segment
      <4> SUFFICES ASSUME NEW i \in 2..k PROVE v[i] \in Segment
        OBVIOUS
      <4>1. i \in 1..Len(v)
        BY <1>1
      <4> QED BY <4>1
    <3>2. /\ o \in Seq(Segment) /\ Len(o) = IF 2 <= k THEN k - 2 + 1 ELSE 0
          /\ \A j \in 1..k - 2 + 1 : o[j] = v[2 + j - 1]
      <4>1. 2 \in Int /\ k \in Int
        BY <1>1
      <4> QED BY ONLY <3>1, <4>1, SubSeqProperties
    <3>3. Len(o) = k - 1
      BY <1>1, <1>6, <3>2
    <3>4. \A j \in 1..k - 1 : j \in 1..k - 2 + 1 /\ 2 + j - 1 = j + 1
      BY <1>1
    <3>5. \A j \in 1..k - 1 : o[j] = v[j + 1]
      BY <3>2, <3>4
    <3> QED BY <3>2, <3>3, <3>5
  <2>3. o \o v1 = rest
    <3>1. 2 \in 1..Len(v) + 1 /\ k \in 2 - 1..Len(v) /\ Len(v) \in k..Len(v)
      BY <1>1, <2>0
    <3> QED BY <3>1, ConcatAdjacentSubSeq
  <2>4. q = b \o rest
    BY <1>6 DEF Jumped
  <2>5. /\ b \in Seq(Segment) /\ Len(b) = Len(u) + 1 /\ Len(u) \in Nat /\ b[1] = s
        /\ \A i \in 1..Len(u) : b[i + 1] = u[i]
    BY <2>0, OneFirst
  <2>6. Pbufs(b) = s.bufs + Pbufs(u) /\ s.bufs \in Nat /\ Pbufs(out) = s.bufs + Pbufs(o) /\ Pbufs(o) \in Nat
    <3>1. <<s>> \in Seq(Segment)
      BY <2>0
    <3>2. Pbufs(<<s>>) = s.bufs
      BY <2>0, PbufsOfOne
    <3>3. Pbufs(b) = Pbufs(<<s>>) + Pbufs(u)
      BY <3>1, PbufsAdd
    <3>4. Pbufs(<<s>> \o o) = Pbufs(<<s>>) + Pbufs(o)
      BY <2>2, <3>1, PbufsAdd
    <3> QED BY <2>0, <2>1, <2>2, <3>2, <3>3, <3>4, SegmentFields, PbufsIsNat
  <2> HIDE DEF b, rest, o, out, v1, s
  <2>7. (b \o o) \o v1 = q
    <3>1. (b \o o) \o v1 = b \o (o \o v1)
      <4>1. b \in Seq(Segment) /\ o \in Seq(Segment) /\ v1 \in Seq(Segment)
        BY <1>1, <2>2, <2>5
      <4> QED BY ONLY <4>1
    <3> QED BY <2>3, <2>4, <3>1
  <2>8. /\ b \o o \in Seq(Segment) /\ Len(b \o o) = Len(b) + Len(o)
        /\ \A i \in 1..Len(b) : (b \o o)[i] = b[i]
        /\ \A i \in 1..Len(o) : (b \o o)[Len(b) + i] = o[i]
    <3>1. b \in Seq(Segment) /\ o \in Seq(Segment)
      BY <2>2, <2>5
    <3> QED BY ONLY <3>1, ConcatAt
  <2>9. Rising(b \o o)
    <3>1. v1 \in Seq(Segment) /\ b \o o \in Seq(Segment) /\ Rising((b \o o) \o v1)
      BY <1>1, <2>7, <2>8
    <3> QED BY <3>1, RisingPart
  <2>10. u1 = b \o o
    <3>1. Filed(u, <<s>> \o o) = (<<s>> \o u) \o o
      BY <2>0, <2>2, <2>9, FiledAtFront DEF b
    <3> QED BY <2>1, <3>1 DEF b
  <2>11. Pbufs(u1) + Pbufs(v1) = Pbufs(u) + Pbufs(v)
    <3>1. Pbufs(b \o o) = Pbufs(b) + Pbufs(o)
      BY <2>2, <2>5, PbufsAdd
    <3>2. Pbufs(u1) = (s.bufs + Pbufs(u)) + Pbufs(o)
      BY <2>6, <2>10, <3>1
    <3> QED BY <1>2, <1>3, <2>6, <3>2
  <2>12. \A i \in 1..Len(b \o o) : \/ \E j \in 1..Len(u) : (b \o o)[i] = u[j]
                                   \/ \E j \in 1..k : (b \o o)[i] = v[j]
    <3> SUFFICES ASSUME NEW i \in 1..Len(b \o o)
                 PROVE  \/ \E j \in 1..Len(u) : (b \o o)[i] = u[j]
                        \/ \E j \in 1..k : (b \o o)[i] = v[j]
      OBVIOUS
    <3>1. CASE i = 1
      <4>1. 1 \in 1..Len(b)
        BY <2>5
      <4>2. (b \o o)[1] = v[1]
        BY <2>5, <2>8, <4>1 DEF s
      <4> QED BY <2>0, <3>1, <4>2
    <3>2. CASE i # 1 /\ i <= Len(b)
      <4> DEFINE j == i - 1
      <4>1. j \in 1..Len(u) /\ j + 1 = i /\ i \in 1..Len(b)
        BY <2>5, <2>8, <3>2
      <4> HIDE DEF j
      <4>2. (b \o o)[i] = b[j + 1] /\ b[j + 1] = u[j]
        BY <2>5, <2>8, <4>1
      <4> QED BY <4>1, <4>2
    <3>3. CASE ~ (i <= Len(b))
      <4> DEFINE j == i - Len(b)
      <4>1. j \in 1..k - 1 /\ j \in 1..Len(o) /\ j + 1 \in 1..k /\ Len(b) + j = i
        <5>1. Len(b) \in Nat /\ Len(o) = k - 1 /\ i \in 1..Len(b) + Len(o) /\ k \in Nat
          BY <1>1, <2>2, <2>5, <2>8
        <5> QED BY ONLY <3>3, <5>1
      <4> HIDE DEF j
      <4>2. (b \o o)[Len(b) + j] = o[j] /\ o[j] = v[j + 1]
        BY <2>2, <2>8, <4>1
      <4> QED BY <4>1, <4>2
    <3> QED BY <2>5, <3>1, <3>2, <3>3
  <2>13. u1 \in Seq(Segment) /\ u1 \o v1 = q
    BY <2>7, <2>8, <2>10
  <2>14. \A i \in 1..Len(u1) : \/ \E j \in 1..Len(u) : u1[i] = u[j]
                               \/ \E j \in 1..k : u1[i] = v[j]
    BY <2>10, <2>12
  <2>15. k # 0
    BY <1>1, <1>6
  <2> HIDE DEF u1
  <2>16. Refiled(u, v, q, k, u1, v1)
    BY <1>1, <1>4, <2>11, <2>13, <2>14, <2>15 DEF Refiled
  <2> QED BY <2>16 DEF u1, v1, out
<1> QED BY <1>5, <1>6 DEF Together
LEMMA InQueue ==
  ASSUME NEW u \in Seq(Segment), NEW v \in Seq(Segment), NEW q, q = u \o v \/ Jumped(u, v, q)
  PROVE  \A j \in 1..Len(v) : \E i \in 1..Len(q) : q[i] = v[j]
<1>1. CASE q = u \o v
  <2>1. /\ Len(u \o v) = Len(u) + Len(v) /\ Len(u) \in Nat /\ Len(v) \in Nat
        /\ \A i \in 1..Len(v) : (u \o v)[Len(u) + i] = v[i]
    BY ConcatAt
  <2>2. \A j \in 1..Len(v) : Len(u) + j \in 1..Len(q)
    BY <1>1, <2>1
  <2> QED BY <1>1, <2>1, <2>2
<1>2. CASE Jumped(u, v, q)
  <2> DEFINE b == <<v[1]>> \o u
             rest == SubSeq(v, 2, Len(v))
  <2>1. Len(v) \in Nat /\ Len(v) # 0 /\ 1 \in 0..Len(v) /\ v[1] \in Segment
    BY <1>2, EmptySeq DEF Jumped
  <2>2. b \in Seq(Segment) /\ Len(b) = Len(u) + 1 /\ Len(u) \in Nat /\ b[1] = v[1]
    BY <2>1, OneFirst
  <2>3. rest \in Seq(Segment) /\ Len(rest) = Len(v) - 1 /\ \A i \in 1..Len(v) - 1 : rest[i] = v[1 + i]
    <3> DEFINE k == 1
    <3>1. k \in 0..Len(v) /\ k = 1
      BY <2>1
    <3> HIDE DEF k
    <3>2. /\ SubSeq(v, k + 1, Len(v)) \in Seq(Segment)
          /\ Len(SubSeq(v, k + 1, Len(v))) = Len(v) - k
          /\ \A i \in 1..Len(v) - k : SubSeq(v, k + 1, Len(v))[i] = v[k + i]
      <4>1. k \in 0..Len(v)
        BY <3>1
      <4> QED BY ONLY <4>1, v \in Seq(Segment), CutAt
    <3>3. k + 1 = 2
      BY <3>1
    <3> QED BY <3>1, <3>2, <3>3
  <2>4. q = b \o rest
    BY <1>2 DEF Jumped
  <2> HIDE DEF b, rest
  <2>5. /\ Len(q) = Len(b) + Len(rest)
        /\ \A i \in 1..Len(b) : q[i] = b[i]
        /\ \A i \in 1..Len(rest) : q[Len(b) + i] = rest[i]
    <3>1. b \in Seq(Segment) /\ rest \in Seq(Segment)
      BY <2>2, <2>3
    <3> QED BY ONLY <2>4, <3>1, ConcatAt
  <2> SUFFICES ASSUME NEW j \in 1..Len(v) PROVE \E i \in 1..Len(q) : q[i] = v[j]
    OBVIOUS
  <2>6. CASE j = 1
    <3>1. 1 \in 1..Len(b) /\ 1 \in 1..Len(q)
      BY <2>1, <2>2, <2>3, <2>5
    <3> QED BY <2>2, <2>5, <2>6, <3>1
  <2>7. CASE j # 1
    <3> DEFINE n == j - 1
    <3>1. n \in 1..Len(v) - 1 /\ n \in 1..Len(rest) /\ 1 + n = j /\ Len(b) + n \in 1..Len(q)
      BY <2>1, <2>2, <2>3, <2>5, <2>7
    <3> HIDE DEF n
    <3>2. q[Len(b) + n] = v[j]
      BY <2>3, <2>5, <3>1
    <3> QED BY <3>1, <3>2
  <2> QED BY <2>6, <2>7
<1> QED BY <1>1, <1>2

LEMMA PcbFields ==
  ASSUME NEW p \in Pcb
  PROVE  /\ p.unsent \in Seq(Segment) /\ p.unacked \in Seq(Segment)
         /\ p.lastack \in 0..Bytes + 1 /\ p.snd_nxt \in 0..Bytes + 1 /\ p.snd_lbb \in 0..Bytes + 1
         /\ p.wl2 \in 0..Bytes + 1
         /\ p.snd_buf \in 0..U16 - 1 /\ p.cwnd \in 0..U16 - 1 /\ p.ssthresh \in 0..U16 - 1
         /\ p.snd_wnd \in 0..Wnd /\ p.snd_wnd_max \in 0..Wnd
         /\ p.queuelen \in 0..QueueMax /\ p.oversize \in 0..Mss /\ p.dupacks \in 0..4
         /\ p.nrtx \in Nat /\ p.rtime \in BOOLEAN /\ p.persist \in BOOLEAN
         /\ p.flags \in SUBSET Flags /\ p.state \in States
BY DEF Pcb

\* What a call of tcp_output sees of the counters.
LEMMA OutputKeeps ==
  ASSUME NEW p, NEW d \in 0..Bytes, NEW f \in BOOLEAN, Rest(p, f), NEW q, Line(p, q, d, f),
         \/ q = p.unacked \o p.unsent
         \/ Jumped(p.unacked, p.unsent, q) /\ Fits(p, p.unsent[1]) /\ MayGo(p, 1)
  PROVE  LET r == Output(p).pcb
         IN /\ PcbInv(r, d, f)
            /\ Reach(p) <= Reach(r)
            /\ r.wl2 = p.wl2 /\ r.snd_wnd = p.snd_wnd /\ r.state = p.state /\ r.nrtx = p.nrtx
            /\ \A s \in Output(p).out : s \in Wired /\ Flies(s, d, f, Reach(r))
<1> DEFINE u == p.unacked
           v == p.unsent
           K == {n \in 0..Len(v) : \A i \in 1..n : Fits(p, v[i]) /\ MayGo(p, i)}
           k == Max(K)
           out == SubSeq(v, 1, k)
           v1 == SubSeq(v, k + 1, Len(v))
           u1 == Filed(u, out)
           nxt == Max({p.snd_nxt} \cup {End(s) : s \in ToSet(out)})
           r == [p EXCEPT !.unsent = v1, !.unacked = u1, !.snd_nxt = nxt,
                          !.rtime = @ \/ k > 0, !.oversize = IF v1 = <<>> THEN 0 ELSE @,
                          !.flags = @ \ {"nagle_mem_err"}]
<1>1. Output(p).pcb = r /\ Output(p).out = {Wire(s) : s \in ToSet(out)}
  BY DEF Output
<1>2. p \in Pcb /\ u \in Seq(Segment) /\ v \in Seq(Segment) /\ Len(v) \in Nat
  <2>1. p \in Pcb
    BY DEF Rest
  <2> QED BY <2>1, PcbFields
<1>3. k \in K
  <2>1. 0 \in K
    BY <1>2
  <2> HIDE DEF K
  <2>2. K \subseteq 0..Len(v)
    BY DEF K
  <2> QED BY <1>2, <2>1, <2>2, GreatestNat
<1>4. Jumped(u, v, q) /\ Fits(p, v[1]) /\ MayGo(p, 1) => k >= 1
  <2> SUFFICES ASSUME Jumped(u, v, q), Fits(p, v[1]), MayGo(p, 1) PROVE k >= 1
    OBVIOUS
  <2>1. Len(v) # 0
    BY <1>2, EmptySeq DEF Jumped
  <2>2. 1 \in 0..Len(v) /\ \A i \in 1..1 : i = 1
    BY <1>2, <2>1
  <2>3. 1 \in K
    BY <2>2
  <2> HIDE DEF K
  <2>4. K \subseteq 0..Len(v)
    BY DEF K
  <2> QED BY <1>2, <2>3, <2>4, GreatestNat
<1>5. k \in 0..Len(v) /\ \A i \in 1..k : Fits(p, v[i])
  BY <1>3
<1> HIDE DEF K, k
<1>6. Rising(q) /\ Tiled(q, d, f)
  BY TiledRises DEF Line
<1>7. q = u \o v \/ (Jumped(u, v, q) /\ k >= 1)
  BY <1>4
<1>8. /\ u1 \in Seq(Segment) /\ v1 \in Seq(Segment) /\ u1 \o v1 = q
      /\ Pbufs(u1) + Pbufs(v1) = Pbufs(u) + Pbufs(v)
      /\ \A i \in 1..Len(u1) : \/ \E j \in 1..Len(u) : u1[i] = u[j]
                               \/ \E j \in 1..k : u1[i] = v[j]
      /\ v1 # <<>> => v # <<>> /\ v1[Len(v1)] = v[Len(v)]
      /\ k = 0 => u1 = u /\ v1 = v
  <2> HIDE DEF u, v
  <2>1. u \in Seq(Segment) /\ v \in Seq(Segment) /\ Rising(q) /\ k \in 0..Len(v)
    BY <1>2, <1>5, <1>6
  <2>2. Refiled(u, v, q, k, Filed(u, SubSeq(v, 1, k)), SubSeq(v, k + 1, Len(v)))
    <3>1. Together(u, v, q, k)
      BY <1>7 DEF Together
    <3> QED BY ONLY <2>1, <3>1, OutputMoves
  <2>3. Refiled(u, v, q, k, u1, v1)
    BY <2>2 DEF u1, v1, out
  <2> HIDE DEF u1, v1
  <2> QED BY ONLY <2>3 DEF Refiled
<1>9. out \in Seq(Segment) /\ Len(out) = k /\ \A j \in 1..k : out[j] = v[j]
  BY <1>2, <1>5, CutAt
<1>10. ToSet(out) = {v[j] : j \in 1..k}
  <2>1. DOMAIN out = 1..k
    BY <1>9
  <2> QED BY <1>9, <2>1 DEF ToSet
<1> HIDE DEF u1, v1, out
<1>11. k \in Nat /\ \A j \in 1..k : j \in 1..Len(v)
  BY <1>2, <1>5
<1>12. \A j \in 1..k : v[j] \in Segment /\ Whole(v[j], d, f)
  <2> SUFFICES ASSUME NEW j \in 1..k PROVE v[j] \in Segment /\ Whole(v[j], d, f)
    OBVIOUS
  <2>1. j \in 1..Len(v)
    BY <1>11
  <2>2. PICK i \in 1..Len(q) : q[i] = v[j]
      <3> HIDE DEF u, v
      <3>1. q = u \o v \/ Jumped(u, v, q)
        BY <1>7
      <3>2. u \in Seq(Segment) /\ v \in Seq(Segment)
        BY <1>2
      <3> QED BY ONLY <2>1, <3>1, <3>2, InQueue
  <2>3. Whole(q[i], d, f)
    BY <1>6 DEF Tiled
  <2> QED BY <1>2, <2>1, <2>2, <2>3
<1>13. d \in Nat /\ Flag(f) \in 0..1 /\ d + Flag(f) \in 0..Bytes + 1 /\ Bytes \in Nat
  BY Sizes DEF Flag
<1>14. \A j \in 1..k : /\ End(v[j]) \in 0..d + Flag(f) /\ v[j].seqno < End(v[j])
                       /\ v[j].seqno \in 0..Bytes /\ v[j].len \in 0..Mss
                       /\ v[j].seqno + v[j].len <= p.lastack + p.snd_wnd
  <2> SUFFICES ASSUME NEW j \in 1..k
               PROVE  /\ End(v[j]) \in 0..d + Flag(f) /\ v[j].seqno < End(v[j])
                      /\ v[j].seqno \in 0..Bytes /\ v[j].len \in 0..Mss
                      /\ v[j].seqno + v[j].len <= p.lastack + p.snd_wnd
    OBVIOUS
  <2> DEFINE a == v[j].seqno
             l == v[j].len
             g == Flag(v[j].fin)
             lim == Min2(p.snd_wnd, p.cwnd)
  <2>1. v[j] \in Segment /\ Whole(v[j], d, f) /\ Fits(p, v[j])
    BY <1>5, <1>12
  <2>2. a \in Nat /\ l \in Nat /\ g \in 0..1 /\ End(v[j]) = a + (l + g) /\ v[j].fin \in BOOLEAN
    <3>1. TcpLen(v[j]) = l + g /\ End(v[j]) = a + TcpLen(v[j])
      BY <2>1, SegmentFields
    <3> QED BY <2>1, <3>1, SegmentFields
  <2>3. l <= Mss1 /\ l + g > 0 /\ a + l <= d
    BY <2>1 DEF Whole, TcpLen
  <2>4. g <= Flag(f)
    BY <2>1, <2>2 DEF Whole, Flag
  <2>6. p.lastack \in Nat /\ p.snd_wnd \in Nat /\ p.cwnd \in Nat
    BY <1>2, PcbFields
  <2>5. (a + l) - p.lastack \in 0..lim
    <3>1. a + (l - p.lastack) \in 0..lim
      BY <2>1 DEF Fits
    <3>2. a + (l - p.lastack) = (a + l) - p.lastack
      BY <2>2, <2>6
    <3> QED BY <3>1, <3>2
  <2>7. lim <= p.snd_wnd /\ lim \in Nat
    BY <2>6 DEF Min2
  <2> HIDE DEF a, l, g, lim
  <2>8. End(v[j]) \in 0..d + Flag(f) /\ a < End(v[j]) /\ a \in 0..Bytes
    BY <1>13, <2>2, <2>3, <2>4
  <2>9. l \in 0..Mss
    BY <2>2, <2>3, Sizes
  <2>10. a + l <= p.lastack + p.snd_wnd
    <3> DEFINE b == a + l
               w == p.snd_wnd
               c == p.lastack
    <3>1. b \in Nat /\ c \in Nat /\ w \in Nat /\ b - c \in 0..lim /\ lim <= w /\ lim \in Nat
      BY <2>2, <2>5, <2>6, <2>7
    <3> HIDE DEF b, w, c
    <3>2. b <= c + w
      BY ONLY <3>1
    <3> QED BY <3>2 DEF b, w, c
  <2> QED BY <2>8, <2>9, <2>10 DEF a, l
<1>15. /\ p.snd_nxt \in 0..d + Flag(f) /\ p.lastack \in Nat /\ p.lastack <= p.snd_nxt
  <2>1. p.snd_nxt \in Nat /\ p.lastack \in Nat
    BY <1>2, PcbFields
  <2>2. p.lastack <= p.snd_nxt /\ p.snd_nxt <= d + Flag(f)
    BY DEF Line
  <2> QED BY <1>13, <2>1, <2>2
<1>16. /\ nxt \in 0..d + Flag(f)
       /\ p.snd_nxt <= nxt
       /\ \A j \in 1..k : End(v[j]) <= nxt
  <2> DEFINE N == {p.snd_nxt} \cup {End(s) : s \in ToSet(out)}
  <2>1. p.snd_nxt \in N /\ \A j \in 1..k : End(v[j]) \in N
    BY <1>10
  <2>2. N \subseteq 0..d + Flag(f)
    BY <1>10, <1>14, <1>15
  <2>3. nxt = Max(N)
    OBVIOUS
  <2> HIDE DEF N, nxt
  <2>4. N # {} /\ d + Flag(f) \in Nat
    BY <1>13, <2>1
  <2>5. Max(N) \in N /\ \A y \in N : Max(N) >= y
    BY <2>2, <2>4, GreatestNat
  <2>6. \A y \in N : y \in Nat
    BY <2>2
  <2>7. \A y \in N : y <= nxt
    BY <2>3, <2>5, <2>6
  <2> QED BY <2>1, <2>2, <2>3, <2>5, <2>7
<1> HIDE DEF nxt
<1>17. /\ r.unsent = v1 /\ r.unacked = u1 /\ r.snd_nxt = nxt
       /\ r.oversize = IF v1 = <<>> THEN 0 ELSE p.oversize
       /\ r.lastack = p.lastack /\ r.snd_lbb = p.snd_lbb /\ r.wl2 = p.wl2
       /\ r.snd_buf = p.snd_buf /\ r.cwnd = p.cwnd /\ r.ssthresh = p.ssthresh
       /\ r.snd_wnd = p.snd_wnd /\ r.snd_wnd_max = p.snd_wnd_max
       /\ r.queuelen = p.queuelen /\ r.state = p.state /\ r.nrtx = p.nrtx
  BY <1>2 DEF Pcb
<1>18. r \in Pcb
  <2>1. nxt \in 0..Bytes + 1
    BY <1>13, <1>16
  <2>2. (IF v1 = <<>> THEN 0 ELSE p.oversize) \in 0..Mss
    BY <1>2, PcbFields, Sizes
  <2>3. (p.rtime \/ k > 0) \in BOOLEAN
    OBVIOUS
  <2>4. p.flags \ {"nagle_mem_err"} \in SUBSET Flags
    BY <1>2, PcbFields
  <2> QED BY <1>2, <1>8, <2>1, <2>2, <2>3, <2>4 DEF Pcb
<1> HIDE DEF r
<1>19. Rest(r, f)
  <2>1. /\ p.lastack <= p.wl2
        /\ p.queuelen = Pbufs(u) + Pbufs(v)
        /\ p.oversize > 0 => v # <<>> /\ v[Len(v)].len + p.oversize <= Mss1
        /\ p.state = "ESTABLISHED" => ~ f /\ p.snd_buf = SndBuf - (p.snd_lbb - p.lastack)
        /\ p.cwnd >= 1 /\ p.ssthresh >= 1
        /\ p.snd_wnd_max = Wnd
    BY DEF Rest
  <2>2. r.oversize > 0 => r.unsent # <<>> /\ r.unsent[Len(r.unsent)].len + r.oversize <= Mss1
    BY <1>8, <1>17, <2>1
  <2>3. r.queuelen = Pbufs(r.unacked) + Pbufs(r.unsent)
    BY <1>8, <1>17, <2>1
  <2> QED BY <1>17, <1>18, <2>1, <2>2, <2>3 DEF Rest
<1>20. Sent(u1, p.lastack, nxt, p.snd_wnd)
  <2> SUFFICES ASSUME NEW i \in 1..Len(u1)
               PROVE  End(u1[i]) <= nxt /\ u1[i].seqno + u1[i].len <= p.lastack + p.snd_wnd
    BY DEF Sent
  <2>1. ASSUME NEW j \in 1..Len(u), u1[i] = u[j]
        PROVE  End(u1[i]) <= nxt /\ u1[i].seqno + u1[i].len <= p.lastack + p.snd_wnd
    <3>1. End(u[j]) <= p.snd_nxt /\ u[j].seqno + u[j].len <= p.lastack + p.snd_wnd
      BY DEF Line, Sent
    <3>2. u[j] \in Segment
      BY <1>2
    <3>3. End(u[j]) \in Nat /\ p.snd_nxt \in Nat /\ nxt \in Nat /\ p.snd_nxt <= nxt
      BY <1>15, <1>16, <3>2, SegmentFields
    <3>4. End(u[j]) <= nxt
      BY ONLY <3>1, <3>3
    <3> QED BY <2>1, <3>1, <3>4
  <2>2. ASSUME NEW j \in 1..k, u1[i] = v[j]
        PROVE  End(u1[i]) <= nxt /\ u1[i].seqno + u1[i].len <= p.lastack + p.snd_wnd
    BY <1>14, <1>16, <2>2
  <2> QED BY <1>8, <2>1, <2>2
<1>21. Line(r, q, d, f)
  <2>1. p.lastack <= nxt /\ nxt <= d + Flag(f)
    BY <1>13, <1>15, <1>16
  <2>2. /\ Tiled(q, d, f) /\ Spans(q, p.lastack, d + Flag(f))
        /\ ~ f => p.snd_lbb = d
        /\ f => \/ q = <<>> /\ p.snd_lbb \in {d, d + 1}
                \/ q # <<>> /\ p.snd_lbb = d + Flag(q[Len(q)].len = 0)
    BY DEF Line
  <2> QED BY <1>17, <1>20, <2>1, <2>2 DEF Line
<1>22. PcbInv(r, d, f)
  <2>1. r.unacked \o r.unsent = q
    BY <1>8, <1>17
  <2> QED BY <1>19, <1>21, <2>1 DEF PcbInv
<1>23. Reach(p) <= Reach(r)
  <2>1. Flag(Probing(p)) \in 0..1 /\ Flag(Probing(r)) \in 0..1
    BY DEF Flag
  <2>2. p.snd_nxt \in Nat /\ nxt \in Nat /\ p.snd_nxt <= nxt
    BY <1>15, <1>16
  <2>3. CASE ~ Probing(p)
    BY <1>17, <2>1, <2>2, <2>3 DEF Reach, Flag
  <2>4. CASE Probing(p) /\ k = 0
    <3>1. r.unacked = p.unacked /\ r.unsent = p.unsent
      BY <1>8, <1>17, <2>4
    <3>2. CASE nxt = p.snd_nxt
      <4>1. Probing(r)
        BY <1>17, <2>4, <3>1, <3>2 DEF Probing
      <4> QED BY <1>17, <2>2, <2>4, <3>2, <4>1 DEF Reach, Flag
    <3>3. CASE nxt # p.snd_nxt
      BY <1>17, <2>1, <2>2, <3>3 DEF Reach
    <3> QED BY <3>2, <3>3
  <2>5. CASE Probing(p) /\ k # 0
    <3>1. 1 \in 1..k
      BY <1>11, <2>5
    <3>2. v[1].seqno = p.snd_nxt
      BY <2>5 DEF Probing
    <3>3. v[1].seqno < End(v[1]) /\ End(v[1]) <= nxt /\ End(v[1]) \in Nat
      BY <1>13, <1>14, <1>16, <3>1
    <3>4. p.snd_nxt + 1 <= nxt
      BY <2>2, <3>2, <3>3
    <3> QED BY <1>17, <2>1, <2>2, <3>4 DEF Reach
  <2> QED BY <2>3, <2>4, <2>5
<1>24. \A s \in Output(p).out : s \in Wired /\ Flies(s, d, f, Reach(r))
  <2> SUFFICES ASSUME NEW s \in Output(p).out PROVE s \in Wired /\ Flies(s, d, f, Reach(r))
    OBVIOUS
  <2>1. PICK j \in 1..k : s = Wire(v[j])
    BY <1>1, <1>10
  <2>2. /\ v[j] \in Segment /\ Whole(v[j], d, f) /\ v[j].seqno \in 0..Bytes /\ v[j].len \in 0..Mss
        /\ End(v[j]) <= nxt /\ End(v[j]) \in Nat /\ v[j].fin \in BOOLEAN
    <3>1. v[j] \in Segment
      BY <1>12
    <3> QED BY <1>12, <1>14, <1>16, <3>1, SegmentFields
  <2>3. s.seqno = v[j].seqno /\ s.len = v[j].len /\ s.fin = v[j].fin /\ s \in Wired
    BY <2>1, <2>2 DEF Wire, Wired
  <2>4. End(s) = End(v[j])
    BY <2>3 DEF End, TcpLen
  <2>5. Reach(r) >= nxt /\ Reach(r) \in Nat
    <3>1. Flag(Probing(r)) \in 0..1 /\ nxt \in Nat /\ r.snd_nxt = nxt
      BY <1>16, <1>17 DEF Flag
    <3> QED BY <3>1 DEF Reach
  <2>6. nxt \in Nat
    BY <1>16
  <2>7. End(s) <= Reach(r)
    BY <2>2, <2>4, <2>5, <2>6
  <2> QED BY <2>2, <2>3, <2>7 DEF Flies, Whole
<1> QED BY <1>1, <1>17, <1>22, <1>23, <1>24
----------------------------------------------------------------------------
\* What the invariant says of a connection, taken apart.
LEMMA PcbFacts ==
  ASSUME NEW p, NEW d \in 0..Bytes, NEW f \in BOOLEAN, PcbInv(p, d, f)
  PROVE  /\ p \in Pcb /\ p.unacked \in Seq(Segment) /\ p.unsent \in Seq(Segment)
         /\ {p.lastack, p.snd_nxt, p.snd_lbb, p.wl2} \subseteq Nat
         /\ p.lastack <= p.wl2 /\ p.lastack <= p.snd_nxt /\ p.snd_nxt <= d + Flag(f)
         /\ p.queuelen = Pbufs(p.unacked) + Pbufs(p.unsent)
         /\ p.oversize > 0 => p.unsent # <<>> /\ p.unsent[Len(p.unsent)].len + p.oversize <= Mss1
         /\ p.state = "ESTABLISHED" => ~ f /\ p.snd_buf = SndBuf - (p.snd_lbb - p.lastack)
         /\ p.cwnd >= 1 /\ p.ssthresh >= 1 /\ p.snd_wnd_max = Wnd
         /\ Tiled(p.unacked \o p.unsent, d, f)
         /\ Spans(p.unacked \o p.unsent, p.lastack, d + Flag(f))
         /\ Sent(p.unacked, p.lastack, p.snd_nxt, p.snd_wnd)
         /\ ~ f => p.snd_lbb = d
         /\ Reach(p) \in Nat /\ p.snd_nxt <= Reach(p) /\ Reach(p) <= p.snd_nxt + 1
         /\ p.snd_nxt \in Nat /\ p.lastack \in Nat
<1>1. p \in Pcb
  BY DEF PcbInv, Rest
<1>2. /\ p.unacked \in Seq(Segment) /\ p.unsent \in Seq(Segment)
      /\ {p.lastack, p.snd_nxt, p.snd_lbb, p.wl2} \subseteq Nat
      /\ p.snd_nxt \in Nat /\ p.lastack \in Nat
  BY <1>1, PcbFields
<1>3. Flag(Probing(p)) \in 0..1
  BY DEF Flag
<1>4. Reach(p) \in Nat /\ p.snd_nxt <= Reach(p) /\ Reach(p) <= p.snd_nxt + 1
  BY <1>2, <1>3 DEF Reach
<1>5. /\ p.lastack <= p.wl2
      /\ p.queuelen = Pbufs(p.unacked) + Pbufs(p.unsent)
      /\ p.oversize > 0 => p.unsent # <<>> /\ p.unsent[Len(p.unsent)].len + p.oversize <= Mss1
      /\ p.state = "ESTABLISHED" => ~ f /\ p.snd_buf = SndBuf - (p.snd_lbb - p.lastack)
      /\ p.cwnd >= 1 /\ p.ssthresh >= 1 /\ p.snd_wnd_max = Wnd
  BY DEF PcbInv, Rest
<1>6. /\ p.lastack <= p.snd_nxt /\ p.snd_nxt <= d + Flag(f)
      /\ Tiled(p.unacked \o p.unsent, d, f)
      /\ Spans(p.unacked \o p.unsent, p.lastack, d + Flag(f))
      /\ Sent(p.unacked, p.lastack, p.snd_nxt, p.snd_wnd)
      /\ ~ f => p.snd_lbb = d
  BY DEF PcbInv, Line
<1> QED BY <1>1, <1>2, <1>4, <1>5, <1>6

\* What a step leaves alone stays as it is.
LEMMA SameQueues ==
  ASSUME NEW p, NEW d \in 0..Bytes, NEW f \in BOOLEAN, PcbInv(p, d, f), NEW r \in Pcb,
         r.unsent = p.unsent, r.unacked = p.unacked, r.lastack = p.lastack,
         r.snd_nxt = p.snd_nxt, r.snd_lbb = p.snd_lbb, r.wl2 = p.wl2, r.snd_wnd = p.snd_wnd,
         r.snd_wnd_max = p.snd_wnd_max, r.queuelen = p.queuelen, r.oversize = p.oversize,
         r.snd_buf = p.snd_buf, r.state = p.state \/ r.state # "ESTABLISHED",
         r.cwnd >= 1, r.ssthresh >= 1
  PROVE  PcbInv(r, d, f) /\ Reach(r) = Reach(p)
<1>1. Rest(r, f)
  BY DEF PcbInv, Rest
<1>2. Line(r, p.unacked \o p.unsent, d, f)
  BY DEF PcbInv, Line
<1>3. Reach(r) = Reach(p)
  BY DEF Reach, Probing
<1> QED BY <1>1, <1>2, <1>3 DEF PcbInv

LEMMA NoMemoryKeeps ==
  ASSUME NEW p, NEW d \in 0..Bytes, NEW f \in BOOLEAN, PcbInv(p, d, f)
  PROVE  LET r == NoMemory(p)
         IN /\ PcbInv(r, d, f) /\ Reach(r) = Reach(p)
            /\ r.wl2 = p.wl2 /\ r.snd_wnd = p.snd_wnd /\ r.state = p.state
            /\ r.unsent = p.unsent /\ r.queuelen = p.queuelen /\ r.snd_buf = p.snd_buf
<1> DEFINE r == NoMemory(p)
<1>1. p \in Pcb
  BY PcbFacts
<1>2. p.flags \cup {"nagle_mem_err"} \in SUBSET Flags
  BY <1>1, PcbFields DEF Flags
<1>3. r \in Pcb
  BY <1>1, <1>2 DEF NoMemory, Pcb
<1>4. /\ r.unsent = p.unsent /\ r.unacked = p.unacked /\ r.lastack = p.lastack
      /\ r.snd_nxt = p.snd_nxt /\ r.snd_lbb = p.snd_lbb /\ r.wl2 = p.wl2 /\ r.snd_wnd = p.snd_wnd
      /\ r.snd_wnd_max = p.snd_wnd_max /\ r.queuelen = p.queuelen /\ r.oversize = p.oversize
      /\ r.snd_buf = p.snd_buf /\ r.state = p.state /\ r.cwnd = p.cwnd /\ r.ssthresh = p.ssthresh
  BY <1>1 DEF NoMemory, Pcb
<1>5. p.cwnd >= 1 /\ p.ssthresh >= 1
  BY PcbFacts
<1> HIDE DEF r
<1>6. PcbInv(r, d, f) /\ Reach(r) = Reach(p)
  BY <1>3, <1>4, <1>5, SameQueues
<1> QED BY <1>4, <1>6 DEF r

\* The last segment of the line has no FIN and ends where the next one begins.
LEMMA LastOfLine ==
  ASSUME NEW q, NEW d \in Nat, Tiled(q, d, FALSE), NEW ack, Spans(q, ack, d), q # <<>>
  PROVE  /\ Len(q) \in 1..Len(q) /\ q[Len(q)] \in Segment /\ ~ q[Len(q)].fin
         /\ q[Len(q)].seqno + q[Len(q)].len = d /\ q[Len(q)].len \in 1..Mss1
         /\ End(q[Len(q)]) = d
<1>1. q \in Seq(Segment) /\ Len(q) \in 1..Len(q)
  BY EmptySeq DEF Tiled
<1> DEFINE s == q[Len(q)]
<1>a. \A i \in 1..Len(q) : q[i] \in Segment
  BY <1>1
<1>b. \A i \in 1..Len(q) : Whole(q[i], d, FALSE)
  BY DEF Tiled
<1>c. End(q[Len(q)]) = d
  BY DEF Spans
<1>2. s \in Segment /\ Whole(s, d, FALSE) /\ End(s) = d
  BY <1>1, <1>a, <1>b, <1>c
<1> HIDE DEF s
<1>3. ~ s.fin /\ s.seqno \in Nat /\ s.len \in Nat
  BY <1>2, SegmentFields DEF Whole
<1>4. TcpLen(s) = s.len + 0 /\ End(s) = s.seqno + TcpLen(s)
  BY <1>3 DEF TcpLen, Flag, End
<1>5. s.len <= Mss1 /\ TcpLen(s) > 0
  BY <1>2 DEF Whole
<1> QED BY <1>1, <1>2, <1>3, <1>4, <1>5, Sizes DEF s

\* A sequence is its front and its last element.
LEMMA FrontLast ==
  ASSUME NEW S, NEW v \in Seq(S), v # <<>>
  PROVE  /\ Len(v) \in Nat /\ Len(v) >= 1 /\ v[Len(v)] \in S
         /\ SubSeq(v, 1, Len(v) - 1) \in Seq(S)
         /\ v = SubSeq(v, 1, Len(v) - 1) \o <<v[Len(v)]>>
<1> DEFINE k == Len(v) - 1
           rest == SubSeq(v, k + 1, Len(v))
<1>1. Len(v) \in Nat /\ Len(v) # 0 /\ k \in 0..Len(v) /\ k + 1 = Len(v)
  BY EmptySeq
<1>2. k \in 0..Len(v)
  BY <1>1
<1> HIDE DEF k
<1>3. /\ SubSeq(v, 1, k) \in Seq(S) /\ rest \in Seq(S) /\ Len(rest) = Len(v) - k
      /\ \A i \in 1..Len(v) - k : rest[i] = v[k + i] /\ v[k + i] \in S
      /\ SubSeq(v, 1, k) \o rest = v
  BY ONLY <1>2, v \in Seq(S), CutAt
<1> HIDE DEF rest
<1>4. 1 \in 1..Len(v) - k /\ Len(v) - k = 1 /\ v[Len(v)] \in S
  BY <1>1, <1>3
<1>5. rest[1] = v[Len(v)]
  BY <1>1, <1>3, <1>4
<1>6. <<v[Len(v)]>> \in Seq(S) /\ Len(<<v[Len(v)]>>) = 1 /\ <<v[Len(v)]>>[1] = v[Len(v)]
  BY <1>4
<1>7. rest = <<v[Len(v)]>>
  <2> DEFINE one == <<v[Len(v)]>>
  <2>1. one \in Seq(S) /\ Len(one) = 1 /\ one[1] = v[Len(v)]
    BY <1>6
  <2> HIDE DEF one
  <2>2. Len(rest) = 1 /\ rest \in Seq(S)
    BY <1>3, <1>4
  <2>3. \A i \in 1..Len(rest) : rest[i] = one[i]
    BY <1>5, <2>1, <2>2
  <2>4. rest = one
    BY ONLY <2>1, <2>2, <2>3, SeqEqual
  <2> QED BY <2>4 DEF one
<1>8. v = SubSeq(v, 1, k) \o <<v[Len(v)]>>
  BY <1>3, <1>7
<1>9. Len(v) \in Nat /\ Len(v) >= 1
  BY <1>1
<1> QED BY <1>3, <1>4, <1>8, <1>9 DEF k

\* Another last segment.
LEMMA OtherLast ==
  ASSUME NEW v \in Seq(Segment), v # <<>>, NEW s \in Segment
  PROVE  LET h == SubSeq(v, 1, Len(v) - 1) \o <<s>>
         IN /\ h \in Seq(Segment) /\ Len(h) = Len(v) /\ h # <<>> /\ h[Len(h)] = s
            /\ v[Len(v)] \in Segment
            /\ s.seqno = v[Len(v)].seqno => h[1].seqno = v[1].seqno
            /\ Pbufs(v) = Pbufs(SubSeq(v, 1, Len(v) - 1)) + v[Len(v)].bufs
            /\ Pbufs(h) = Pbufs(SubSeq(v, 1, Len(v) - 1)) + s.bufs
            /\ Pbufs(SubSeq(v, 1, Len(v) - 1)) \in Nat
<1> DEFINE b == SubSeq(v, 1, Len(v) - 1)
           l == v[Len(v)]
           h == b \o <<s>>
<1>1. Len(v) \in Nat /\ Len(v) >= 1 /\ l \in Segment /\ b \in Seq(Segment) /\ v = b \o <<l>>
  BY FrontLast
<1> HIDE DEF b, l
<1>2. /\ <<s>> \in Seq(Segment) /\ Len(<<s>>) = 1 /\ <<s>>[1] = s
      /\ <<l>> \in Seq(Segment) /\ Len(<<l>>) = 1 /\ <<l>>[1] = l
  BY <1>1
<1>3. /\ h \in Seq(Segment) /\ Len(h) = Len(b) + 1 /\ Len(b) \in Nat
      /\ \A i \in 1..Len(b) : h[i] = b[i]
      /\ \A i \in 1..1 : h[Len(b) + i] = <<s>>[i]
  <2>1. b \in Seq(Segment) /\ <<s>> \in Seq(Segment)
    BY <1>1, <1>2
  <2>2. /\ h \in Seq(Segment) /\ Len(h) = Len(b) + Len(<<s>>) /\ Len(b) \in Nat
        /\ \A i \in 1..Len(b) : h[i] = b[i]
        /\ \A i \in 1..Len(<<s>>) : h[Len(b) + i] = <<s>>[i]
    BY ONLY <2>1, ConcatAt
  <2> QED BY <1>2, <2>2
<1>4. /\ Len(v) = Len(b) + 1
      /\ \A i \in 1..Len(b) : v[i] = b[i]
      /\ \A i \in 1..1 : v[Len(b) + i] = <<l>>[i]
  <2>1. b \in Seq(Segment) /\ <<l>> \in Seq(Segment)
    BY <1>1, <1>2
  <2>2. /\ Len(b \o <<l>>) = Len(b) + Len(<<l>>)
        /\ \A i \in 1..Len(b) : (b \o <<l>>)[i] = b[i]
        /\ \A i \in 1..Len(<<l>>) : (b \o <<l>>)[Len(b) + i] = <<l>>[i]
    BY ONLY <2>1, ConcatAt
  <2> QED BY <1>1, <1>2, <2>2
<1>5. Pbufs(v) = Pbufs(b) + l.bufs /\ Pbufs(h) = Pbufs(b) + s.bufs /\ Pbufs(b) \in Nat
  <2>1. Pbufs(b \o <<l>>) = Pbufs(b) + Pbufs(<<l>>) /\ Pbufs(<<l>>) = l.bufs
    BY <1>1, <1>2, PbufsAdd, PbufsOfOne
  <2>2. Pbufs(b \o <<s>>) = Pbufs(b) + Pbufs(<<s>>) /\ Pbufs(<<s>>) = s.bufs
    BY <1>1, <1>2, PbufsAdd, PbufsOfOne
  <2>3. Pbufs(b) \in Nat
    BY <1>1, PbufsIsNat
  <2> QED BY <1>1, <2>1, <2>2, <2>3
<1> HIDE DEF h
<1>6. h[Len(h)] = s /\ h # <<>> /\ Len(h) = Len(v)
  <2>1. 1 \in 1..1 /\ Len(h) # 0
    BY <1>3
  <2> QED BY <1>2, <1>3, <1>4, <2>1
<1>7. ASSUME s.seqno = l.seqno
     PROVE  h[1].seqno = v[1].seqno
  <2>1. CASE Len(b) = 0
    <3>1. 1 \in 1..1 /\ Len(b) + 1 = 1
      BY <2>1
    <3>2. h[1] = s /\ v[1] = l
      BY <1>2, <1>3, <1>4, <2>1, <3>1
    <3> QED BY <1>7, <3>2
  <2>2. CASE Len(b) # 0
    <3>1. 1 \in 1..Len(b)
      BY <1>3, <2>2
    <3> QED BY <1>3, <1>4, <3>1
  <2> QED BY <2>1, <2>2
<1>8. h \in Seq(Segment)
  BY <1>3, <1>6
<1> QED BY <1>1, <1>5, <1>6, <1>7, <1>8 DEF h, b, l

\* tcp_write makes the last segment longer by x and y bytes and b pbufs.
Grown(s, x, y, b) == [s EXCEPT !.len = @ + x + y, !.bufs = @ + b]

LEMMA GrownFields ==
  ASSUME NEW l \in Segment, NEW x \in Nat, NEW y \in Nat, NEW b \in Nat
  PROVE  LET s == Grown(l, x, y, b)
         IN /\ s \in Segment /\ s.seqno = l.seqno /\ s.len = l.len + (x + y)
            /\ s.fin = l.fin /\ s.bufs = l.bufs + b
<1>1. l.seqno \in Nat /\ l.len \in Nat /\ l.fin \in BOOLEAN /\ l.bufs \in Nat
  BY SegmentFields
<1>2. l.len + x + y = l.len + (x + y) /\ l.len + x + y \in Nat /\ l.bufs + b \in Nat
  BY ONLY <1>1, x \in Nat, y \in Nat, b \in Nat
<1> QED BY <1>2 DEF Segment, Grown

\* Of the queue that tcp_write makes longer at its end.
LEMMA TailShape ==
  ASSUME NEW v \in Seq(Segment), v # <<>>, NEW x \in Nat, NEW y \in Nat, NEW b \in Nat
  PROVE  LET h == SubSeq(v, 1, Len(v) - 1) \o <<Grown(v[Len(v)], x, y, b)>>
         IN /\ h \in Seq(Segment) /\ Len(h) = Len(v) /\ h # <<>>
            /\ h[Len(h)].len = v[Len(v)].len + (x + y)
            /\ h[1].seqno = v[1].seqno
            /\ Pbufs(h) = Pbufs(v) + b
<1> DEFINE l == v[Len(v)]
           s == Grown(l, x, y, b)
           h == SubSeq(v, 1, Len(v) - 1) \o <<s>>
<1>1. l \in Segment
  BY FrontLast
<1> HIDE DEF l
<1>2. /\ s \in Segment /\ s.seqno = l.seqno /\ s.len = l.len + (x + y) /\ s.bufs = l.bufs + b
  <2>1. s \in Segment
    BY <1>1, GrownFields
  <2>2. s.seqno = l.seqno
    BY <1>1, GrownFields
  <2>3. s.len = l.len + (x + y)
    BY <1>1, GrownFields
  <2>4. s.bufs = l.bufs + b
    BY <1>1, GrownFields
  <2> QED BY ONLY <2>1, <2>2, <2>3, <2>4
<1>3. l.bufs \in Nat
  BY <1>1, SegmentFields
<1> HIDE DEF s
<1> USE DEF l
<1>4. /\ h \in Seq(Segment) /\ Len(h) = Len(v) /\ h # <<>> /\ h[Len(h)] = s
      /\ s.seqno = v[Len(v)].seqno => h[1].seqno = v[1].seqno
      /\ Pbufs(v) = Pbufs(SubSeq(v, 1, Len(v) - 1)) + v[Len(v)].bufs
      /\ Pbufs(h) = Pbufs(SubSeq(v, 1, Len(v) - 1)) + s.bufs
      /\ Pbufs(SubSeq(v, 1, Len(v) - 1)) \in Nat
  BY <1>2, OtherLast
<1> DEFINE m == Pbufs(SubSeq(v, 1, Len(v) - 1))
<1>5. m \in Nat /\ Pbufs(v) = m + l.bufs /\ Pbufs(h) = m + s.bufs
  BY <1>4
<1> HIDE DEF m, h, l
<1>6. Pbufs(h) = Pbufs(v) + b
  BY <1>2, <1>3, <1>5
<1> QED BY <1>2, <1>4, <1>6 DEF h, s, l

LEMMA TailGrows ==
  ASSUME NEW u \in Seq(Segment), NEW v \in Seq(Segment), v # <<>>, NEW d \in Nat,
         Tiled(u \o v, d, FALSE), NEW from \in Nat, Spans(u \o v, from, d),
         NEW x \in Nat, NEW y \in Nat, NEW b \in Nat, v[Len(v)].len + (x + y) <= Mss1
  PROVE  LET h == SubSeq(v, 1, Len(v) - 1) \o <<Grown(v[Len(v)], x, y, b)>>
         IN Tiled(u \o h, d + (x + y), FALSE) /\ Spans(u \o h, from, d + (x + y))
<1> DEFINE l == v[Len(v)]
           s == Grown(l, x, y, b)
           h == SubSeq(v, 1, Len(v) - 1) \o <<s>>
           q == u \o v
           e == d + (x + y)
<1>1. l \in Segment
  BY FrontLast
<1>2. q # <<>> /\ q[Len(q)] = l
  BY QueuesEnd, <1>1
<1>3. ~ l.fin /\ l.seqno + l.len = d /\ l.len \in 1..Mss1 /\ End(l) = d
  BY <1>2, LastOfLine
<1>4. l.seqno \in Nat /\ l.len \in Nat /\ l.fin \in BOOLEAN /\ l.bufs \in Nat
  BY <1>1, SegmentFields
<1> HIDE DEF l
<1>5. /\ s \in Segment /\ s.seqno = l.seqno /\ s.len = l.len + (x + y)
      /\ s.fin = l.fin /\ s.bufs = l.bufs + b
  <2>1. s \in Segment
    BY <1>1, GrownFields
  <2>2. s.seqno = l.seqno
    BY <1>1, GrownFields
  <2>3. s.len = l.len + (x + y)
    BY <1>1, GrownFields
  <2>4. s.fin = l.fin
    BY <1>1, GrownFields
  <2>5. s.bufs = l.bufs + b
    BY <1>1, GrownFields
  <2> QED BY ONLY <2>1, <2>2, <2>3, <2>4, <2>5
<1>6. s \in Segment
  BY <1>5
<1> HIDE DEF s, l
<1>8. Whole(s, e, FALSE)
  <2>1. s.len <= Mss1
    BY <1>5 DEF l
  <2>2. TcpLen(s) > 0 /\ s.seqno + s.len <= e
    <3>1. TcpLen(s) = s.len + 0
      BY <1>3, <1>5 DEF TcpLen, Flag
    <3>2. l.len >= 1
      BY <1>3
    <3> QED BY <1>3, <1>4, <1>5, <3>1, <3>2
  <2>3. s.fin = FALSE
    BY <1>3, <1>4, <1>5
  <2> QED BY <2>1, <2>2, <2>3 DEF Whole
<1>9. End(s) = e
  <2>1. End(s) = s.seqno + (s.len + 0)
    BY <1>3, <1>5 DEF End, TcpLen, Flag
  <2>2. l.seqno \in Nat /\ l.len \in Nat /\ l.seqno + l.len = d
    BY <1>3, <1>4
  <2>3. l.seqno + ((l.len + (x + y)) + 0) = d + (x + y)
    <3> DEFINE m == l.seqno
               k == l.len
    <3>1. m \in Nat /\ k \in Nat /\ m + k = d
      BY ONLY <2>2
    <3> HIDE DEF m, k
    <3>2. m + ((k + (x + y)) + 0) = d + (x + y)
      BY ONLY <3>1, x \in Nat, y \in Nat, d \in Nat
    <3> QED BY <3>2 DEF m, k
  <2> QED BY <1>5, <2>1, <2>3
<1>10. e \in Nat /\ d <= e
  OBVIOUS
<1>11. s.seqno = q[Len(q)].seqno /\ End(q[Len(q)]) <= End(s)
  BY <1>2, <1>3, <1>5, <1>9, <1>10
<1> HIDE DEF e
<1>12. LET r == SubSeq(q, 1, Len(q) - 1) \o <<s>>
       IN Tiled(r, e, FALSE) /\ Spans(r, from, End(s))
  BY <1>2, <1>6, <1>8, <1>10, <1>11, LastReplaced
<1>13. u \o h = SubSeq(q, 1, Len(q) - 1) \o <<s>>
  BY <1>6, QueuesEnd
<1>14. Tiled(u \o h, e, FALSE) /\ Spans(u \o h, from, e)
  BY <1>9, <1>12, <1>13
<1> QED BY <1>14 DEF e, s, l

\* What the three phases of tcp_write make of the queue: x bytes fill the last
\* pbuf, y are chained to it, m are cut into new segments.
WrittenHead(v, x, y) ==
    IF v # <<>>
    THEN SubSeq(v, 1, Len(v) - 1) \o
           <<Grown(v[Len(v)], x, y, Flag(y > 0))>>
    ELSE <<>>

LEMMA HeadShape ==
  ASSUME NEW v \in Seq(Segment), NEW x \in Nat, NEW y \in Nat
  PROVE  LET h == WrittenHead(v, x, y)
         IN /\ h \in Seq(Segment)
            /\ v = <<>> => h = <<>> /\ Pbufs(h) = Pbufs(v)
            /\ v # <<>> => /\ h # <<>> /\ h[1].seqno = v[1].seqno
                           /\ h[Len(h)].len = v[Len(v)].len + (x + y)
                           /\ Pbufs(h) = Pbufs(v) + Flag(y > 0)
<1>1. CASE v = <<>>
  BY <1>1 DEF WrittenHead
<1>2. CASE v # <<>>
  <2> DEFINE b == Flag(y > 0)
  <2>1. WrittenHead(v, x, y) = SubSeq(v, 1, Len(v) - 1) \o <<Grown(v[Len(v)], x, y, b)>>
    BY <1>2 DEF WrittenHead
  <2>2. b \in Nat
    BY DEF Flag
  <2> HIDE DEF b
  <2>3. LET h == SubSeq(v, 1, Len(v) - 1) \o <<Grown(v[Len(v)], x, y, b)>>
        IN /\ h \in Seq(Segment) /\ Len(h) = Len(v) /\ h # <<>>
           /\ h[Len(h)].len = v[Len(v)].len + (x + y)
           /\ h[1].seqno = v[1].seqno
           /\ Pbufs(h) = Pbufs(v) + b
    BY <1>2, <2>2, TailShape
  <2> QED BY <1>2, <2>1, <2>3 DEF b
<1> QED BY <1>1, <1>2

LEMMA HeadOfWrite ==
  ASSUME NEW u \in Seq(Segment), NEW v \in Seq(Segment), NEW d \in Nat,
         Tiled(u \o v, d, FALSE), NEW from \in Nat, Spans(u \o v, from, d),
         NEW x \in Nat, NEW y \in Nat,
         v = <<>> => x = 0 /\ y = 0,
         v # <<>> => v[Len(v)].len + (x + y) <= Mss1
  PROVE  LET h == WrittenHead(v, x, y)
         IN Tiled(u \o h, d + (x + y), FALSE) /\ Spans(u \o h, from, d + (x + y))
<1> DEFINE h == WrittenHead(v, x, y)
<1>1. CASE v = <<>>
  <2>1. h = <<>> /\ x + y = 0
    BY <1>1 DEF WrittenHead
  <2>2. u \o h = u \o v /\ d + (x + y) = d
    BY <1>1, <2>1
  <2> HIDE DEF h
  <2> QED BY <2>2 DEF h
<1>2. CASE v # <<>>
  <2> DEFINE b == Flag(y > 0)
  <2>1. h = SubSeq(v, 1, Len(v) - 1) \o <<Grown(v[Len(v)], x, y, b)>>
    BY <1>2 DEF WrittenHead
  <2>2. b \in Nat /\ v[Len(v)].len + (x + y) <= Mss1
    BY <1>2 DEF Flag
  <2> HIDE DEF b, h
  <2>3. LET g == SubSeq(v, 1, Len(v) - 1) \o <<Grown(v[Len(v)], x, y, b)>>
        IN Tiled(u \o g, d + (x + y), FALSE) /\ Spans(u \o g, from, d + (x + y))
    BY <1>2, <2>2, TailGrows
  <2> QED BY <2>1, <2>3 DEF h
<1> QED BY <1>1, <1>2

Written(u, v, q, new, x, y, m, d, from) ==
    /\ q \in Seq(Segment) /\ new \in Seq(Segment) /\ Len(new) \in Nat
    /\ Pbufs(q) = (Pbufs(v) + Flag(y > 0)) + Len(new)
    /\ Tiled(u \o q, (d + (x + y)) + m, FALSE)
    /\ Spans(u \o q, from, (d + (x + y)) + m)
    /\ v # <<>> => q # <<>> /\ q[1].seqno = v[1].seqno
    /\ new = <<>> <=> m = 0
    /\ new = <<>> /\ v # <<>> => q[Len(q)].len = v[Len(v)].len + (x + y)
    /\ new # <<>> => q # <<>> /\ q[Len(q)] = new[Len(new)] /\ new[Len(new)].len \in 0..Mss1

LEMMA WholeWrite ==
  ASSUME NEW p, p.snd_wnd_max = Wnd,
         NEW u \in Seq(Segment), NEW v \in Seq(Segment), NEW d \in Nat,
         Tiled(u \o v, d, FALSE), NEW from \in Nat, Spans(u \o v, from, d),
         NEW x \in Nat, NEW y \in Nat, NEW m \in Nat,
         v = <<>> => x = 0 /\ y = 0,
         v # <<>> => v[Len(v)].len + (x + y) <= Mss1
  PROVE  LET new == Cut(p, d + x + y, m)
             q == WrittenHead(v, x, y) \o new
         IN Written(u, v, q, new, x, y, m, d, from)
<1> DEFINE h == WrittenHead(v, x, y)
           a == d + (x + y)
           new == Cut(p, d + x + y, m)
           q == h \o new
<1>1. a \in Nat /\ d + x + y = a
  OBVIOUS
<1>2. /\ h \in Seq(Segment)
      /\ Pbufs(h) = Pbufs(v) + Flag(y > 0)
      /\ Tiled(u \o h, a, FALSE) /\ Spans(u \o h, from, a)
      /\ v = <<>> => h = <<>>
      /\ v # <<>> => h # <<>> /\ h[1].seqno = v[1].seqno
                     /\ h[Len(h)].len = v[Len(v)].len + (x + y)
  <2>1. v = <<>> => x = 0 /\ y = 0
    OBVIOUS
  <2>2. v # <<>> => v[Len(v)].len + (x + y) <= Mss1
    OBVIOUS
  <2>4. Tiled(u \o h, a, FALSE) /\ Spans(u \o h, from, a)
    BY HeadOfWrite
  <2>5. /\ h \in Seq(Segment)
        /\ v = <<>> => h = <<>> /\ Pbufs(h) = Pbufs(v)
        /\ v # <<>> => /\ h # <<>> /\ h[1].seqno = v[1].seqno
                       /\ h[Len(h)].len = v[Len(v)].len + (x + y)
                       /\ Pbufs(h) = Pbufs(v) + Flag(y > 0)
    BY HeadShape
  <2> HIDE DEF h
  <2>6. v = <<>> => Pbufs(h) = Pbufs(v) + Flag(y > 0)
    <3> SUFFICES ASSUME v = <<>> PROVE Pbufs(h) = Pbufs(v) + Flag(y > 0)
      OBVIOUS
    <3>1. ~ (y > 0)
      BY <2>1
    <3>2. Flag(y > 0) = 0
      BY <3>1 DEF Flag
    <3>3. Pbufs(v) \in Nat
      BY PbufsIsNat
    <3> QED BY <2>5, <3>2, <3>3
  <2> QED BY <2>4, <2>5, <2>6
<1>3. /\ Tiled(new, a + m, FALSE) /\ Spans(new, a, a + m)
      /\ new # <<>> => new[1].seqno = a
      /\ new = <<>> <=> m = 0
      /\ Singles(new)
  <2> DEFINE b == d + x + y
  <2>1. b \in Nat /\ b = a
    BY <1>1
  <2> HIDE DEF b, a
  <2>2. Tiled(Cut(p, b, m), b + m, FALSE) /\ Spans(Cut(p, b, m), b, b + m)
    BY <2>1, CutTiles
  <2>3. Cut(p, b, m) # <<>> => Cut(p, b, m)[1].seqno = b
    BY <2>1, CutTiles
  <2>4. Cut(p, b, m) = <<>> <=> m = 0
    BY <2>1, CutTiles
  <2>5. Singles(Cut(p, b, m))
    BY <2>1, CutTiles
  <2> QED BY <2>1, <2>2, <2>3, <2>4, <2>5 DEF b
<1> HIDE DEF h, a, new
<1>4. new \in Seq(Segment) /\ Len(new) \in Nat
  BY <1>3 DEF Tiled
<1>5. q \in Seq(Segment) /\ Pbufs(q) = (Pbufs(v) + Flag(y > 0)) + Len(new)
  <2>1. q \in Seq(Segment)
    BY ONLY <1>2, <1>4, ConcatAt
  <2>2. Pbufs(q) = Pbufs(h) + Pbufs(new)
    BY ONLY <1>2, <1>4, PbufsAdd
  <2>3. Pbufs(new) = Len(new)
    BY <1>3, <1>4, PbufsOfSingles
  <2> QED BY <1>2, <2>1, <2>2, <2>3
<1>6. Tiled(u \o q, a + m, FALSE) /\ Spans(u \o q, from, a + m)
  <2> DEFINE e == a + m
  <2>1. e \in Nat /\ a <= e
    BY <1>1
  <2> HIDE DEF e
  <2>2. Tiled(u \o h, e, FALSE)
    BY <1>1, <1>2, <2>1, TiledMore
  <2>3. Tiled(new, e, FALSE) /\ Spans(new, a, e)
    BY <1>3 DEF e
  <2>4. Tiled((u \o h) \o new, e, FALSE) /\ Spans((u \o h) \o new, from, e)
    BY <1>1, <1>2, <1>3, <2>1, <2>2, <2>3, TiledTogether
  <2>5. u \o (h \o new) = (u \o h) \o new
    <3>1. h \in Seq(Segment) /\ new \in Seq(Segment)
      BY <1>2, <1>4
    <3> QED BY ONLY <3>1, u \in Seq(Segment)
  <2> QED BY <2>4, <2>5 DEF e
<1>7. /\ Len(q) = Len(h) + Len(new) /\ Len(h) \in Nat
      /\ \A i \in 1..Len(h) : q[i] = h[i]
      /\ \A i \in 1..Len(new) : q[Len(h) + i] = new[i]
  BY ONLY <1>2, <1>4, ConcatAt
<1>8. v # <<>> => q # <<>> /\ q[1].seqno = v[1].seqno
  <2> SUFFICES ASSUME v # <<>> PROVE q # <<>> /\ q[1].seqno = v[1].seqno
    OBVIOUS
  <2>1. Len(h) # 0
    BY <1>2, EmptySeq
  <2>2. 1 \in 1..Len(h) /\ Len(q) # 0
    BY <1>4, <1>7, <2>1
  <2> QED BY <1>2, <1>7, <2>2
<1>9. new = <<>> /\ v # <<>> => q[Len(q)].len = v[Len(v)].len + (x + y)
  <2> SUFFICES ASSUME new = <<>>, v # <<>> PROVE q[Len(q)].len = v[Len(v)].len + (x + y)
    OBVIOUS
  <2>1. q = h
    BY <1>2, ConcatEmptySeq
  <2> QED BY <1>2, <2>1
<1>10. new # <<>> => q # <<>> /\ q[Len(q)] = new[Len(new)] /\ new[Len(new)].len \in 0..Mss1
  <2> SUFFICES ASSUME new # <<>>
               PROVE  q # <<>> /\ q[Len(q)] = new[Len(new)] /\ new[Len(new)].len \in 0..Mss1
    OBVIOUS
  <2>1. Len(new) # 0
    BY <1>4, EmptySeq
  <2>2. Len(new) \in 1..Len(new) /\ Len(q) # 0
    BY <1>4, <1>7, <2>1
  <2>3. q[Len(q)] = new[Len(new)]
    BY <1>7, <2>2
  <2>4. new[Len(new)] \in Segment
    BY <1>4, <2>2
  <2>5. Whole(new[Len(new)], a + m, FALSE)
    BY <1>3, <2>2 DEF Tiled
  <2>6. new[Len(new)].len \in Nat /\ new[Len(new)].len <= Mss1
    BY <2>4, <2>5, SegmentFields DEF Whole
  <2> QED BY <2>2, <2>3, <2>6, Sizes
<1>11. new = <<>> <=> m = 0
  BY <1>3
<1> QED BY <1>4, <1>5, <1>6, <1>8, <1>9, <1>10, <1>11 DEF h, a, new, Written

\* What fits in the last pbuf and what is chained to it: len bytes are in the
\* last segment, room for o more in its last pbuf, n are to be written.
LEMMA Fill ==
  ASSUME NEW m \in Nat, NEW len \in Nat, len <= m, NEW o \in Nat, o > 0 => len + o <= m,
         NEW n \in Nat
  PROVE  LET x == Min2(o, n)
             y == Min2((m - len) - x, n - x)
         IN /\ x \in Nat /\ y \in Nat /\ x <= o /\ x + y <= n /\ len + (x + y) <= m
            /\ y <= (m - len) - x
<1> DEFINE x == Min2(o, n)
           y == Min2((m - len) - x, n - x)
<1>1. x \in Nat /\ x <= o /\ x <= n /\ len + x <= m
  <2>1. x = o \/ x = n
    BY DEF Min2
  <2>2. x <= o /\ x <= n
    BY DEF Min2
  <2>3. CASE o = 0
    BY <2>1, <2>2, <2>3
  <2>4. CASE o > 0
    BY <2>1, <2>2, <2>4
  <2> QED BY <2>3, <2>4
<1> HIDE DEF x
<1>2. y <= (m - len) - x /\ y <= n - x /\ (y = (m - len) - x \/ y = n - x)
  BY <1>1 DEF Min2
<1> HIDE DEF y
<1>3. y \in Nat /\ x + y <= n /\ len + (x + y) <= m
  BY <1>1, <1>2
<1> QED BY <1>1, <1>2, <1>3 DEF x, y

\* tcp_write keeps the line, which its n bytes make longer.
LEMMA EnqueueKeeps ==
  ASSUME NEW p, NEW d \in 0..Bytes, PcbInv(p, d, FALSE), NEW n \in Nat, n >= 1, d + n <= Bytes,
         CanWrite(p, n), Enqueue(p, n).queuelen <= QueueMax
  PROVE  LET r == Enqueue(p, n)
         IN /\ PcbInv(r, d + n, FALSE)
            /\ Reach(p) <= Reach(r)
            /\ r.wl2 = p.wl2 /\ r.snd_wnd = p.snd_wnd /\ r.state = p.state
<1> DEFINE u == p.unacked
           v == p.unsent
           o == p.oversize
           space == IF v # <<>> THEN Mss2(p) - v[Len(v)].len ELSE 0
           x == IF v # <<>> THEN Min2(o, n) ELSE 0
           y == Min2(space - x, n - x)
           m == n - x - y
           new == Cut(p, p.snd_lbb + x + y, m)
           q == WrittenHead(v, x, y) \o new
           over == IF new # <<>>
                   THEN Prealloc(p, new[Len(new)].len, Mss2(p), Len(new) = 1)
                   ELSE IF y > 0 THEN Prealloc(p, y, space - x, TRUE)
                   ELSE o - x
           r == Enqueue(p, n)
<1>1. /\ p \in Pcb /\ u \in Seq(Segment) /\ v \in Seq(Segment)
      /\ p.queuelen = Pbufs(u) + Pbufs(v)
      /\ o > 0 => v # <<>> /\ v[Len(v)].len + o <= Mss1
      /\ p.snd_wnd_max = Wnd
      /\ Tiled(u \o v, d, FALSE)
      /\ Spans(u \o v, p.lastack, d + Flag(FALSE))
      /\ p.snd_lbb = d /\ d \in Nat /\ p.lastack \in Nat
  BY PcbFacts
<1>2. Flag(FALSE) = 0 /\ d + 0 = d
  BY DEF Flag
<1>3. Spans(u \o v, p.lastack, d)
  BY <1>1, <1>2
<1>4. o \in 0..Mss /\ o \in Nat /\ p.snd_buf \in 0..U16 - 1 /\ p.queuelen \in 0..QueueMax
  <2>1. o \in 0..Mss /\ p.snd_buf \in 0..U16 - 1 /\ p.queuelen \in 0..QueueMax
    BY <1>1, PcbFields
  <2> QED BY <2>1
<1>5. Mss2(p) = Mss1 /\ Mss1 \in Nat /\ Mss1 >= 1 /\ Mss1 <= Mss /\ Mss \in Nat
  BY <1>1, MssOfWrite, Sizes
<1>6. r = [p EXCEPT !.unsent = q, !.oversize = over, !.snd_lbb = @ + n, !.snd_buf = @ - n,
                    !.queuelen = @ + Flag(y > 0) + Len(new)]
  BY DEF Enqueue, WrittenHead, Grown, Last, Front
<1>7. /\ v # <<>> => v[Len(v)].len \in Nat /\ v[Len(v)].len <= Mss1
                    /\ v[Len(v)] = (u \o v)[Len(u \o v)]
  <2> SUFFICES ASSUME v # <<>>
               PROVE  /\ v[Len(v)].len \in Nat /\ v[Len(v)].len <= Mss1
                      /\ v[Len(v)] = (u \o v)[Len(u \o v)]
    OBVIOUS
  <2> DEFINE z == u \o v
  <2>1. v[Len(v)] \in Segment
    BY <1>1, FrontLast
  <2>2. z[Len(z)] = v[Len(v)] /\ z # <<>>
    BY <1>1, <2>1, QueuesEnd
  <2> HIDE DEF z
  <2>3. z[Len(z)].len \in 1..Mss1
    BY <1>1, <1>3, <2>2, LastOfLine DEF z
  <2> QED BY <1>5, <2>2, <2>3 DEF z
<1>8. /\ x \in Nat /\ y \in Nat /\ x <= o /\ x + y <= n /\ y <= space - x
      /\ v = <<>> => x = 0 /\ y = 0 /\ o = 0
      /\ v # <<>> => v[Len(v)].len + (x + y) <= Mss1 /\ space = Mss1 - v[Len(v)].len
  <2>1. CASE v = <<>>
    <3>1. space = 0 /\ x = 0
      BY <2>1
    <3>2. y = Min2(0, n)
      BY <3>1
    <3>3. y = 0
      BY <3>2 DEF Min2
    <3>4. o = 0
      BY <1>1, <1>4, <2>1
    <3> QED BY <1>4, <2>1, <3>1, <3>3, <3>4
  <2>2. CASE v # <<>>
    <3> DEFINE len == v[Len(v)].len
    <3>1. len \in Nat /\ len <= Mss1 /\ (o > 0 => len + o <= Mss1)
      BY <1>1, <1>7, <2>2
    <3>2. space = Mss1 - len /\ x = Min2(o, n)
      BY <1>5, <2>2
    <3> HIDE DEF len
    <3>3. LET a == Min2(o, n)
              b == Min2((Mss1 - len) - a, n - a)
          IN /\ a \in Nat /\ b \in Nat /\ a <= o /\ a + b <= n /\ len + (a + b) <= Mss1
             /\ b <= (Mss1 - len) - a
      <4> HIDE DEF o
      <4> QED BY <1>4, <1>5, <3>1, Fill
    <3>4. y = Min2((Mss1 - len) - x, n - x)
      BY <3>2
    <3> HIDE DEF x, y, space
    <3> QED BY <2>2, <3>2, <3>3, <3>4 DEF len
  <2> QED BY <2>1, <2>2
<1> HIDE DEF space, x, y
<1>9. m \in Nat /\ (d + (x + y)) + m = d + n /\ n - x - y = m
  BY <1>1, <1>8
<1> HIDE DEF m
<1>10. new = Cut(p, d + x + y, m)
  BY <1>1
<1>11. /\ q \in Seq(Segment) /\ new \in Seq(Segment) /\ Len(new) \in Nat
       /\ Pbufs(q) = (Pbufs(v) + Flag(y > 0)) + Len(new)
       /\ Tiled(u \o q, d + n, FALSE)
       /\ Spans(u \o q, p.lastack, d + n)
       /\ v # <<>> => q # <<>> /\ q[1].seqno = v[1].seqno
       /\ new = <<>> <=> m = 0
       /\ new = <<>> /\ v # <<>> => q[Len(q)].len = v[Len(v)].len + (x + y)
       /\ new # <<>> => q # <<>> /\ q[Len(q)] = new[Len(new)]
                        /\ new[Len(new)].len \in 0..Mss1
  <2> DEFINE c == Cut(p, d + x + y, m)
             g == WrittenHead(v, x, y) \o c
  <2>1. q = g /\ c = new
    BY <1>10
  <2>2. Written(u, v, g, c, x, y, m, d, p.lastack)
    BY <1>1, <1>3, <1>8, <1>9, WholeWrite
  <2> HIDE DEF c, g, q, new
  <2> QED BY <1>9, <2>1, <2>2 DEF Written
<1>12. over \in 0..Mss /\ (over > 0 => q # <<>> /\ q[Len(q)].len + over <= Mss1)
  <2>1. CASE new # <<>>
    <3> DEFINE l == new[Len(new)].len
    <3>1. l \in Nat /\ l <= Mss1 /\ q # <<>> /\ q[Len(q)].len = l
      BY <1>11, <2>1
    <3>2. over = Mss1 - l \/ over = 0
      BY <1>5, <2>1 DEF Prealloc
    <3> HIDE DEF over, l, new, q
    <3>3. over \in Nat /\ over <= Mss /\ l + over <= Mss1
      BY <1>5, <3>1, <3>2
    <3> QED BY <1>5, <3>1, <3>3
  <2>2. CASE new = <<>>
    <3>1. m = 0 /\ v # <<>>
      BY <1>8, <1>9, <1>11, <2>2
    <3> DEFINE l == q[Len(q)].len
               k == v[Len(v)].len
    <3>2. l = k + (x + y) /\ k \in Nat /\ q # <<>> /\ space = Mss1 - k /\ l <= Mss1
      BY <1>7, <1>8, <1>11, <2>2, <3>1
    <3>3. o > 0 => k + o <= Mss1
      BY <1>1
    <3>4. CASE y > 0
      <4>1. over = (space - x) - y \/ over = 0
        BY <2>2, <3>4 DEF Prealloc
      <4> HIDE DEF over, l, k, new, q
      <4>2. over \in Nat /\ over <= Mss /\ l + over <= Mss1
        <5>1. l \in Nat
          BY <1>8, <3>2
        <5>2. CASE over = 0
          BY <1>5, <3>2, <5>1, <5>2
        <5>3. CASE over = (space - x) - y
          <6> DEFINE z == x + y
          <6>1. z \in Nat /\ over = (Mss1 - k) - z /\ l = k + z
            BY <1>5, <1>8, <3>2, <5>3
          <6> HIDE DEF z
          <6> QED BY <1>5, <3>2, <6>1
        <5> QED BY <4>1, <5>2, <5>3
      <4> QED BY <1>5, <3>2, <4>2 DEF l
    <3>5. CASE ~ (y > 0)
      <4>1. over = o - x /\ y = 0
        BY <1>8, <2>2, <3>5
      <4> HIDE DEF over, l, k, new, q, o
      <4>2. over \in Nat /\ over <= Mss /\ (over > 0 => l + over <= Mss1)
        <5>1. over \in Nat /\ over <= Mss
          BY <1>4, <1>5, <1>8, <4>1
        <5>2. ASSUME over > 0 PROVE l + over <= Mss1
          <6>1. o > 0
            BY <1>4, <1>8, <4>1, <5>2
          <6> QED BY <1>4, <1>5, <1>8, <3>2, <3>3, <4>1, <6>1
        <5> QED BY <5>1, <5>2
      <4> QED BY <1>5, <3>2, <4>2 DEF l
    <3> QED BY <3>4, <3>5
  <2> QED BY <2>1, <2>2
<1> HIDE DEF over, q, new
<1>13. /\ d + n \in 0..Bytes + 1 /\ p.snd_buf - n \in 0..U16 - 1
       /\ p.queuelen + Flag(y > 0) + Len(new) \in 0..QueueMax
  <2>1. r.queuelen = p.queuelen + Flag(y > 0) + Len(new)
    BY <1>1, <1>6 DEF Pcb
  <2>2. n <= p.snd_buf
    BY DEF CanWrite
  <2>3. Flag(y > 0) \in Nat
    BY DEF Flag
  <2> HIDE DEF r
  <2>4. d + n \in 0..Bytes + 1 /\ p.snd_buf - n \in 0..U16 - 1
    BY <1>1, <1>4, <2>2, Sizes
  <2>5. p.queuelen + Flag(y > 0) + Len(new) \in Nat
    <3>1. p.queuelen \in Nat
      BY <1>4
    <3> QED BY ONLY <1>11, <2>3, <3>1
  <2>6. p.queuelen + Flag(y > 0) + Len(new) <= QueueMax
    BY <2>1 DEF r
  <2> QED BY <2>4, <2>5, <2>6, Sizes
<1>14. r \in Pcb
  <2> DEFINE lbb == d + n
             buf == p.snd_buf - n
             held == p.queuelen + Flag(y > 0) + Len(new)
  <2>1. /\ lbb \in 0..Bytes + 1 /\ buf \in 0..U16 - 1 /\ held \in 0..QueueMax
        /\ over \in 0..Mss /\ q \in Seq(Segment)
    BY <1>11, <1>12, <1>13
  <2>2. p.snd_lbb + n = lbb
    BY <1>1
  <2>3. r = [p EXCEPT !.unsent = q, !.oversize = over, !.snd_lbb = lbb, !.snd_buf = buf,
                      !.queuelen = held]
    BY <1>6, <2>2
  <2>4. p \in Pcb
    BY <1>1
  <2> HIDE DEF lbb, buf, held, r, over, q
  <2> QED BY ONLY <2>1, <2>3, <2>4 DEF Pcb
<1>15. /\ r.unacked = u /\ r.unsent = q /\ r.oversize = over /\ r.snd_lbb = d + n
       /\ r.snd_buf = p.snd_buf - n
       /\ r.queuelen = p.queuelen + Flag(y > 0) + Len(new)
       /\ r.lastack = p.lastack /\ r.wl2 = p.wl2 /\ r.snd_nxt = p.snd_nxt
       /\ r.snd_wnd = p.snd_wnd /\ r.snd_wnd_max = p.snd_wnd_max /\ r.state = p.state
       /\ r.cwnd = p.cwnd /\ r.ssthresh = p.ssthresh
  BY <1>1, <1>6 DEF Pcb
<1> HIDE DEF r
<1>16. Rest(r, FALSE)
  <2>1. p.lastack <= p.wl2 /\ p.cwnd >= 1 /\ p.ssthresh >= 1
    BY PcbFacts
  <2>2. r.queuelen = Pbufs(r.unacked) + Pbufs(r.unsent)
    <3>1. Pbufs(u) \in Nat /\ Pbufs(v) \in Nat /\ Flag(y > 0) \in Nat
      BY <1>1, PbufsIsNat DEF Flag
    <3> DEFINE a == Pbufs(u)
               b == Pbufs(v)
               c == Flag(y > 0)
               e == Len(new)
    <3>2. a \in Nat /\ b \in Nat /\ c \in Nat /\ e \in Nat
      BY <1>11, <3>1
    <3>3. r.queuelen = (a + b) + c + e /\ Pbufs(r.unsent) = (b + c) + e
      BY <1>1, <1>11, <1>15
    <3>4. Pbufs(r.unacked) = a
      BY <1>15
    <3> HIDE DEF a, b, c, e
    <3> QED BY ONLY <3>2, <3>3, <3>4
  <2>3. r.state = "ESTABLISHED" => r.snd_buf = SndBuf - (r.snd_lbb - r.lastack)
    <3>1. p.state = "ESTABLISHED" => p.snd_buf = SndBuf - (p.snd_lbb - p.lastack)
      BY PcbFacts
    <3> SUFFICES ASSUME r.state = "ESTABLISHED"
                 PROVE  p.snd_buf - n = SndBuf - ((d + n) - p.lastack)
      BY <1>15
    <3>2. p.snd_buf = SndBuf - (d - p.lastack)
      BY <1>1, <1>15, <3>1
    <3>3. SndBuf \in Nat /\ p.lastack \in Nat /\ p.snd_buf \in Nat /\ d \in Nat
      BY <1>1, <1>4, Sizes
    <3> QED BY ONLY <3>2, <3>3, n \in Nat
  <2>4. r.oversize > 0 => r.unsent # <<>> /\ r.unsent[Len(r.unsent)].len + r.oversize <= Mss1
    BY <1>12, <1>15
  <2> QED BY <1>1, <1>14, <1>15, <2>1, <2>2, <2>3, <2>4 DEF Rest
<1>17. Line(r, r.unacked \o r.unsent, d + n, FALSE)
  <2> DEFINE e == d + n
  <2>1. p.lastack <= p.snd_nxt /\ p.snd_nxt <= d + Flag(FALSE) /\ p.snd_nxt \in Nat
        /\ Sent(p.unacked, p.lastack, p.snd_nxt, p.snd_wnd)
    BY PcbFacts
  <2>2. e + Flag(FALSE) = e /\ p.snd_nxt <= e
    <3>1. p.snd_nxt <= d /\ d \in Nat
      BY <1>1, <1>2, <2>1
    <3>2. e \in Nat /\ p.snd_nxt <= e
      BY ONLY <2>1, <3>1, n \in Nat
    <3> QED BY <1>2, <3>2 DEF Flag
  <2>3. Tiled(r.unacked \o r.unsent, e, FALSE) /\ Spans(r.unacked \o r.unsent, r.lastack, e)
    BY <1>11, <1>15
  <2>4. r.snd_lbb = e
    BY <1>15
  <2> HIDE DEF e
  <2>5. Line(r, r.unacked \o r.unsent, e, FALSE)
    BY <1>15, <2>1, <2>2, <2>3, <2>4 DEF Line
  <2> QED BY <2>5 DEF e
<1>18. Reach(p) <= Reach(r)
  <2>1. Probing(p) => Probing(r)
    BY <1>11, <1>15 DEF Probing
  <2>2. Flag(Probing(p)) \in 0..1 /\ Flag(Probing(r)) \in 0..1 /\ Flag(Probing(p)) <= Flag(Probing(r))
    BY <2>1 DEF Flag
  <2>3. p.snd_nxt \in Nat
    BY PcbFacts
  <2> QED BY <1>15, <2>2, <2>3 DEF Reach
<1> QED BY <1>15, <1>16, <1>17, <1>18 DEF PcbInv, r

\* The same with another last element.
LEMMA ExceptLast ==
  ASSUME NEW S, NEW v \in Seq(S), v # <<>>, NEW s \in S
  PROVE  [v EXCEPT ![Len(v)] = s] = SubSeq(v, 1, Len(v) - 1) \o <<s>>
<1> DEFINE n == Len(v)
           b == SubSeq(v, 1, n - 1)
           r == [v EXCEPT ![Len(v)] = s]
           x == <<s>>
<1>1. n \in Nat /\ n >= 1 /\ n \in 1..n /\ n - 1 \in 0..n
  BY FrontLast
<1>2. b \in Seq(S) /\ Len(b) = n - 1 /\ \A i \in 1..n - 1 : b[i] = v[i]
  <2> DEFINE m == n - 1
  <2>1. m \in 0..Len(v) /\ v \in Seq(S)
    BY <1>1
  <2> HIDE DEF m
  <2>2. /\ SubSeq(v, 1, m) \in Seq(S) /\ Len(SubSeq(v, 1, m)) = m
        /\ \A i \in 1..m : SubSeq(v, 1, m)[i] = v[i]
    BY ONLY <2>1, CutAt
  <2> QED BY <2>2 DEF m
<1>3. r \in Seq(S) /\ Len(r) = n /\ \A i \in 1..n : r[i] = IF i = n THEN s ELSE v[i]
  BY <1>1
<1>4. x \in Seq(S) /\ Len(x) = 1 /\ x[1] = s
  OBVIOUS
<1> HIDE DEF b, r, x
<1>5. /\ b \o x \in Seq(S) /\ Len(b \o x) = Len(b) + Len(x)
      /\ \A i \in 1..Len(b) : (b \o x)[i] = b[i]
      /\ \A i \in 1..Len(x) : (b \o x)[Len(b) + i] = x[i]
  <2>1. b \in Seq(S) /\ x \in Seq(S)
    BY <1>2, <1>4
  <2> QED BY ONLY <2>1, ConcatAt
<1>6. Len(b \o x) = n
  BY <1>1, <1>2, <1>4, <1>5
<1>7. ASSUME NEW i \in 1..Len(r) PROVE r[i] = (b \o x)[i]
  <2>1. CASE i = n
    <3>1. 1 \in 1..Len(x) /\ Len(b) + 1 = i
      BY <1>1, <1>2, <1>4, <2>1
    <3>2. (b \o x)[i] = s
      BY <1>4, <1>5, <3>1
    <3> QED BY <1>1, <1>3, <2>1, <3>2
  <2>2. CASE i # n
    <3>1. i \in 1..n - 1 /\ i \in 1..Len(b) /\ i \in 1..n
      BY <1>1, <1>2, <1>3, <2>2
    <3> QED BY <1>2, <1>3, <1>5, <2>2, <3>1
  <2> QED BY <2>1, <2>2
<1>8. r = b \o x
  BY <1>3, <1>5, <1>6, <1>7, SeqEqual
<1> QED BY <1>8 DEF b, r, x

\* tcp_send_fin makes the line longer by the FIN.
LEMMA FinLast ==
  ASSUME NEW u \in Seq(Segment), NEW v \in Seq(Segment), v # <<>>, NEW d \in Nat,
         Tiled(u \o v, d, FALSE), NEW from \in Nat, Spans(u \o v, from, d)
  PROVE  LET s == [v[Len(v)] EXCEPT !.fin = TRUE]
             h == [v EXCEPT ![Len(v)] = s]
         IN /\ h \in Seq(Segment) /\ h # <<>> /\ Pbufs(h) = Pbufs(v)
            /\ h[1].seqno = v[1].seqno
            /\ h[Len(h)].len = v[Len(v)].len
            /\ Tiled(u \o h, d, TRUE) /\ Spans(u \o h, from, d + 1)
            /\ u \o h # <<>> /\ (u \o h)[Len(u \o h)].len # 0
<1> DEFINE l == v[Len(v)]
           s == [l EXCEPT !.fin = TRUE]
           h == SubSeq(v, 1, Len(v) - 1) \o <<s>>
           q == u \o v
<1>1. l \in Segment
  BY FrontLast
<1>2. q # <<>> /\ q[Len(q)] = l
  BY QueuesEnd, <1>1
<1>3. ~ l.fin /\ l.seqno + l.len = d /\ l.len \in 1..Mss1 /\ End(l) = d
  BY <1>2, LastOfLine
<1>4. l.seqno \in Nat /\ l.len \in Nat /\ l.fin \in BOOLEAN /\ l.bufs \in Nat
  BY <1>1, SegmentFields
<1> HIDE DEF l
<1>5. s \in Segment /\ s.seqno = l.seqno /\ s.len = l.len /\ s.fin = TRUE /\ s.bufs = l.bufs
  BY <1>1 DEF Segment
<1> HIDE DEF s
<1>6. s \in Segment
  BY <1>5
<1>7. TcpLen(s) = l.len + 1 /\ End(s) = s.seqno + TcpLen(s)
  BY <1>5 DEF TcpLen, Flag, End
<1>8. TcpLen(s) > 0 /\ End(s) = d + 1 /\ s.len # 0
  <2> DEFINE a == l.seqno
             b == l.len
  <2>1. a \in Nat /\ b \in Nat /\ a + b = d /\ b >= 1
    BY <1>3, <1>4
  <2>2. TcpLen(s) = b + 1 /\ End(s) = a + (b + 1) /\ s.len = b
    BY <1>5, <1>7
  <2> HIDE DEF a, b
  <2> QED BY <2>1, <2>2
<1>9. Whole(s, d, TRUE)
  BY <1>3, <1>4, <1>5, <1>8, Sizes DEF Whole
<1>10. s.seqno = q[Len(q)].seqno /\ End(q[Len(q)]) <= End(s)
  BY <1>2, <1>3, <1>5, <1>8
<1>11. LET r == SubSeq(q, 1, Len(q) - 1) \o <<s>>
       IN /\ Tiled(r, d, TRUE) /\ Spans(r, from, End(s))
          /\ r[Len(r)] = s /\ r # <<>>
  <2>1. Tiled(q, d, FALSE) /\ Spans(q, from, d)
    OBVIOUS
  <2>2. d <= d
    OBVIOUS
  <2>3. TRUE \in BOOLEAN
    OBVIOUS
  <2> HIDE DEF q
  <2>4. s.seqno = q[Len(q)].seqno
    BY <1>10
  <2>5. End(q[Len(q)]) <= End(s)
    BY <1>10
  <2>6. q # <<>>
    BY <1>2
  <2> DEFINE r == SubSeq(q, 1, Len(q) - 1) \o <<s>>
  <2>7. Tiled(r, d, TRUE) /\ Spans(r, from, End(s))
    BY ONLY <2>1, <2>2, <2>3, <2>4, <2>5, <2>6, <1>6, <1>9, d \in Nat, from \in Nat, LastReplaced
  <2>8. r[Len(r)] = s /\ r # <<>>
    BY ONLY <2>1, <2>2, <2>3, <2>4, <2>5, <2>6, <1>6, <1>9, d \in Nat, from \in Nat, LastReplaced
  <2> QED BY <2>7, <2>8
<1>12. u \o h = SubSeq(q, 1, Len(q) - 1) \o <<s>>
  BY <1>6, QueuesEnd
<1>13. /\ h \in Seq(Segment) /\ h # <<>> /\ h[Len(h)] = s
       /\ s.seqno = v[Len(v)].seqno => h[1].seqno = v[1].seqno
       /\ Pbufs(v) = Pbufs(SubSeq(v, 1, Len(v) - 1)) + v[Len(v)].bufs
       /\ Pbufs(h) = Pbufs(SubSeq(v, 1, Len(v) - 1)) + s.bufs
  BY <1>6, OtherLast
<1>14. [v EXCEPT ![Len(v)] = s] = h
  BY <1>6, ExceptLast
<1>15. s = [v[Len(v)] EXCEPT !.fin = TRUE]
  BY DEF s, l
<1> HIDE DEF h
<1>16. /\ h[1].seqno = v[1].seqno /\ Pbufs(h) = Pbufs(v) /\ h[Len(h)].len = v[Len(v)].len
  BY <1>5, <1>13 DEF l
<1>17. Tiled(u \o h, d, TRUE) /\ Spans(u \o h, from, d + 1)
  BY <1>8, <1>11, <1>12
<1>18. u \o h # <<>> /\ (u \o h)[Len(u \o h)].len # 0
  BY <1>8, <1>11, <1>12
<1> QED BY <1>13, <1>14, <1>15, <1>16, <1>17, <1>18

LEMMA FinAlone ==
  ASSUME NEW u \in Seq(Segment), NEW d \in Nat,
         Tiled(u, d, FALSE), NEW from \in Nat, Spans(u, from, d)
  PROVE  LET s == [seqno |-> d, len |-> 0, fin |-> TRUE, bufs |-> 1]
         IN /\ <<s>> \in Seq(Segment) /\ Pbufs(<<s>>) = 1
            /\ Tiled(u \o <<s>>, d, TRUE) /\ Spans(u \o <<s>>, from, d + 1)
            /\ u \o <<s>> # <<>> /\ (u \o <<s>>)[Len(u \o <<s>>)].len = 0
<1> DEFINE s == [seqno |-> d, len |-> 0, fin |-> TRUE, bufs |-> 1]
           x == <<s>>
<1>1. s \in Segment /\ s.seqno = d /\ s.len = 0 /\ s.fin = TRUE /\ s.bufs = 1
  BY DEF Segment
<1> HIDE DEF s
<1>2. TcpLen(s) = 0 + 1 /\ End(s) = s.seqno + TcpLen(s)
  BY <1>1 DEF TcpLen, Flag, End
<1>3. TcpLen(s) > 0 /\ End(s) = d + 1 /\ s.seqno <= d /\ d < End(s)
  BY <1>1, <1>2
<1>4. Whole(s, d, TRUE)
  BY <1>1, <1>3, Sizes DEF Whole
<1>5. Tiled(x, d, TRUE) /\ Spans(x, d, End(s))
  BY <1>1, <1>3, <1>4, TiledOne
<1>6. x \in Seq(Segment) /\ Len(x) = 1 /\ x[1] = s /\ x[1].seqno = d
  BY <1>1
<1>7. Pbufs(x) = 1
  BY <1>1, PbufsOfOne
<1> HIDE DEF x
<1>8. Tiled(u, d, TRUE)
  <2>1. d <= d
    OBVIOUS
  <2>2. TRUE \in BOOLEAN
    OBVIOUS
  <2> QED BY <2>1, <2>2, TiledMore
<1>9. Tiled(u \o x, d, TRUE) /\ Spans(u \o x, from, d + 1)
  BY <1>3, <1>5, <1>6, <1>8, TiledTogether
<1>10. /\ Len(u \o x) = Len(u) + Len(x) /\ Len(u) \in Nat
       /\ \A i \in 1..Len(x) : (u \o x)[Len(u) + i] = x[i]
  <2>1. x \in Seq(Segment)
    BY <1>6
  <2> QED BY ONLY <2>1, u \in Seq(Segment), ConcatAt
<1>11. u \o x # <<>> /\ (u \o x)[Len(u \o x)].len = 0
  <2>1. Len(u \o x) # 0 /\ 1 \in 1..Len(x) /\ Len(u \o x) = Len(u) + 1
    BY <1>6, <1>10
  <2>2. (u \o x)[Len(u \o x)] = s
    BY <1>6, <1>10, <2>1
  <2> QED BY <1>1, <2>1, <2>2
<1> QED BY <1>6, <1>7, <1>9, <1>11 DEF x, s

\* tcp_close adds the FIN to the line.
LEMMA SendFinKeeps ==
  ASSUME NEW p, NEW d \in 0..Bytes, PcbInv(p, d, FALSE), CanClose(p)
  PROVE  LET r == [SendFin(p) EXCEPT !.state = "FIN_WAIT_1"]
         IN /\ PcbInv(r, d, TRUE)
            /\ Reach(p) <= Reach(r)
            /\ r.wl2 = p.wl2 /\ r.snd_wnd = p.snd_wnd /\ r.state = "FIN_WAIT_1"
<1> DEFINE u == p.unacked
           v == p.unsent
           r == [SendFin(p) EXCEPT !.state = "FIN_WAIT_1"]
<1>1. /\ p \in Pcb /\ u \in Seq(Segment) /\ v \in Seq(Segment)
      /\ p.queuelen = Pbufs(u) + Pbufs(v)
      /\ p.oversize > 0 => v # <<>> /\ v[Len(v)].len + p.oversize <= Mss1
      /\ p.snd_wnd_max = Wnd /\ p.cwnd >= 1 /\ p.ssthresh >= 1
      /\ Tiled(u \o v, d, FALSE)
      /\ Spans(u \o v, p.lastack, d + Flag(FALSE))
      /\ p.snd_lbb = d /\ d \in Nat /\ p.lastack \in Nat /\ p.snd_nxt \in Nat
      /\ p.lastack <= p.wl2 /\ p.lastack <= p.snd_nxt /\ p.snd_nxt <= d + Flag(FALSE)
      /\ Sent(u, p.lastack, p.snd_nxt, p.snd_wnd)
  BY PcbFacts
<1>2. Flag(FALSE) = 0 /\ Flag(TRUE) = 1 /\ d + 0 = d
  BY DEF Flag
<1>3. Spans(u \o v, p.lastack, d) /\ p.snd_nxt <= d + 1
  <2>1. d + Flag(FALSE) = d
    BY <1>2
  <2>2. Spans(u \o v, p.lastack, d) /\ p.snd_nxt <= d
    BY <1>1, <2>1
  <2> QED BY <1>1, <2>2
<1>4. /\ p.oversize \in 0..Mss /\ p.snd_buf \in 0..U16 - 1 /\ p.queuelen \in 0..QueueMax
      /\ p.flags \in SUBSET Flags
  BY <1>1, PcbFields
<1>5. p.flags \cup {"fin"} \in SUBSET Flags /\ "FIN_WAIT_1" \in States
  BY <1>4 DEF Flags, States
<1> DEFINE fl == p.flags \cup {"fin"}
<1>6. CASE v # <<>>
  <2> DEFINE s == [v[Len(v)] EXCEPT !.fin = TRUE]
             h == [v EXCEPT ![Len(v)] = s]
  <2>1. /\ h \in Seq(Segment) /\ h # <<>> /\ Pbufs(h) = Pbufs(v)
        /\ h[1].seqno = v[1].seqno
        /\ h[Len(h)].len = v[Len(v)].len
        /\ Tiled(u \o h, d, TRUE) /\ Spans(u \o h, p.lastack, d + 1)
        /\ u \o h # <<>> /\ (u \o h)[Len(u \o h)].len # 0
    <3>1. u \in Seq(Segment) /\ v \in Seq(Segment) /\ v # <<>> /\ d \in Nat /\ p.lastack \in Nat
      BY <1>1, <1>3, <1>6
    <3>2. Tiled(u \o v, d, FALSE) /\ Spans(u \o v, p.lastack, d)
      BY <1>1, <1>3
    <3> HIDE DEF u, v
    <3> QED BY ONLY <3>1, <3>2, FinLast
  <2>2. r = [p EXCEPT !.unsent = h, !.flags = fl, !.state = "FIN_WAIT_1"]
    BY <1>1, <1>6 DEF SendFin, Pcb
  <2>a. fl \in SUBSET Flags
    BY <1>5
  <2> HIDE DEF h, s, fl, r
  <2>3. r \in Pcb
    BY <1>1, <1>5, <2>a, <2>1, <2>2 DEF Pcb
  <2>4. /\ r.unsent = h /\ r.unacked = u /\ r.lastack = p.lastack
        /\ r.snd_nxt = p.snd_nxt /\ r.snd_lbb = p.snd_lbb /\ r.wl2 = p.wl2 /\ r.snd_wnd = p.snd_wnd
        /\ r.snd_wnd_max = p.snd_wnd_max /\ r.queuelen = p.queuelen /\ r.oversize = p.oversize
        /\ r.state = "FIN_WAIT_1" /\ r.cwnd = p.cwnd /\ r.ssthresh = p.ssthresh
    BY <1>1, <2>2 DEF Pcb
  <2> HIDE DEF r
  <2>5. Rest(r, TRUE)
    BY <1>1, <2>1, <2>3, <2>4 DEF Rest
  <2>6. p.snd_lbb = d + Flag((u \o h)[Len(u \o h)].len = 0)
    <3>1. Flag((u \o h)[Len(u \o h)].len = 0) = 0
      BY <2>1 DEF Flag
    <3> QED BY <1>1, <1>2, <3>1
  <2>7. Line(r, r.unacked \o r.unsent, d, TRUE)
    BY <1>1, <1>2, <1>3, <2>1, <2>4, <2>6 DEF Line
  <2>8. Reach(p) <= Reach(r)
    <3>1. Probing(p) <=> Probing(r)
      BY <1>6, <2>1, <2>4 DEF Probing
    <3>2. Flag(Probing(p)) = Flag(Probing(r)) /\ Flag(Probing(r)) \in 0..1
      BY <3>1 DEF Flag
    <3>3. Reach(p) = Reach(r) /\ Reach(p) \in Nat
      BY <1>1, <2>4, <3>2 DEF Reach
    <3> QED BY <3>3
  <2> QED BY <2>4, <2>5, <2>7, <2>8 DEF PcbInv, r
<1>7. CASE v = <<>>
  <2> DEFINE s == [seqno |-> d, len |-> 0, fin |-> TRUE, bufs |-> 1]
             h == <<s>>
             lbb == d + 1
             buf == p.snd_buf - 1
             held == p.queuelen + 1
  <2>1. u \o v = u
    BY <1>1, <1>7, ConcatEmptySeq
  <2>2. /\ h \in Seq(Segment) /\ Pbufs(h) = 1
        /\ Tiled(u \o h, d, TRUE) /\ Spans(u \o h, p.lastack, d + 1)
        /\ u \o h # <<>> /\ (u \o h)[Len(u \o h)].len = 0
    <3>1. u \in Seq(Segment) /\ d \in Nat /\ p.lastack \in Nat
      BY <1>1, <1>3
    <3>2. Tiled(u, d, FALSE) /\ Spans(u, p.lastack, d)
      BY <1>1, <1>3, <2>1
    <3> HIDE DEF u
    <3> QED BY ONLY <3>1, <3>2, FinAlone
  <2>3. Append(v, s) = h
    BY <1>7
  <2>4. /\ lbb \in 0..Bytes + 1 /\ buf \in 0..U16 - 1 /\ held \in 0..QueueMax /\ 0 \in 0..Mss
    BY <1>4, <1>7, Sizes DEF CanClose
  <2>5. r = [p EXCEPT !.unsent = h, !.oversize = 0, !.snd_lbb = lbb, !.snd_buf = buf,
                      !.queuelen = held, !.flags = fl, !.state = "FIN_WAIT_1"]
    BY <1>1, <1>7, <2>3 DEF SendFin, EnqueueFin, Pcb
  <2>a. fl \in SUBSET Flags
    BY <1>5
  <2> HIDE DEF s, h, lbb, buf, held, r, fl
  <2>6. r \in Pcb
    <3>1. p \in Pcb
      BY <1>1
    <3>2. h \in Seq(Segment)
      BY <2>2
    <3>3. "FIN_WAIT_1" \in States
      BY <1>5
    <3> QED BY ONLY <2>a, <2>4, <2>5, <3>1, <3>2, <3>3 DEF Pcb
  <2>7. /\ r.unsent = h /\ r.unacked = u /\ r.lastack = p.lastack
        /\ r.snd_nxt = p.snd_nxt /\ r.snd_lbb = lbb /\ r.wl2 = p.wl2 /\ r.snd_wnd = p.snd_wnd
        /\ r.snd_wnd_max = p.snd_wnd_max /\ r.queuelen = held /\ r.oversize = 0
        /\ r.state = "FIN_WAIT_1" /\ r.cwnd = p.cwnd /\ r.ssthresh = p.ssthresh
    BY <1>1, <2>5 DEF Pcb
  <2>8. r.queuelen = Pbufs(r.unacked) + Pbufs(r.unsent)
    <3>1. Pbufs(u) \in Nat /\ Pbufs(v) = 0
      BY <1>1, <1>7, PbufsIsNat, PbufsOfNone
    <3> QED BY <1>1, <2>2, <2>7, <3>1 DEF held
  <2>9. Rest(r, TRUE)
    BY <1>1, <2>6, <2>7, <2>8 DEF Rest
  <2>10. Flag((u \o h)[Len(u \o h)].len = 0) = 1
    BY <2>2 DEF Flag
  <2>11. Line(r, r.unacked \o r.unsent, d, TRUE)
    BY <1>1, <1>2, <1>3, <2>2, <2>7, <2>10 DEF Line, lbb
  <2>12. Reach(p) <= Reach(r)
    <3>1. ~ Probing(p)
      BY <1>7 DEF Probing
    <3>2. Flag(Probing(p)) = 0 /\ Flag(Probing(r)) \in 0..1
      BY <3>1 DEF Flag
    <3> QED BY <1>1, <2>7, <3>2 DEF Reach
  <2> QED BY <2>7, <2>9, <2>11, <2>12 DEF PcbInv, r
<1> QED BY <1>6, <1>7

\* What tcp_output can start from: a queue in order, or one of which the first
\* segment has jumped back to unsent and goes at once.
Ready(p, q, d, f) ==
    /\ Rest(p, f) /\ Line(p, q, d, f)
    /\ \/ q = p.unacked \o p.unsent
       \/ Jumped(p.unacked, p.unsent, q) /\ Fits(p, p.unsent[1]) /\ MayGo(p, 1)

\* ssthresh after a loss, and cwnd after a fast retransmission, fit 16 bits.
LEMMA Halved ==
  ASSUME NEW p \in Pcb
  PROVE  LET half == Max2(Min2(p.cwnd, p.snd_wnd) \div 2, 2 * Mss)
         IN /\ half \in 0..U16 - 1 /\ half >= 1
            /\ half + 3 * Mss \in 0..U16 - 1 /\ half + 3 * Mss >= Mss
<1> DEFINE m == Min2(p.cwnd, p.snd_wnd)
           k == m \div 2
           half == Max2(k, 2 * Mss)
<1>1. p.cwnd \in 0..U16 - 1 /\ p.snd_wnd \in 0..Wnd
  BY PcbFields
<1> DEFINE wh == Wnd \div 2
<1>2. m \in Nat /\ m <= Wnd /\ Wnd \in Nat
  BY <1>1, Sizes DEF Min2
<1> HIDE DEF m
<1>3. k \in Nat /\ wh \in Nat /\ k <= wh
  <2>1. \A y, z \in Nat : y <= z => y \div 2 \in Nat /\ z \div 2 \in Nat /\ y \div 2 <= z \div 2
    OBVIOUS
  <2> QED BY ONLY <1>2, <2>1
<1> HIDE DEF k
<1>4. (half = k \/ half = 2 * Mss) /\ half >= 2 * Mss
  BY <1>3, Sizes DEF Max2
<1> HIDE DEF half
<1>5. 5 * Mss < U16 /\ wh + 3 * Mss < U16
  BY ConstantsAssumption
<1> HIDE DEF wh
<1>6. /\ half \in 0..U16 - 1 /\ half >= 1
      /\ half + 3 * Mss \in 0..U16 - 1 /\ half + 3 * Mss >= Mss
  BY <1>3, <1>4, <1>5, Sizes
<1> QED BY <1>6 DEF half, k, m

\* The first segment of unacked moves before all of unsent.
Back(u, v, s, t, w) ==
    /\ Head(u) = s /\ s \in Segment /\ Insert(v, s) = w
    /\ t \in Seq(Segment) /\ w \in Seq(Segment)
    /\ Pbufs(t) + Pbufs(w) = Pbufs(u) + Pbufs(v)
    /\ Jumped(t, w, u \o v)
    /\ w[1] = s
    /\ v # <<>> => w[Len(w)] = v[Len(v)]
    /\ \A i \in 1..Len(t) : \E j \in 1..Len(u) : t[i] = u[j]

LEMMA JumpsBack ==
  ASSUME NEW u \in Seq(Segment), u # <<>>, NEW v \in Seq(Segment), NEW d \in Nat,
         NEW f \in BOOLEAN, Tiled(u \o v, d, f)
  PROVE  Back(u, v, u[1], Tail(u), <<u[1]>> \o v)
<1> DEFINE s == u[1]
           x == <<s>>
           t == Tail(u)
           w == x \o v
           q == u \o v
<1>1. Len(u) \in Nat /\ Len(u) # 0 /\ 1 \in 1..Len(u) /\ s \in Segment /\ Head(u) = s
  BY EmptySeq
<1>2. t \in Seq(Segment) /\ Len(t) = Len(u) - 1 /\ \A i \in 1..Len(u) - 1 : t[i] = u[i + 1]
  BY <1>1
<1> HIDE DEF s, t
<1>3. x \in Seq(Segment) /\ Len(x) = 1 /\ x[1] = s
  BY <1>1
<1>4. /\ w \in Seq(Segment) /\ Len(w) = Len(v) + 1 /\ Len(v) \in Nat /\ w[1] = s
      /\ \A i \in 1..Len(v) : w[i + 1] = v[i] /\ v[i] \in Segment
  BY <1>1, OneFirst
<1>5. /\ q \in Seq(Segment) /\ Len(q) = Len(u) + Len(v)
      /\ \A i \in 1..Len(u) : q[i] = u[i]
      /\ \A i \in 1..Len(v) : q[Len(u) + i] = v[i]
  BY ConcatAt
<1>6. Insert(v, s) = w
  <2> SUFFICES ASSUME NEW i \in 1..Len(v) PROVE ~ (v[i].seqno < s.seqno)
    BY <1>1, InsertFirst
  <2>1. Len(u) + i \in 1..Len(q) /\ 1 \in 1..Len(q) /\ 1 < Len(u) + i
    BY <1>1, <1>4, <1>5
  <2>2. End(q[1]) <= q[Len(u) + i].seqno
    BY <2>1 DEF Tiled
  <2>3. q[1] = s /\ q[Len(u) + i] = v[i]
    BY <1>1, <1>5 DEF s
  <2>4. s.seqno \in Nat /\ TcpLen(s) \in Nat /\ End(s) = s.seqno + TcpLen(s) /\ v[i].seqno \in Nat
    BY <1>1, <1>4, SegmentFields
  <2> QED BY <2>2, <2>3, <2>4
<1>7. x \o t = u
  <2>1. /\ x \o t \in Seq(Segment) /\ Len(x \o t) = Len(t) + 1 /\ Len(t) \in Nat
        /\ (x \o t)[1] = s
        /\ \A i \in 1..Len(t) : (x \o t)[i + 1] = t[i]
    BY <1>1, <1>2, OneFirst
  <2>2. Len(x \o t) = Len(u)
    BY <1>1, <1>2, <2>1
  <2>3. ASSUME NEW i \in 1..Len(x \o t) PROVE (x \o t)[i] = u[i]
    <3>1. CASE i = 1
      BY <2>1, <3>1 DEF s
    <3>2. CASE i # 1
      <4> DEFINE j == i - 1
      <4>1. j \in 1..Len(t) /\ j \in 1..Len(u) - 1 /\ j + 1 = i
        BY <1>2, <2>1, <3>2
      <4> HIDE DEF j
      <4>2. (x \o t)[j + 1] = u[j + 1]
        BY <1>2, <2>1, <4>1
      <4> QED BY <4>1, <4>2
    <3> QED BY <3>1, <3>2
  <2> QED BY <2>1, <2>2, <2>3, SeqEqual
<1> HIDE DEF x
<1>8. SubSeq(w, 2, Len(w)) = v
  <2> DEFINE k == 1
             y == SubSeq(w, k + 1, Len(w))
  <2>1. k \in 0..Len(w) /\ k = 1
    BY <1>4
  <2> HIDE DEF k
  <2>2. /\ y \in Seq(Segment) /\ Len(y) = Len(w) - k
        /\ \A i \in 1..Len(w) - k : y[i] = w[k + i]
    <3>1. w \in Seq(Segment) /\ k \in 0..Len(w)
      BY <1>4, <2>1
    <3> HIDE DEF w
    <3> QED BY ONLY <3>1, CutAt
  <2> HIDE DEF y, w
  <2>3. Len(y) = Len(v)
    BY <1>4, <2>1, <2>2
  <2>4. ASSUME NEW i \in 1..Len(y) PROVE y[i] = v[i]
    <3>1. i \in 1..Len(w) - k /\ i \in 1..Len(v) /\ k + i = i + 1
      BY <1>4, <2>1, <2>2, <2>3
    <3> QED BY <1>4, <2>2, <3>1
  <2>5. y = v
    BY <2>2, <2>3, <2>4, SeqEqual
  <2>6. k + 1 = 2
    BY <2>1
  <2> QED BY <2>5, <2>6 DEF y
<1>9. Jumped(t, w, q)
  <2>1. w # <<>> /\ <<w[1]>> = x
    BY <1>4 DEF x
  <2>2. q = (<<w[1]>> \o t) \o SubSeq(w, 2, Len(w))
    BY <1>7, <1>8, <2>1
  <2> HIDE DEF w, q
  <2> QED BY <2>1, <2>2 DEF Jumped
<1>10. Pbufs(t) + Pbufs(w) = Pbufs(u) + Pbufs(v)
  <2>1. Pbufs(u) = Pbufs(x) + Pbufs(t)
    <3>1. x \in Seq(Segment) /\ t \in Seq(Segment)
      BY <1>2, <1>3
    <3>2. Pbufs(x \o t) = Pbufs(x) + Pbufs(t)
      BY ONLY <3>1, PbufsAdd
    <3> QED BY <1>7, <3>2
  <2>2. Pbufs(w) = Pbufs(x) + Pbufs(v)
    <3>1. x \in Seq(Segment)
      BY <1>3
    <3> QED BY ONLY <3>1, v \in Seq(Segment), PbufsAdd
  <2>3. Pbufs(x) \in Nat /\ Pbufs(t) \in Nat /\ Pbufs(v) \in Nat
    BY <1>2, <1>3, PbufsIsNat
  <2> HIDE DEF w
  <2> QED BY ONLY <2>1, <2>2, <2>3
<1>11. v # <<>> => w[Len(w)] = v[Len(v)]
  <2> SUFFICES ASSUME v # <<>> PROVE w[Len(w)] = v[Len(v)]
    OBVIOUS
  <2>1. Len(v) \in 1..Len(v)
    BY FrontLast
  <2> HIDE DEF w
  <2> QED BY <1>4, <2>1
<1>12. ASSUME NEW i \in 1..Len(t) PROVE \E j \in 1..Len(u) : t[i] = u[j]
  <2>1. i \in 1..Len(u) - 1 /\ i + 1 \in 1..Len(u)
    BY <1>1, <1>2
  <2> QED BY <1>2, <2>1
<1> HIDE DEF w, q
<1> QED BY <1>1, <1>2, <1>4, <1>6, <1>9, <1>10, <1>11, <1>12 DEF w, q, x, s, t, Back

\* The first segment of the line is that of unacked, or of unsent.
LEMMA FirstOfLine ==
  ASSUME NEW u \in Seq(Segment), NEW v \in Seq(Segment), u # <<>>
  PROVE  /\ u \o v # <<>> /\ (u \o v)[1] = u[1] /\ 1 \in 1..Len(u) /\ 1 \in 1..Len(u \o v)
<1>1. Len(u) \in Nat /\ Len(u) # 0
  BY EmptySeq
<1>2. Len(u \o v) = Len(u) + Len(v) /\ Len(v) \in Nat /\ \A i \in 1..Len(u) : (u \o v)[i] = u[i]
  BY ConcatAt
<1>3. Len(u \o v) # 0 /\ 1 \in 1..Len(u) /\ 1 \in 1..Len(u \o v)
  BY <1>1, <1>2
<1> QED BY <1>2, <1>3

\* What waits on unsent ends behind what is acknowledged.
LEMMA AheadOfAck ==
  ASSUME NEW u \in Seq(Segment), NEW v \in Seq(Segment), NEW d \in Nat, NEW f \in BOOLEAN,
         Tiled(u \o v, d, f), NEW ack \in Nat, NEW to, Spans(u \o v, ack, to), v # <<>>
  PROVE  ack < End(v[1])
<1> DEFINE q == u \o v
<1>1. Len(v) \in Nat /\ Len(v) >= 1
  BY FrontLast
<1>2. /\ q \in Seq(Segment) /\ Len(q) = Len(u) + Len(v) /\ Len(u) \in Nat
      /\ \A i \in 1..Len(u) : q[i] = u[i]
      /\ \A i \in 1..Len(v) : q[Len(u) + i] = v[i]
  BY ConcatAt
<1>3. 1 \in 1..Len(v) /\ Len(q) # 0 /\ 1 \in 1..Len(q) /\ Len(u) + 1 \in 1..Len(q)
  BY <1>1, <1>2
<1>4. q # <<>>
  BY <1>3
<1>5. ack < End(q[1])
  BY <1>4 DEF Spans
<1>6. q[Len(u) + 1] = v[1]
  BY <1>2, <1>3
<1>7. CASE Len(u) = 0
  BY <1>2, <1>5, <1>6, <1>7
<1>8. CASE Len(u) # 0
  <2>1. 1 < Len(u) + 1
    BY <1>2, <1>8
  <2>2. End(q[1]) <= q[Len(u) + 1].seqno
    BY <1>3, <2>1 DEF Tiled
  <2>3. q[1] \in Segment /\ v[1] \in Segment
    BY <1>2, <1>3
  <2>4. /\ End(q[1]) \in Nat /\ v[1].seqno \in Nat /\ TcpLen(v[1]) \in Nat
        /\ End(v[1]) = v[1].seqno + TcpLen(v[1])
    BY <2>3, SegmentFields
  <2>5. ack < v[1].seqno
    BY <1>5, <1>6, <2>2, <2>4
  <2> QED BY <2>4, <2>5
<1> QED BY <1>7, <1>8

\* What tcp_output makes of it.
LEMMA ReadyGoes ==
  ASSUME NEW p, NEW d \in 0..Bytes, NEW f \in BOOLEAN, NEW q, Ready(p, q, d, f)
  PROVE  LET r == Output(p).pcb
         IN /\ PcbInv(r, d, f)
            /\ Reach(p) <= Reach(r)
            /\ r.wl2 = p.wl2 /\ r.snd_wnd = p.snd_wnd /\ r.state = p.state
            /\ \A s \in Output(p).out : s \in Wired /\ Flies(s, d, f, Reach(r))
  BY OutputKeeps DEF Ready

LEMMA InOrder ==
  ASSUME NEW p, NEW d, NEW f, PcbInv(p, d, f)
  PROVE  Ready(p, p.unacked \o p.unsent, d, f)
  BY DEF PcbInv, Ready

\* A fast retransmission keeps the line: its first segment waits on unsent and
\* goes at once.
LEMMA RexmitFastKeeps ==
  ASSUME NEW p, NEW d \in 0..Bytes, NEW f \in BOOLEAN, PcbInv(p, d, f)
  PROVE  LET r == RexmitFast(p)
         IN /\ \E q : Ready(r, q, d, f)
            /\ Reach(p) <= Reach(r)
            /\ r.wl2 = p.wl2 /\ r.snd_wnd = p.snd_wnd /\ r.state = p.state
            /\ r.lastack = p.lastack /\ r.snd_nxt = p.snd_nxt
            /\ r.unsent # <<>> => p.lastack < End(r.unsent[1])
<1> DEFINE u == p.unacked
           v == p.unsent
           q == u \o v
           r == RexmitFast(p)
           half == Max2(Min2(p.cwnd, p.snd_wnd) \div 2, 2 * Mss)
<1>1. /\ p \in Pcb /\ u \in Seq(Segment) /\ v \in Seq(Segment)
      /\ p.queuelen = Pbufs(u) + Pbufs(v)
      /\ p.oversize > 0 => v # <<>> /\ v[Len(v)].len + p.oversize <= Mss1
      /\ p.snd_wnd_max = Wnd /\ p.cwnd >= 1 /\ p.ssthresh >= 1
      /\ Tiled(q, d, f)
      /\ Spans(q, p.lastack, d + Flag(f))
      /\ d \in Nat /\ p.lastack \in Nat /\ p.snd_nxt \in Nat
      /\ p.lastack <= p.wl2 /\ p.lastack <= p.snd_nxt /\ p.snd_nxt <= d + Flag(f)
      /\ Sent(u, p.lastack, p.snd_nxt, p.snd_wnd)
      /\ Reach(p) \in Nat
  BY PcbFacts
<1>2. v # <<>> => p.lastack < End(v[1])
  BY <1>1, AheadOfAck
<1>3. CASE u = <<>> \/ "in_fr" \in p.flags
  <2>1. r = p
    BY <1>3 DEF RexmitFast
  <2>2. Ready(p, q, d, f)
    BY InOrder
  <2> QED BY <1>1, <1>2, <2>1, <2>2
<1>4. CASE ~ (u = <<>> \/ "in_fr" \in p.flags)
  <2> DEFINE s == u[1]
             t == Tail(u)
             w == <<s>> \o v
             fl == p.flags \cup {"in_fr"}
             big == half + 3 * Mss
             last == \A i \in 1..Len(v) : v[i].seqno < s.seqno
             over == IF last THEN 0 ELSE p.oversize
             more == p.nrtx + 1
  <2>1. /\ Head(u) = s /\ s \in Segment /\ Insert(v, s) = w
        /\ t \in Seq(Segment) /\ w \in Seq(Segment)
        /\ Pbufs(t) + Pbufs(w) = Pbufs(u) + Pbufs(v)
        /\ Jumped(t, w, q)
        /\ w[1] = s
        /\ v # <<>> => w[Len(w)] = v[Len(v)]
        /\ \A i \in 1..Len(t) : \E j \in 1..Len(u) : t[i] = u[j]
    <3>1. Back(u, v, s, t, w)
      BY <1>1, <1>4, JumpsBack
    <3> HIDE DEF s, t, w
    <3> QED BY <3>1 DEF Back
  <2>2. half \in 0..U16 - 1 /\ half >= 1 /\ big \in 0..U16 - 1 /\ big >= Mss
    BY <1>1, Halved
  <2>3. fl \in SUBSET Flags /\ p.oversize \in 0..Mss /\ over \in 0..Mss /\ more \in Nat /\ "in_fr" \in fl
    <3>1. p.oversize \in 0..Mss /\ p.nrtx \in Nat /\ p.flags \in SUBSET Flags
      BY <1>1, PcbFields
    <3>2. fl \in SUBSET Flags /\ "in_fr" \in fl
      BY <3>1 DEF Flags
    <3> QED BY <3>1, <3>2, Sizes
  <2>4. r = [p EXCEPT !.unacked = t, !.unsent = w, !.oversize = over, !.nrtx = more,
                      !.ssthresh = half, !.cwnd = big, !.flags = fl]
    BY <1>1, <1>4, <2>1 DEF RexmitFast
  <2> HIDE DEF s, t, w, fl, big, over, last, more, half, r
  <2>5. r \in Pcb
    <3>1. p \in Pcb
      BY <1>1
    <3>2. t \in Seq(Segment) /\ w \in Seq(Segment)
      BY <2>1
    <3> QED BY ONLY <3>1, <3>2, <2>2, <2>3, <2>4 DEF Pcb
  <2>6. /\ r.unsent = w /\ r.unacked = t /\ r.lastack = p.lastack
        /\ r.snd_nxt = p.snd_nxt /\ r.snd_lbb = p.snd_lbb /\ r.wl2 = p.wl2 /\ r.snd_wnd = p.snd_wnd
        /\ r.snd_wnd_max = p.snd_wnd_max /\ r.queuelen = p.queuelen /\ r.oversize = over
        /\ r.snd_buf = p.snd_buf
        /\ r.state = p.state /\ r.cwnd = big /\ r.ssthresh = half /\ r.flags = fl
    BY <1>1, <2>4 DEF Pcb
  <2>7. r.oversize > 0 => r.unsent # <<>> /\ r.unsent[Len(r.unsent)].len + r.oversize <= Mss1
    <3> SUFFICES ASSUME r.oversize > 0
                 PROVE  w # <<>> /\ w[Len(w)].len + over <= Mss1
      BY <2>6
    <3>1. v # <<>> /\ over = p.oversize
      <4>1. over # 0
        BY <2>3, <2>6
      <4>2. ~ last /\ over = p.oversize
        BY <4>1 DEF over
      <4>3. v # <<>>
        BY <4>2 DEF last
      <4> QED BY <4>2, <4>3
    <3>2. w # <<>>
      BY <2>1 DEF Jumped
    <3> QED BY <1>1, <2>1, <2>6, <3>1, <3>2
  <2>8. Rest(r, f)
    <3>1. p.state = "ESTABLISHED" => ~ f /\ p.snd_buf = SndBuf - (p.snd_lbb - p.lastack)
      BY PcbFacts
    <3>2. r.cwnd >= 1
      BY <2>2, <2>6, Sizes
    <3> QED BY <1>1, <2>1, <2>2, <2>5, <2>6, <2>7, <3>1, <3>2 DEF Rest
  <2>9. Sent(t, p.lastack, p.snd_nxt, p.snd_wnd)
    BY <1>1, <2>1 DEF Sent
  <2>10. Line(r, q, d, f)
    BY <2>6, <2>9 DEF PcbInv, Line
  <2>11. Fits(r, s)
    <3>1. s = q[1] /\ q # <<>> /\ 1 \in 1..Len(u) /\ 1 \in 1..Len(q)
      BY <1>1, <1>4, FirstOfLine DEF s
    <3>2. s.seqno <= p.lastack /\ p.lastack < End(s)
      BY <1>1, <3>1 DEF Spans
    <3>3. s.len <= Mss1
      BY <1>1, <3>1 DEF Tiled, Whole
    <3>4. s.seqno + s.len <= p.lastack + p.snd_wnd
      BY <1>1, <3>1 DEF Sent, s
    <3>5. /\ s.seqno \in Nat /\ s.len \in Nat /\ Flag(s.fin) \in 0..1
          /\ End(s) = s.seqno + (s.len + Flag(s.fin))
      BY <2>1, SegmentFields
    <3>6. p.snd_wnd \in 0..Wnd
      BY <1>1, PcbFields
    <3> DEFINE a == s.seqno
               b == s.len
               c == Flag(s.fin)
               l == p.lastack
               wnd == p.snd_wnd
               z == a + b - l
    <3>7. /\ a \in Nat /\ b \in Nat /\ c \in 0..1 /\ l \in Nat /\ wnd \in Nat /\ big \in Nat
          /\ a <= l /\ l < a + (b + c) /\ b <= Mss1 /\ a + b <= l + wnd /\ big >= Mss
      BY <1>1, <2>2, <3>2, <3>3, <3>4, <3>5, <3>6, Sizes
    <3>8. z = (a + b) - l
      BY <3>7
    <3> HIDE DEF a, b, c, l, wnd, z
    <3>9. z \in Nat /\ z <= wnd /\ z <= big
      BY <3>7, <3>8, Sizes
    <3>10. z \in 0..Min2(wnd, big)
      BY <3>7, <3>9 DEF Min2
    <3> QED BY <2>6, <3>10 DEF Fits, a, b, l, wnd, z
  <2>12. MayGo(r, 1)
    BY <2>3, <2>6 DEF MayGo
  <2>13. Ready(r, q, d, f)
    BY <2>1, <2>6, <2>8, <2>10, <2>11, <2>12 DEF Ready
  <2>14. Reach(p) <= Reach(r)
    <3>1. ~ Probing(p)
      BY <1>4 DEF Probing
    <3>2. Flag(Probing(p)) = 0 /\ Flag(Probing(r)) \in 0..1
      BY <3>1 DEF Flag
    <3> QED BY <1>1, <2>6, <3>2 DEF Reach
  <2>15. p.lastack < End(w[1])
    <3>1. s = q[1] /\ q # <<>>
      BY <1>1, <1>4, FirstOfLine DEF s
    <3> QED BY <1>1, <2>1, <3>1 DEF Spans
  <2> HIDE DEF q
  <2> QED BY <2>6, <2>13, <2>14, <2>15 DEF r
<1> QED BY <1>3, <1>4

\* So does a timed one: all of unacked waits on unsent again.
Overdue(p) ==
  [p EXCEPT !.ssthresh = Max2(Min2(p.cwnd, p.snd_wnd) \div 2, 2 * Mss),
            !.cwnd = Mss, !.nrtx = @ + 1, !.unsent = p.unacked \o @, !.unacked = <<>>]

\* r is p with the queue q in its line, ready to send.
Requeued(p, r, q, d, f) ==
  /\ Ready(r, q, d, f) /\ Reach(p) <= Reach(r)
  /\ r.wl2 = p.wl2 /\ r.snd_wnd = p.snd_wnd /\ r.state = p.state

LEMMA RtoKeeps ==
  ASSUME NEW p, NEW d \in 0..Bytes, NEW f \in BOOLEAN, PcbInv(p, d, f), p.unacked # <<>>
  PROVE  Requeued(p, Overdue(p), p.unacked \o p.unsent, d, f)
<1> DEFINE u == p.unacked
           v == p.unsent
           q == u \o v
           half == Max2(Min2(p.cwnd, p.snd_wnd) \div 2, 2 * Mss)
           more == p.nrtx + 1
           r == [p EXCEPT !.ssthresh = half, !.cwnd = Mss, !.nrtx = @ + 1,
                          !.unsent = p.unacked \o @, !.unacked = <<>>]
<1>1. /\ p \in Pcb /\ u \in Seq(Segment) /\ v \in Seq(Segment)
      /\ p.queuelen = Pbufs(u) + Pbufs(v)
      /\ p.oversize > 0 => v # <<>> /\ v[Len(v)].len + p.oversize <= Mss1
      /\ p.snd_wnd_max = Wnd
      /\ d \in Nat /\ p.lastack \in Nat /\ p.snd_nxt \in Nat
      /\ p.lastack <= p.wl2
      /\ p.state = "ESTABLISHED" => ~ f /\ p.snd_buf = SndBuf - (p.snd_lbb - p.lastack)
      /\ Reach(p) \in Nat
  BY PcbFacts
<1>2. r = [p EXCEPT !.ssthresh = half, !.cwnd = Mss, !.nrtx = more, !.unsent = q, !.unacked = <<>>]
  BY <1>1 DEF Pcb
<1>3. half \in 0..U16 - 1 /\ half >= 1 /\ half + 3 * Mss \in 0..U16 - 1
  BY <1>1, Halved
<1>4. Mss \in 0..U16 - 1 /\ Mss >= 1
  BY Sizes, ConstantsAssumption
<1>5. more \in Nat
  <2>1. p.nrtx \in Nat
    BY <1>1, PcbFields
  <2> QED BY <2>1
<1>6. q \in Seq(Segment) /\ <<>> \in Seq(Segment)
  BY <1>1, ConcatAt
<1>7. Pbufs(q) = Pbufs(u) + Pbufs(v) /\ Pbufs(<<>>) = 0 /\ Pbufs(q) \in Nat
  BY <1>1, <1>6, PbufsAdd, PbufsOfNone, PbufsIsNat
<1>8. v # <<>> => q # <<>> /\ q[Len(q)] = v[Len(v)]
  <2> SUFFICES ASSUME v # <<>> PROVE q # <<>> /\ q[Len(q)] = v[Len(v)]
    OBVIOUS
  <2>1. v[Len(v)] \in Segment
    BY <1>1, FrontLast
  <2> QED BY <1>1, <2>1, QueuesEnd
<1> HIDE DEF half, more, r, q
<1>9. r \in Pcb
  BY <1>1, <1>2, <1>3, <1>4, <1>5, <1>6 DEF Pcb
<1>10. /\ r.unsent = q /\ r.unacked = <<>> /\ r.lastack = p.lastack
       /\ r.snd_nxt = p.snd_nxt /\ r.snd_lbb = p.snd_lbb /\ r.wl2 = p.wl2 /\ r.snd_wnd = p.snd_wnd
       /\ r.snd_wnd_max = p.snd_wnd_max /\ r.queuelen = p.queuelen /\ r.oversize = p.oversize
       /\ r.snd_buf = p.snd_buf
       /\ r.state = p.state /\ r.cwnd = Mss /\ r.ssthresh = half
  BY <1>1, <1>2 DEF Pcb
<1>11. Rest(r, f)
  BY <1>1, <1>3, <1>4, <1>7, <1>8, <1>9, <1>10 DEF Rest
<1>12. Line(r, q, d, f)
  <2>1. Sent(<<>>, p.lastack, p.snd_nxt, p.snd_wnd)
    BY DEF Sent
  <2> QED BY <1>10, <2>1 DEF PcbInv, Line, q
<1>13. q = r.unacked \o r.unsent
  BY <1>6, <1>10, ConcatEmptySeq
<1>14. Reach(p) <= Reach(r)
  <2>1. ~ Probing(p)
    BY DEF Probing
  <2>2. Flag(Probing(p)) = 0 /\ Flag(Probing(r)) \in 0..1
    BY <2>1 DEF Flag
  <2> QED BY <1>1, <1>10, <2>2 DEF Reach
<1>15. Ready(r, q, d, f)
  BY <1>11, <1>12, <1>13 DEF Ready
<1>16. Requeued(p, r, q, d, f)
  BY <1>10, <1>14, <1>15 DEF Requeued
<1> QED BY <1>16 DEF r, half, q, Overdue

\* cwnd grows, as long as it fits 16 bits.
LEMMA InflateGrows ==
  ASSUME NEW p \in Pcb, NEW n \in Nat
  PROVE  /\ Inflate(p, n) = [p EXCEPT !.cwnd = Inflate(p, n).cwnd]
         /\ Inflate(p, n).cwnd \in 0..U16 - 1 /\ Inflate(p, n).cwnd >= p.cwnd
<1> DEFINE c == p.cwnd
           m == (c + n) % U16
           z == Max2(c, m)
<1>1. c \in 0..U16 - 1 /\ U16 \in Nat
  BY PcbFields, Sizes
<1> HIDE DEF c
<1>2. U16 > 0 /\ c \in Nat
  BY <1>1
<1>3. m \in 0..U16 - 1
  BY <1>1, <1>2
<1> HIDE DEF m
<1>4. z \in 0..U16 - 1 /\ z >= c
  BY <1>1, <1>3 DEF Max2
<1>5. Inflate(p, n) = [p EXCEPT !.cwnd = z]
  BY DEF Inflate, c, m
<1> HIDE DEF z
<1>6. Inflate(p, n).cwnd = z
  BY <1>5 DEF Pcb
<1> QED BY <1>4, <1>5, <1>6 DEF c

\* What the window of an ACK changes: which of the two is in force after it.
Updated(p, a, w) ==
    /\ w \in Pcb
    /\ w.unsent = p.unsent /\ w.unacked = p.unacked /\ w.lastack = p.lastack
    /\ w.snd_nxt = p.snd_nxt /\ w.snd_lbb = p.snd_lbb /\ w.snd_wnd_max = p.snd_wnd_max
    /\ w.queuelen = p.queuelen /\ w.oversize = p.oversize /\ w.snd_buf = p.snd_buf
    /\ w.state = p.state /\ w.cwnd = p.cwnd /\ w.ssthresh = p.ssthresh
    /\ \/ p.wl2 < a.ackno /\ w.wl2 = a.ackno /\ w.snd_wnd = a.wnd
       \/ p.wl2 = a.ackno /\ w.wl2 = p.wl2 /\ w.snd_wnd = a.wnd /\ p.snd_wnd <= a.wnd
       \/ a.ackno <= p.wl2 /\ w.wl2 = p.wl2 /\ w.snd_wnd = p.snd_wnd

LEMMA WindowUpdated ==
  ASSUME NEW p \in Pcb, p.snd_wnd_max = Wnd,
         NEW a \in [ackno : 0..Bytes + 1, wnd : 0..Wnd]
  PROVE  Updated(p, a, UpdateWindow(p, a))
<1> DEFINE w == UpdateWindow(p, a)
           m == Max2(p.snd_wnd_max, a.wnd)
           b == (a.wnd = 0)
<1>1. a.ackno \in 0..Bytes + 1 /\ a.wnd \in 0..Wnd /\ p.wl2 \in 0..Bytes + 1 /\ p.snd_wnd \in 0..Wnd
  BY PcbFields
<1>2. CASE p.wl2 < a.ackno \/ (p.wl2 = a.ackno /\ a.wnd > p.snd_wnd)
  <2>1. w = [p EXCEPT !.snd_wnd = a.wnd, !.snd_wnd_max = m, !.wl2 = a.ackno, !.persist = b]
    BY <1>2 DEF UpdateWindow
  <2>2. m = Wnd /\ Wnd \in 0..Wnd
    BY <1>1, Sizes DEF Max2
  <2>3. b \in BOOLEAN
    OBVIOUS
  <2> HIDE DEF m, b, w
  <2>4. w \in Pcb
    <3>1. p \in Pcb /\ a.wnd \in 0..Wnd /\ m \in 0..Wnd /\ a.ackno \in 0..Bytes + 1
      BY <1>1, <2>2
    <3> QED BY ONLY <2>1, <2>3, <3>1 DEF Pcb
  <2>5. /\ w.unsent = p.unsent /\ w.unacked = p.unacked /\ w.lastack = p.lastack
        /\ w.snd_nxt = p.snd_nxt /\ w.snd_lbb = p.snd_lbb /\ w.snd_wnd_max = m
        /\ w.queuelen = p.queuelen /\ w.oversize = p.oversize /\ w.snd_buf = p.snd_buf
        /\ w.state = p.state /\ w.cwnd = p.cwnd /\ w.ssthresh = p.ssthresh
        /\ w.wl2 = a.ackno /\ w.snd_wnd = a.wnd
    BY <2>1 DEF Pcb
  <2>6. p.wl2 = a.ackno /\ a.wnd > p.snd_wnd => p.snd_wnd <= a.wnd
    BY <1>1
  <2>7. Updated(p, a, w)
    BY <1>2, <2>2, <2>4, <2>5, <2>6 DEF Updated
  <2> QED BY <2>7 DEF w
<1>3. CASE ~ (p.wl2 < a.ackno \/ (p.wl2 = a.ackno /\ a.wnd > p.snd_wnd))
  <2>1. w = p
    BY <1>3 DEF UpdateWindow
  <2>2. a.ackno <= p.wl2
    BY <1>1, <1>3
  <2> HIDE DEF w
  <2>3. Updated(p, a, w)
    BY <2>1, <2>2 DEF Updated
  <2> QED BY <2>3 DEF w
<1> QED BY <1>2, <1>3

\* A step of tcp_receive that leaves the line ready for tcp_output.
Kept(p, r, d, f) ==
    /\ \E q : Ready(r, q, d, f)
    /\ Reach(p) <= Reach(r)
    /\ r.wl2 = p.wl2 /\ r.snd_wnd = p.snd_wnd /\ r.state = p.state
    /\ r.lastack = p.lastack /\ r.snd_nxt = p.snd_nxt
    /\ r.unsent # <<>> => p.lastack < End(r.unsent[1])

LEMMA KeptInOrder ==
  ASSUME NEW p, NEW d \in 0..Bytes, NEW f \in BOOLEAN, PcbInv(p, d, f),
         NEW r, PcbInv(r, d, f), Reach(r) = Reach(p),
         r.wl2 = p.wl2, r.snd_wnd = p.snd_wnd, r.state = p.state,
         r.lastack = p.lastack, r.snd_nxt = p.snd_nxt
  PROVE  Kept(p, r, d, f)
<1>1. Ready(r, r.unacked \o r.unsent, d, f)
  BY InOrder
<1>2. /\ r.unacked \in Seq(Segment) /\ r.unsent \in Seq(Segment) /\ d \in Nat
      /\ Tiled(r.unacked \o r.unsent, d, f) /\ r.lastack \in Nat
      /\ Spans(r.unacked \o r.unsent, r.lastack, d + Flag(f))
      /\ Reach(r) \in Nat
  BY PcbFacts
<1>3. r.unsent # <<>> => r.lastack < End(r.unsent[1])
  BY <1>2, AheadOfAck
<1>4. Reach(p) <= Reach(r)
  BY <1>2
<1> QED BY <1>1, <1>3, <1>4 DEF Kept

\* p after k duplicate ACKs, which changes no queue and no number.
Counting(p, k) == [p EXCEPT !.dupacks = k]

SamePlace(p, r, d, f) == PcbInv(r, d, f) /\ Kept(p, r, d, f) /\ Reach(r) = Reach(p)

LEMMA WithDupacks ==
  ASSUME NEW p, NEW d \in 0..Bytes, NEW f \in BOOLEAN, PcbInv(p, d, f), NEW k \in 0..4
  PROVE  SamePlace(p, Counting(p, k), d, f)
<1> DEFINE r == [p EXCEPT !.dupacks = k]
<1>1. p \in Pcb /\ p.cwnd >= 1 /\ p.ssthresh >= 1
  BY PcbFacts
<1>2. r \in Pcb
  BY <1>1 DEF Pcb
<1>3. /\ r.unsent = p.unsent /\ r.unacked = p.unacked /\ r.lastack = p.lastack
      /\ r.snd_nxt = p.snd_nxt /\ r.snd_lbb = p.snd_lbb /\ r.wl2 = p.wl2 /\ r.snd_wnd = p.snd_wnd
      /\ r.snd_wnd_max = p.snd_wnd_max /\ r.queuelen = p.queuelen /\ r.oversize = p.oversize
      /\ r.snd_buf = p.snd_buf /\ r.state = p.state /\ r.cwnd = p.cwnd /\ r.ssthresh = p.ssthresh
      /\ r.dupacks = k
  BY <1>1 DEF Pcb
<1> HIDE DEF r
<1>4. PcbInv(r, d, f) /\ Reach(r) = Reach(p)
  BY <1>1, <1>2, <1>3, SameQueues
<1>5. Kept(p, r, d, f)
  BY <1>3, <1>4, KeptInOrder
<1> QED BY <1>4, <1>5 DEF r, Counting, SamePlace

LEMMA WithCwnd ==
  ASSUME NEW p, NEW d \in 0..Bytes, NEW f \in BOOLEAN, PcbInv(p, d, f), NEW n \in Nat
  PROVE  LET r == Inflate(p, n)
         IN PcbInv(r, d, f) /\ Kept(p, r, d, f) /\ Reach(r) = Reach(p)
<1> DEFINE c == Inflate(p, n).cwnd
           r == [p EXCEPT !.cwnd = c]
<1>1. p \in Pcb /\ p.cwnd >= 1 /\ p.ssthresh >= 1
  BY PcbFacts
<1>2. Inflate(p, n) = r /\ c \in 0..U16 - 1 /\ c >= p.cwnd
  BY <1>1, InflateGrows
<1> HIDE DEF c
<1>3. r \in Pcb
  BY <1>1, <1>2 DEF Pcb
<1>4. /\ r.unsent = p.unsent /\ r.unacked = p.unacked /\ r.lastack = p.lastack
      /\ r.snd_nxt = p.snd_nxt /\ r.snd_lbb = p.snd_lbb /\ r.wl2 = p.wl2 /\ r.snd_wnd = p.snd_wnd
      /\ r.snd_wnd_max = p.snd_wnd_max /\ r.queuelen = p.queuelen /\ r.oversize = p.oversize
      /\ r.snd_buf = p.snd_buf /\ r.state = p.state /\ r.cwnd = c /\ r.ssthresh = p.ssthresh
  BY <1>1 DEF Pcb
<1>5. c >= 1
  <2>1. p.cwnd \in Nat /\ U16 \in Nat
    BY <1>1, PcbFields, Sizes
  <2> QED BY <1>1, <1>2, <2>1
<1> HIDE DEF r
<1>6. PcbInv(r, d, f) /\ Reach(r) = Reach(p)
  BY <1>1, <1>3, <1>4, <1>5, SameQueues
<1>7. Kept(p, r, d, f)
  BY <1>4, <1>6, KeptInOrder
<1> QED BY <1>2, <1>6, <1>7

\* A duplicate ACK keeps the line, with the third one's retransmission.
LEMMA DuplicateKeeps ==
  ASSUME NEW p, NEW d \in 0..Bytes, NEW f \in BOOLEAN, PcbInv(p, d, f), NEW a, NEW old
  PROVE  Kept(p, Duplicate(p, a, old), d, f)
<1> DEFINE r == Duplicate(p, a, old)
           k == p.dupacks + 1
           q == [p EXCEPT !.dupacks = @ + 1]
<1>1. p \in Pcb
  BY PcbFacts
<1>2. p.dupacks \in 0..4 /\ q = [p EXCEPT !.dupacks = k] /\ q.dupacks = k
  BY <1>1, PcbFields DEF Pcb
<1>3. CASE ~ (p.wl2 + p.snd_wnd = old /\ p.rtime /\ p.lastack = a.ackno)
  <2>1. r = [p EXCEPT !.dupacks = 0]
    BY <1>3 DEF Duplicate
  <2>2. 0 \in 0..4
    OBVIOUS
  <2> HIDE DEF r
  <2>3. SamePlace(p, Counting(p, 0), d, f)
    BY ONLY PcbInv(p, d, f), d \in 0..Bytes, f \in BOOLEAN, <2>2, WithDupacks
  <2>4. Kept(p, r, d, f)
    BY <2>1, <2>3 DEF SamePlace, Counting
  <2> QED BY <2>4 DEF r
<1>4. CASE (p.wl2 + p.snd_wnd = old /\ p.rtime /\ p.lastack = a.ackno) /\ k > 3
  <2> DEFINE x == [p EXCEPT !.dupacks = 4]
  <2>1. [q EXCEPT !.dupacks = 4] = x
    BY <1>1 DEF Pcb
  <2>2. q.dupacks > 3
    BY <1>2, <1>4
  <2>3. r = Inflate(x, Mss)
    BY <1>4, <2>1, <2>2 DEF Duplicate
  <2>4. 4 \in 0..4
    OBVIOUS
  <2>5. PcbInv(x, d, f) /\ Kept(p, x, d, f) /\ Reach(x) = Reach(p)
    <3>1. SamePlace(p, Counting(p, 4), d, f)
      BY ONLY PcbInv(p, d, f), d \in 0..Bytes, f \in BOOLEAN, <2>4, WithDupacks
    <3> QED BY ONLY <3>1 DEF SamePlace, Counting, x
  <2>6. x.unsent = p.unsent
    BY <1>1 DEF Pcb
  <2> HIDE DEF x, r
  <2>7. Mss \in Nat
    BY Sizes
  <2>8. PcbInv(r, d, f) /\ Kept(x, r, d, f) /\ Reach(r) = Reach(x)
    BY <2>3, <2>5, <2>7, WithCwnd
  <2>9. Kept(p, r, d, f)
    BY <2>5, <2>8 DEF Kept
  <2> QED BY <2>9 DEF r
<1>5. CASE (p.wl2 + p.snd_wnd = old /\ p.rtime /\ p.lastack = a.ackno) /\ k = 3
  <2>1. q.dupacks = 3 /\ ~ (q.dupacks > 3)
    BY <1>2, <1>5
  <2>2. r = RexmitFast(q)
    BY <1>5, <2>1 DEF Duplicate
  <2>3. k \in 0..4
    BY <1>5
  <2> HIDE DEF q, r, k
  <2>4. PcbInv(q, d, f) /\ Kept(p, q, d, f) /\ Reach(q) = Reach(p)
    <3>1. SamePlace(p, Counting(p, k), d, f)
      BY ONLY PcbInv(p, d, f), d \in 0..Bytes, f \in BOOLEAN, <2>3, WithDupacks
    <3>2. q = Counting(p, k)
      BY <1>2 DEF Counting
    <3> QED BY ONLY <3>1, <3>2 DEF SamePlace
  <2>5. Kept(q, r, d, f)
    BY <2>2, <2>4, RexmitFastKeeps DEF Kept
  <2>6. Kept(p, r, d, f)
    BY <2>4, <2>5 DEF Kept
  <2> QED BY <2>6 DEF r
<1>6. CASE /\ p.wl2 + p.snd_wnd = old /\ p.rtime /\ p.lastack = a.ackno
           /\ ~ (k > 3) /\ k # 3
  <2>1. ~ (q.dupacks > 3) /\ q.dupacks # 3
    BY <1>2, <1>6
  <2>2. r = q
    BY <1>6, <2>1 DEF Duplicate
  <2>3. k \in 0..4
    BY <1>2, <1>6
  <2> HIDE DEF q, r, k
  <2>4. Kept(p, q, d, f)
    <3>1. SamePlace(p, Counting(p, k), d, f)
      BY ONLY PcbInv(p, d, f), d \in 0..Bytes, f \in BOOLEAN, <2>3, WithDupacks
    <3>2. q = Counting(p, k)
      BY <1>2 DEF Counting
    <3> QED BY ONLY <3>1, <3>2 DEF SamePlace
  <2> QED BY <2>2, <2>4 DEF r
<1> QED BY <1>3, <1>4, <1>5, <1>6

\* An ACK of nothing new, or of what has not been sent, frees nothing of unsent.
LEMMA FreesNothing ==
  ASSUME NEW p, NEW d \in 0..Bytes, NEW f \in BOOLEAN, NEW q, Ready(p, q, d, f),
         NEW a, a.ackno \in Nat,
         \/ a.ackno > p.snd_nxt
         \/ p.unsent # <<>> => a.ackno < End(p.unsent[1])
  PROVE  FreeUnsent(p, a) = p
<1> DEFINE v == p.unsent
           k == IF a.ackno <= p.snd_nxt THEN Acked(v, a.ackno) ELSE 0
           r == FreeUnsent(p, a)
<1>1. /\ p \in Pcb
      /\ p.oversize > 0 => p.unsent # <<>>
  BY DEF Ready, Rest
<1>2. v \in Seq(Segment) /\ p.snd_nxt \in Nat /\ p.queuelen \in Nat /\ p.oversize \in Nat
  <2>1. v \in Seq(Segment) /\ p.snd_nxt \in 0..Bytes + 1 /\ p.queuelen \in 0..QueueMax /\ p.oversize \in 0..Mss
    BY <1>1, PcbFields
  <2> QED BY <2>1
<1>3. k = 0
  <2>1. CASE a.ackno > p.snd_nxt
    BY <1>2, <2>1
  <2>2. CASE p.unsent # <<>> => a.ackno < End(p.unsent[1])
    BY <1>2, <2>2, NoneAcked
  <2> QED BY <2>1, <2>2
<1> HIDE DEF k
<1> DEFINE left == SubSeq(v, k + 1, Len(v))
           head == SubSeq(v, 1, k)
<1>4. left = v
  BY <1>2, <1>3
<1>5. head = <<>>
  BY <1>2, <1>3
<1>6. p.queuelen - Pbufs(head) = p.queuelen
  <2> HIDE DEF head
  <2>1. Pbufs(head) = 0
    BY <1>5, PbufsOfNone
  <2> QED BY <1>2, <2>1
<1>7. r = [p EXCEPT !.unsent = left, !.queuelen = @ - Pbufs(head),
                    !.oversize = IF left = <<>> THEN 0 ELSE @]
  BY DEF FreeUnsent, k
<1> DEFINE over == IF left = <<>> THEN 0 ELSE p.oversize
<1>8. over = p.oversize
  <2>1. CASE v = <<>>
    <3>1. p.oversize = 0
      BY <1>1, <1>2, <2>1
    <3>2. left = <<>>
      BY <1>4, <2>1
    <3> QED BY <3>1, <3>2
  <2>2. CASE v # <<>>
    <3>1. left # <<>>
      BY <1>4, <2>2
    <3> QED BY <3>1
  <2> QED BY <2>1, <2>2
<1>9. r = [p EXCEPT !.unsent = p.unsent, !.queuelen = p.queuelen, !.oversize = p.oversize]
  <2>1. r = [p EXCEPT !.unsent = left, !.queuelen = p.queuelen - Pbufs(head), !.oversize = over]
    BY <1>1, <1>7 DEF Pcb
  <2> HIDE DEF left, head, over, r
  <2> QED BY <1>4, <1>6, <1>8, <2>1
<1>10. [p EXCEPT !.unsent = p.unsent, !.queuelen = p.queuelen, !.oversize = p.oversize] = p
  BY <1>1 DEF Pcb
<1> HIDE DEF r
<1>11. r = p
  BY <1>9, <1>10
<1> QED BY <1>11 DEF r

\* What an ACK of something new changes before segments are freed.
Taken(p, a, x) ==
    /\ x \in Pcb
    /\ x.unsent = p.unsent /\ x.unacked = p.unacked /\ x.lastack = a.ackno
    /\ x.snd_nxt = p.snd_nxt /\ x.snd_lbb = p.snd_lbb /\ x.snd_wnd_max = p.snd_wnd_max
    /\ x.queuelen = p.queuelen /\ x.oversize = p.oversize
    /\ x.snd_buf = (p.snd_buf + a.ackno - p.lastack) % U16
    /\ x.state = p.state /\ x.wl2 = p.wl2 /\ x.snd_wnd = p.snd_wnd
    /\ x.cwnd >= 1 /\ x.ssthresh >= 1

LEMMA NewAckTaken ==
  ASSUME NEW p \in Pcb, p.cwnd >= 1, p.ssthresh >= 1,
         NEW a \in [ackno : 0..Bytes + 1, wnd : 0..Wnd]
  PROVE  \E x : Taken(p, a, x) /\ NewAck(p, a) = FreeAcked(x, a)
<1> DEFINE c == IF "in_fr" \in p.flags THEN p.ssthresh ELSE p.cwnd
           fl == p.flags \ {"in_fr"}
           buf == (p.snd_buf + a.ackno - p.lastack) % U16
           q == [p EXCEPT !.cwnd = IF "in_fr" \in p.flags THEN p.ssthresh ELSE @,
                          !.flags = @ \ {"in_fr"}, !.nrtx = 0, !.dupacks = 0,
                          !.snd_buf = (@ + a.ackno - p.lastack) % U16,
                          !.lastack = a.ackno]
           n == IF q.cwnd < q.ssthresh THEN Mss ELSE (Mss * Mss) \div q.cwnd
           x == Inflate(q, n)
<1>1. /\ p.cwnd \in 0..U16 - 1 /\ p.ssthresh \in 0..U16 - 1 /\ p.snd_buf \in 0..U16 - 1
      /\ p.lastack \in 0..Bytes + 1 /\ a.ackno \in 0..Bytes + 1 /\ p.flags \in SUBSET Flags
      /\ U16 \in Nat
  BY PcbFields, Sizes
<1>2. c \in 0..U16 - 1 /\ c >= 1 /\ c \in Nat
  <2>1. c = p.ssthresh \/ c = p.cwnd
    OBVIOUS
  <2>2. c \in 0..U16 - 1 /\ c >= 1
    BY <1>1, <2>1
  <2> HIDE DEF c
  <2> QED BY <1>1, <2>2
<1>3. fl \in SUBSET Flags /\ 0 \in 0..4 /\ 0 \in Nat
  BY <1>1
<1>4. buf \in 0..U16 - 1
  <2> DEFINE z == p.snd_buf + a.ackno - p.lastack
  <2>1. z \in Int /\ U16 > 0
    BY <1>1
  <2> HIDE DEF z
  <2>2. z % U16 \in 0..U16 - 1
    BY <1>1, <2>1
  <2> QED BY <2>2 DEF z
<1>5. q = [p EXCEPT !.cwnd = c, !.flags = fl, !.nrtx = 0, !.dupacks = 0, !.snd_buf = buf,
                    !.lastack = a.ackno]
  OBVIOUS
<1>6. NewAck(p, a) = FreeAcked(x, a)
  BY DEF NewAck
<1> HIDE DEF q, c, fl, buf
<1>7. q \in Pcb
  BY <1>1, <1>2, <1>3, <1>4, <1>5 DEF Pcb
<1>8. /\ q.unsent = p.unsent /\ q.unacked = p.unacked /\ q.lastack = a.ackno
      /\ q.snd_nxt = p.snd_nxt /\ q.snd_lbb = p.snd_lbb /\ q.snd_wnd_max = p.snd_wnd_max
      /\ q.queuelen = p.queuelen /\ q.oversize = p.oversize /\ q.snd_buf = buf
      /\ q.state = p.state /\ q.wl2 = p.wl2 /\ q.snd_wnd = p.snd_wnd
      /\ q.cwnd = c /\ q.ssthresh = p.ssthresh
  BY <1>5 DEF Pcb
<1>9. n \in Nat
  <2>1. q.cwnd \in Nat /\ q.cwnd >= 1
    BY <1>2, <1>8
  <2> DEFINE s == Mss * Mss
             b == q.cwnd
  <2>2. s \in Nat /\ Mss \in Nat
    BY Sizes
  <2>3. b \in Nat /\ b >= 1
    BY <2>1
  <2> HIDE DEF s, b
  <2>4. s \div b \in Nat
    BY <2>2, <2>3
  <2>5. (Mss * Mss) \div q.cwnd \in Nat
    BY <2>4 DEF s, b
  <2> QED BY <2>2, <2>5
<1> HIDE DEF n
<1> DEFINE g == x.cwnd
<1>10. x = [q EXCEPT !.cwnd = g] /\ g \in 0..U16 - 1 /\ g >= q.cwnd
  BY <1>7, <1>9, InflateGrows
<1> HIDE DEF g, x
<1>11. x \in Pcb
  BY <1>7, <1>10 DEF Pcb
<1>12. /\ x.unsent = q.unsent /\ x.unacked = q.unacked /\ x.lastack = q.lastack
       /\ x.snd_nxt = q.snd_nxt /\ x.snd_lbb = q.snd_lbb /\ x.snd_wnd_max = q.snd_wnd_max
       /\ x.queuelen = q.queuelen /\ x.oversize = q.oversize /\ x.snd_buf = q.snd_buf
       /\ x.state = q.state /\ x.wl2 = q.wl2 /\ x.snd_wnd = q.snd_wnd
       /\ x.cwnd = g /\ x.ssthresh = q.ssthresh
  BY <1>7, <1>10 DEF Pcb
<1>13. x.cwnd >= 1
  <2>1. g \in Nat /\ q.cwnd \in Nat /\ q.cwnd >= 1
    BY <1>1, <1>2, <1>8, <1>10
  <2> QED BY <1>10, <1>12, <2>1
<1>14. Taken(p, a, x)
  BY <1>8, <1>11, <1>12, <1>13 DEF Taken, buf
<1> QED BY <1>6, <1>14

\* What is freed of both queues.
FreedOf(x, ackno, y) ==
    LET i == Acked(x.unacked, ackno)
        j == Acked(x.unsent, ackno)
    IN /\ y \in Pcb
       /\ y.unacked = SubSeq(x.unacked, i + 1, Len(x.unacked))
       /\ y.unsent = SubSeq(x.unsent, j + 1, Len(x.unsent))
       /\ y.lastack = x.lastack
       /\ y.snd_nxt = x.snd_nxt /\ y.snd_lbb = x.snd_lbb /\ y.snd_wnd_max = x.snd_wnd_max
       /\ y.queuelen = Pbufs(y.unacked) + Pbufs(y.unsent)
       /\ y.oversize = IF y.unsent = <<>> THEN 0 ELSE x.oversize
       /\ y.snd_buf = x.snd_buf
       /\ y.state = x.state /\ y.wl2 = x.wl2 /\ y.snd_wnd = x.snd_wnd
       /\ y.cwnd = x.cwnd /\ y.ssthresh = x.ssthresh

LEMMA BothFreed ==
  ASSUME NEW x \in Pcb, NEW a, a.ackno \in Nat, a.ackno <= x.snd_nxt,
         x.queuelen = Pbufs(x.unacked) + Pbufs(x.unsent)
  PROVE  FreedOf(x, a.ackno, FreeUnsent(FreeAcked(x, a), a))
<1> DEFINE u == x.unacked
           v == x.unsent
           i == Acked(u, a.ackno)
           j == Acked(v, a.ackno)
           y == FreeAcked(x, a)
           z == FreeUnsent(y, a)
           u1 == SubSeq(u, i + 1, Len(u))
           v1 == SubSeq(v, j + 1, Len(v))
           h == Pbufs(SubSeq(u, 1, i))
           g == Pbufs(SubSeq(v, 1, j))
           b == i < Len(u)
           over == IF v1 = <<>> THEN 0 ELSE x.oversize
           held == x.queuelen - h
           left == (x.queuelen - h) - g
<1>1. /\ u \in Seq(Segment) /\ v \in Seq(Segment) /\ x.queuelen \in 0..QueueMax
      /\ x.oversize \in 0..Mss
  BY PcbFields
<1>2. i \in 0..Len(u) /\ j \in 0..Len(v)
  BY <1>1, AckedIs
<1> HIDE DEF i, j
<1>3. /\ u1 \in Seq(Segment) /\ SubSeq(u, 1, i) \in Seq(Segment)
      /\ SubSeq(u, 1, i) \o u1 = u
  <2>1. Pieces(Segment, u, i, SubSeq(u, 1, i), u1)
    BY ONLY <1>1, <1>2, CutPieces
  <2> HIDE DEF u1
  <2> QED BY ONLY <2>1 DEF Pieces
<1>4. /\ v1 \in Seq(Segment) /\ SubSeq(v, 1, j) \in Seq(Segment)
      /\ SubSeq(v, 1, j) \o v1 = v
  <2>1. Pieces(Segment, v, j, SubSeq(v, 1, j), v1)
    BY ONLY <1>1, <1>2, CutPieces
  <2> HIDE DEF v1
  <2> QED BY ONLY <2>1 DEF Pieces
<1>5. /\ h \in Nat /\ Pbufs(u1) \in Nat /\ h + Pbufs(u1) = Pbufs(u)
      /\ g \in Nat /\ Pbufs(v1) \in Nat /\ g + Pbufs(v1) = Pbufs(v)
  <2> DEFINE uh == SubSeq(u, 1, i)
             vh == SubSeq(v, 1, j)
  <2>1. uh \in Seq(Segment) /\ vh \in Seq(Segment) /\ u1 \in Seq(Segment) /\ v1 \in Seq(Segment)
    BY <1>3, <1>4
  <2>2. uh \o u1 = u /\ vh \o v1 = v
    BY <1>3, <1>4
  <2>3. h = Pbufs(uh) /\ g = Pbufs(vh)
    OBVIOUS
  <2> HIDE DEF uh, vh, h, g, u1, v1
  <2>4. Pbufs(uh \o u1) = Pbufs(uh) + Pbufs(u1) /\ Pbufs(vh \o v1) = Pbufs(vh) + Pbufs(v1)
    BY ONLY <2>1, PbufsAdd
  <2>5. Pbufs(uh) \in Nat /\ Pbufs(u1) \in Nat /\ Pbufs(vh) \in Nat /\ Pbufs(v1) \in Nat
    BY ONLY <2>1, PbufsIsNat
  <2> QED BY <2>2, <2>3, <2>4, <2>5
<1>6. y = [x EXCEPT !.unacked = u1, !.queuelen = held, !.rtime = b]
  BY DEF FreeAcked, i
<1>7. b \in BOOLEAN /\ over \in 0..Mss
  <2>1. 0 \in 0..Mss
    BY Sizes
  <2> QED BY <1>1, <2>1
<1> HIDE DEF h, g, u1, v1, b, over, y
<1>8. /\ held \in 0..QueueMax /\ left \in 0..QueueMax /\ left = Pbufs(u1) + Pbufs(v1)
  <2> DEFINE m == x.queuelen
             e == Pbufs(u1)
             c == Pbufs(v1)
  <2>1. m \in 0..QueueMax /\ m = (h + e) + (g + c) /\ h \in Nat /\ e \in Nat /\ g \in Nat /\ c \in Nat
    BY <1>1, <1>5
  <2> HIDE DEF m, e, c
  <2>2. m - h \in 0..QueueMax /\ (m - h) - g \in 0..QueueMax /\ (m - h) - g = e + c
    BY <2>1, Sizes
  <2> QED BY <2>2 DEF m, e, c
<1>9. y.unsent = v /\ y.snd_nxt = x.snd_nxt /\ y.queuelen = held /\ y.oversize = x.oversize
  BY <1>6 DEF Pcb
<1>10. z = [y EXCEPT !.unsent = v1, !.queuelen = held - g, !.oversize = over]
  BY <1>9 DEF FreeUnsent, v1, g, over, j
<1>11. z = [x EXCEPT !.unacked = u1, !.queuelen = left, !.rtime = b, !.unsent = v1, !.oversize = over]
  BY <1>6, <1>10 DEF Pcb
<1> HIDE DEF held, left, z
<1>12. z \in Pcb
  BY <1>3, <1>4, <1>7, <1>8, <1>11 DEF Pcb
<1>13. /\ z.unacked = u1 /\ z.unsent = v1 /\ z.lastack = x.lastack
       /\ z.snd_nxt = x.snd_nxt /\ z.snd_lbb = x.snd_lbb /\ z.snd_wnd_max = x.snd_wnd_max
       /\ z.queuelen = left /\ z.oversize = over /\ z.snd_buf = x.snd_buf
       /\ z.state = x.state /\ z.wl2 = x.wl2 /\ z.snd_wnd = x.snd_wnd
       /\ z.cwnd = x.cwnd /\ z.ssthresh = x.ssthresh
  BY <1>11 DEF Pcb
<1>14. FreedOf(x, a.ackno, z)
  BY <1>8, <1>12, <1>13 DEF FreedOf, u1, v1, i, j, over
<1> QED BY <1>14 DEF z, y

\* An ACK of something new keeps the line, which then begins where it ends.
LEMMA NewAckKeeps ==
  ASSUME NEW p, NEW d \in 0..Bytes, NEW f \in BOOLEAN, PcbInv(p, d, f),
         NEW a \in [ackno : 0..Bytes + 1, wnd : 0..Wnd],
         p.lastack < a.ackno, a.ackno <= p.snd_nxt,
         NEW w, Updated(p, a, w),
         p.wl2 < a.ackno => p.wl2 + p.snd_wnd <= a.ackno + a.wnd
  PROVE  LET r == FreeUnsent(NewAck(w, a), a)
         IN /\ PcbInv(r, d, f)
            /\ Reach(p) <= Reach(r)
            /\ r.wl2 = w.wl2 /\ r.snd_wnd = w.snd_wnd /\ r.state = p.state
<1> DEFINE u == p.unacked
           v == p.unsent
           n == a.ackno
<1>1. /\ p \in Pcb /\ u \in Seq(Segment) /\ v \in Seq(Segment)
      /\ p.queuelen = Pbufs(u) + Pbufs(v)
      /\ p.oversize > 0 => v # <<>> /\ v[Len(v)].len + p.oversize <= Mss1
      /\ p.snd_wnd_max = Wnd /\ p.cwnd >= 1 /\ p.ssthresh >= 1
      /\ Tiled(u \o v, d, f)
      /\ Spans(u \o v, p.lastack, d + Flag(f))
      /\ d \in Nat /\ p.lastack \in Nat /\ p.snd_nxt \in Nat /\ p.wl2 \in Nat
      /\ p.lastack <= p.wl2 /\ p.lastack <= p.snd_nxt /\ p.snd_nxt <= d + Flag(f)
      /\ Sent(u, p.lastack, p.snd_nxt, p.snd_wnd)
      /\ ~ f => p.snd_lbb = d
      /\ p.state = "ESTABLISHED" => ~ f /\ p.snd_buf = SndBuf - (p.snd_lbb - p.lastack)
      /\ Reach(p) \in Nat
  BY PcbFacts
<1>2. n \in 0..Bytes + 1 /\ n \in Nat /\ a.wnd \in 0..Wnd /\ Flag(f) \in 0..1
  BY Sizes DEF Flag
<1>3. PICK x : Taken(w, a, x) /\ NewAck(w, a) = FreeAcked(x, a)
  BY <1>1, NewAckTaken DEF Updated
<1>4. /\ x \in Pcb
      /\ x.unsent = v /\ x.unacked = u /\ x.lastack = n
      /\ x.snd_nxt = p.snd_nxt /\ x.snd_lbb = p.snd_lbb /\ x.snd_wnd_max = p.snd_wnd_max
      /\ x.queuelen = p.queuelen /\ x.oversize = p.oversize
      /\ x.snd_buf = (p.snd_buf + n - p.lastack) % U16
      /\ x.state = p.state /\ x.wl2 = w.wl2 /\ x.snd_wnd = w.snd_wnd
      /\ x.cwnd >= 1 /\ x.ssthresh >= 1
  BY <1>3 DEF Taken, Updated
<1> DEFINE r == FreeUnsent(FreeAcked(x, a), a)
<1>5. FreedOf(x, n, r)
  BY <1>1, <1>2, <1>4, BothFreed
<1> HIDE DEF r
<1> DEFINE i == Acked(u, n)
           j == Acked(v, n)
           u1 == SubSeq(u, i + 1, Len(u))
           v1 == SubSeq(v, j + 1, Len(v))
           q == u1 \o v1
           to == d + Flag(f)
<1>6. /\ r \in Pcb
      /\ r.unacked = u1 /\ r.unsent = v1 /\ r.lastack = n
      /\ r.snd_nxt = p.snd_nxt /\ r.snd_lbb = p.snd_lbb /\ r.snd_wnd_max = p.snd_wnd_max
      /\ r.queuelen = Pbufs(r.unacked) + Pbufs(r.unsent)
      /\ r.oversize = IF v1 = <<>> THEN 0 ELSE p.oversize
      /\ r.snd_buf = (p.snd_buf + n - p.lastack) % U16
      /\ r.state = p.state /\ r.wl2 = w.wl2 /\ r.snd_wnd = w.snd_wnd
      /\ r.cwnd >= 1 /\ r.ssthresh >= 1
  BY <1>4, <1>5 DEF FreedOf
<1>7. i \in 0..Len(u) /\ j \in 0..Len(v)
  BY <1>1, <1>2, AckedIs
<1>8. to \in Nat /\ n <= to /\ p.lastack <= n
  BY <1>1, <1>2
<1>9. Tiled(q, d, f) /\ Spans(q, n, to) /\ SameEnd(q, u \o v)
  <2> DEFINE old == p.lastack
  <2>1. /\ u \in Seq(Segment) /\ v \in Seq(Segment) /\ d \in Nat /\ f \in BOOLEAN
        /\ Tiled(u \o v, d, f) /\ old \in Nat /\ to \in Nat /\ Spans(u \o v, old, to)
        /\ n \in Nat /\ old <= n /\ n <= to
    BY <1>1, <1>2, <1>8
  <2> HIDE DEF u, v, to, n, old
  <2>2. Tiled(q, d, f)
    BY ONLY <2>1, Freed
  <2>3. Spans(q, n, to)
    BY ONLY <2>1, Freed
  <2>4. SameEnd(q, u \o v)
    BY ONLY <2>1, Freed
  <2> QED BY <2>2, <2>3, <2>4
<1>10. Tiled(q, d, f) /\ Spans(q, n, to)
  BY <1>9
<1>11. SameEnd(q, u \o v)
  BY <1>9
<1> HIDE DEF i, j
<1>12. /\ u1 \in Seq(Segment) /\ Len(u1) = Len(u) - i /\ Len(u) \in Nat
       /\ \A k \in 1..Len(u) - i : u1[k] = u[i + k] /\ u[i + k] \in Segment
  <2> HIDE DEF u
  <2>1. u \in Seq(Segment) /\ i \in 0..Len(u)
    BY <1>1, <1>7
  <2> QED BY ONLY <2>1, CutAt
<1>13. /\ v1 \in Seq(Segment) /\ Len(v1) = Len(v) - j /\ Len(v) \in Nat
       /\ \A k \in 1..Len(v) - j : v1[k] = v[j + k] /\ v[j + k] \in Segment
  <2> HIDE DEF v
  <2>1. v \in Seq(Segment) /\ j \in 0..Len(v)
    BY <1>1, <1>7
  <2> QED BY ONLY <2>1, CutAt
<1> HIDE DEF u1, v1
<1>14. v1 # <<>> => v # <<>> /\ v1[Len(v1)] = v[Len(v)]
  <2> SUFFICES ASSUME v1 # <<>> PROVE v # <<>> /\ v1[Len(v1)] = v[Len(v)]
    OBVIOUS
  <2>1. Len(v1) >= 1 /\ Len(v1) \in Nat
    BY <1>13, FrontLast
  <2>2. Len(v1) \in 1..Len(v) - j /\ j + Len(v1) = Len(v) /\ Len(v) # 0
    BY <1>7, <1>13, <2>1
  <2> QED BY <1>13, <2>2
<1>15. p.lastack + p.snd_wnd <= n + w.snd_wnd
  <2> DEFINE l == p.lastack
             s == p.snd_wnd
             b == p.wl2
             e == a.wnd
             g == w.snd_wnd
  <2>1. /\ l \in Nat /\ s \in Nat /\ b \in Nat /\ e \in Nat /\ n \in Nat
        /\ l < n /\ l <= b /\ (b < n => b + s <= n + e)
        /\ \/ b < n /\ g = e
           \/ b = n /\ g = e /\ s <= g
           \/ n <= b /\ g = s
    <3>1. p.snd_wnd \in 0..Wnd
      BY <1>1, PcbFields
    <3> QED BY <1>1, <1>2, <3>1, Sizes DEF Updated
  <2> HIDE DEF l, s, b, e, g, n
  <2>2. l + s <= n + g
    BY <2>1
  <2> QED BY <2>2 DEF l, s, g, n
<1>16. n <= w.wl2
  <2>1. \/ p.wl2 < n /\ w.wl2 = n
        \/ p.wl2 = n /\ w.wl2 = p.wl2
        \/ n <= p.wl2 /\ w.wl2 = p.wl2
    BY DEF Updated
  <2> QED BY <1>1, <1>2, <2>1
<1>17. Sent(u1, n, p.snd_nxt, w.snd_wnd)
  <2> SUFFICES ASSUME NEW k \in 1..Len(u1)
               PROVE  End(u1[k]) <= p.snd_nxt /\ u1[k].seqno + u1[k].len <= n + w.snd_wnd
    BY DEF Sent
  <2>1. k \in 1..Len(u) - i /\ i + k \in 1..Len(u)
    BY <1>7, <1>12
  <2>2. u1[k] = u[i + k] /\ u[i + k] \in Segment
    BY <1>12, <2>1
  <2>3. End(u[i + k]) <= p.snd_nxt /\ u[i + k].seqno + u[i + k].len <= p.lastack + p.snd_wnd
    BY <1>1, <2>1 DEF Sent
  <2> DEFINE m == u[i + k].seqno + u[i + k].len
             b == p.lastack + p.snd_wnd
             c == n + w.snd_wnd
  <2>4. m \in Nat
    <3>1. u[i + k].seqno \in Nat /\ u[i + k].len \in Nat
      BY <2>2, SegmentFields
    <3> DEFINE m1 == u[i + k].seqno
               m2 == u[i + k].len
    <3>2. m1 \in Nat /\ m2 \in Nat
      BY <3>1
    <3> HIDE DEF m1, m2
    <3>3. m1 + m2 \in Nat
      BY ONLY <3>2
    <3> QED BY <3>3 DEF m1, m2
  <2>5. b \in Nat /\ c \in Nat
    <3>1. w \in Pcb
      BY DEF Updated
    <3>2. p.snd_wnd \in 0..Wnd /\ w.snd_wnd \in 0..Wnd
      BY <1>1, <3>1, PcbFields
    <3>3. p.snd_wnd \in Nat /\ w.snd_wnd \in Nat
      BY <3>2
    <3>4. p.lastack \in Nat /\ n \in Nat
      BY <1>1, <1>2
    <3> DEFINE a1 == p.lastack
               a2 == p.snd_wnd
               a3 == w.snd_wnd
    <3>5. a1 \in Nat /\ a2 \in Nat /\ a3 \in Nat /\ n \in Nat
      BY ONLY <3>3, <3>4
    <3> HIDE DEF n, a1, a2, a3
    <3>6. a1 + a2 \in Nat /\ n + a3 \in Nat
      BY ONLY <3>5
    <3> QED BY ONLY <3>6 DEF b, c, a1, a2, a3
  <2>6. m <= b /\ b <= c
    BY <1>15, <2>3
  <2> HIDE DEF m, b, c
  <2>7. m <= c
    BY <2>4, <2>5, <2>6
  <2> QED BY <2>2, <2>3, <2>7 DEF m, c
<1>18. r.state = "ESTABLISHED" => ~ f /\ r.snd_buf = SndBuf - (r.snd_lbb - r.lastack)
  <2> SUFFICES ASSUME p.state = "ESTABLISHED"
               PROVE  ~ f /\ (p.snd_buf + n - p.lastack) % U16 = SndBuf - (p.snd_lbb - n)
    BY <1>6
  <2>1. ~ f /\ p.snd_buf = SndBuf - (p.snd_lbb - p.lastack) /\ p.snd_lbb = d
    BY <1>1
  <2>2. Flag(f) = 0
    BY <2>1 DEF Flag
  <2> DEFINE l == p.lastack
             s == p.snd_buf
             z == s + n - l
  <2>3. /\ l \in Nat /\ s \in Nat /\ n \in Nat /\ d \in Nat /\ l < n /\ n <= d
        /\ s = SndBuf - (d - l)
        /\ SndBuf \in Nat /\ SndBuf < U16 /\ U16 \in Nat
    <3>1. p.snd_buf \in 0..U16 - 1
      BY <1>1, PcbFields
    <3>2. n <= d
      BY <1>1, <1>2, <2>2
    <3> QED BY <1>1, <1>2, <2>1, <3>1, <3>2, Sizes
  <2>4. z = (s + n) - l
    BY <2>3
  <2> HIDE DEF l, s, z, n
  <2>5. z \in 0..U16 - 1 /\ z = SndBuf - (d - n)
    BY <2>3, <2>4
  <2>6. z % U16 = z
    <3>1. \A c \in Nat : \A b \in 0..c - 1 : b % c = b
      OBVIOUS
    <3> QED BY <2>3, <2>5, <3>1
  <2> QED BY <2>1, <2>5, <2>6 DEF l, s, z, n
<1>19. Rest(r, f)
  <2>1. r.lastack <= r.wl2
    BY <1>6, <1>16
  <2>2. r.oversize > 0 => r.unsent # <<>> /\ r.unsent[Len(r.unsent)].len + r.oversize <= Mss1
    <3> SUFFICES ASSUME r.oversize > 0
                 PROVE  v1 # <<>> /\ v1[Len(v1)].len + r.oversize <= Mss1
      BY <1>6
    <3>1. v1 # <<>>
      BY <1>6
    <3>2. r.oversize = p.oversize
      BY <1>6, <3>1
    <3> QED BY <1>1, <1>14, <3>1, <3>2
  <2> QED BY <1>1, <1>6, <1>18, <2>1, <2>2 DEF Rest
<1>20. Line(r, q, d, f)
  <2>1. f => \/ q = <<>> /\ p.snd_lbb \in {d, d + 1}
             \/ q # <<>> /\ p.snd_lbb = d + Flag(q[Len(q)].len = 0)
    <3> SUFFICES ASSUME f
                 PROVE  \/ q = <<>> /\ p.snd_lbb \in {d, d + 1}
                        \/ q # <<>> /\ p.snd_lbb = d + Flag(q[Len(q)].len = 0)
      OBVIOUS
    <3> DEFINE o == u \o v
    <3>1. \/ o = <<>> /\ p.snd_lbb \in {d, d + 1}
          \/ o # <<>> /\ p.snd_lbb = d + Flag(o[Len(o)].len = 0)
      BY DEF PcbInv, Line
    <3>2. q # <<>> => o # <<>> /\ q[Len(q)] = o[Len(o)]
      BY <1>11 DEF u1, v1, i, j, SameEnd
    <3>3. p.snd_lbb \in {d, d + 1}
      <4> HIDE DEF o
      <4>1. Flag(o[Len(o)].len = 0) \in {0, 1}
        BY DEF Flag
      <4> QED BY <1>1, <3>1, <4>1
    <3> HIDE DEF o, q
    <3> QED BY <3>1, <3>2, <3>3
  <2>2. n <= r.snd_nxt /\ r.snd_nxt <= d + Flag(f)
    BY <1>1, <1>6
  <2> HIDE DEF q
  <2> QED BY <1>1, <1>6, <1>9, <1>10, <1>17, <2>1, <2>2 DEF Line
<1>21. PcbInv(r, d, f)
  BY <1>6, <1>19, <1>20 DEF PcbInv
<1>22. Reach(p) <= Reach(r)
  <2>1. Probing(p) => Probing(r)
    <3> SUFFICES ASSUME Probing(p) PROVE Probing(r)
      OBVIOUS
    <3>1. u = <<>> /\ v # <<>> /\ v[1].seqno = p.snd_nxt
      BY DEF Probing
    <3>2. v[1] \in Segment /\ n < End(v[1])
      <4>1. Len(v) >= 1 /\ Len(v) \in Nat
        BY <1>1, <3>1, FrontLast
      <4>2. 1 \in 1..Len(v)
        BY <4>1
      <4>3. v[1] \in Segment
        BY <1>1, <4>2
      <4>4. u \o v = v
        BY <1>1, <3>1, ConcatEmptySeq
      <4>5. TcpLen(v[1]) > 0
        BY <1>1, <4>2, <4>4 DEF Tiled, Whole
      <4>6. v[1].seqno \in Nat /\ TcpLen(v[1]) \in Nat /\ End(v[1]) = v[1].seqno + TcpLen(v[1])
        BY <4>3, SegmentFields
      <4> QED BY <1>1, <1>2, <3>1, <4>3, <4>5, <4>6
    <3>3. j = 0
      BY <1>1, <1>2, <3>2, NoneAcked DEF j
    <3>4. Len(u) = 0 /\ Len(u1) = 0
      BY <1>7, <1>12, <3>1
    <3>5. u1 = <<>>
      BY <1>12, <3>4
    <3>6. v1 # <<>> /\ v1[1] = v[1]
      <4>1. Len(v) >= 1 /\ Len(v) \in Nat
        BY <1>1, <3>1, FrontLast
      <4>2. 1 \in 1..Len(v) - j /\ j + 1 = 1 /\ Len(v1) # 0
        BY <1>13, <3>3, <4>1
      <4> QED BY <1>13, <4>2
    <3> QED BY <1>6, <3>1, <3>5, <3>6 DEF Probing
  <2>2. Flag(Probing(p)) \in 0..1 /\ Flag(Probing(r)) \in 0..1 /\ Flag(Probing(p)) <= Flag(Probing(r))
    BY <2>1 DEF Flag
  <2> QED BY <1>1, <1>6, <2>2 DEF Reach
<1>23. r = FreeUnsent(NewAck(w, a), a)
  BY <1>3 DEF r
<1> QED BY <1>6, <1>21, <1>22, <1>23

\* The window of an ACK changes nothing of the line, when nothing is in flight
\* or the ACK is an old one.
LEMMA WindowKeeps ==
  ASSUME NEW p, NEW d \in 0..Bytes, NEW f \in BOOLEAN, PcbInv(p, d, f),
         NEW a \in [ackno : 0..Bytes + 1, wnd : 0..Wnd], NEW w, Updated(p, a, w),
         a.ackno <= p.lastack \/ p.unacked = <<>>
  PROVE  PcbInv(w, d, f) /\ Reach(w) = Reach(p)
<1>1. /\ p \in Pcb /\ p.lastack \in Nat /\ p.wl2 \in Nat /\ p.lastack <= p.wl2
      /\ p.unacked \in Seq(Segment) /\ Sent(p.unacked, p.lastack, p.snd_nxt, p.snd_wnd)
      /\ d \in Nat
  <2>1. p \in Pcb
    BY PcbFacts
  <2>2. p.wl2 \in 0..Bytes + 1
    BY <2>1, PcbFields
  <2>3. p.wl2 \in Nat /\ d \in Nat
    BY <2>2, Sizes
  <2>4. /\ p.lastack \in Nat /\ p.lastack <= p.wl2 /\ p.unacked \in Seq(Segment)
        /\ Sent(p.unacked, p.lastack, p.snd_nxt, p.snd_wnd)
    BY PcbFacts
  <2> QED BY <2>1, <2>3, <2>4
<1>2. p.snd_wnd \in 0..Wnd /\ a.wnd \in 0..Wnd /\ a.ackno \in 0..Bytes + 1 /\ Wnd \in Nat /\ Bytes \in Nat
  BY <1>1, PcbFields, Sizes
<1>3. Rest(p, f) /\ Line(p, p.unacked \o p.unsent, d, f)
  BY DEF PcbInv
<1>4. p.lastack <= w.wl2
  BY <1>1, <1>2 DEF Updated
<1>5. Sent(w.unacked, w.lastack, w.snd_nxt, w.snd_wnd)
  <2>1. CASE p.unacked = <<>>
    BY <2>1 DEF Sent, Updated
  <2>2. CASE a.ackno <= p.lastack
    <3>1. p.snd_wnd <= w.snd_wnd /\ w.snd_wnd \in Nat /\ p.snd_wnd \in Nat
      BY <1>1, <1>2, <2>2 DEF Updated
    <3> SUFFICES ASSUME NEW i \in 1..Len(p.unacked)
                 PROVE  /\ End(p.unacked[i]) <= p.snd_nxt
                        /\ p.unacked[i].seqno + p.unacked[i].len <= p.lastack + w.snd_wnd
      BY DEF Sent, Updated
    <3>2. /\ End(p.unacked[i]) <= p.snd_nxt
          /\ p.unacked[i].seqno + p.unacked[i].len <= p.lastack + p.snd_wnd
      BY <1>1 DEF Sent
    <3>3. p.unacked[i] \in Segment
      BY <1>1
    <3>4. p.unacked[i].seqno \in Nat /\ p.unacked[i].len \in Nat
      BY <3>3, SegmentFields
    <3> DEFINE m == p.unacked[i].seqno + p.unacked[i].len
               b == p.snd_wnd
               c == w.snd_wnd
               l == p.lastack
    <3>5. m \in Nat /\ b \in Nat /\ c \in Nat /\ l \in Nat /\ m <= l + b /\ b <= c
      <4>1. m \in Nat
        <5> DEFINE y == p.unacked[i].seqno
                   z == p.unacked[i].len
        <5>1. y \in Nat /\ z \in Nat
          BY ONLY <3>4
        <5> HIDE DEF y, z
        <5>2. y + z \in Nat
          BY ONLY <5>1
        <5> QED BY ONLY <5>2 DEF m, y, z
      <4>2. b \in Nat /\ c \in Nat /\ b <= c
        BY ONLY <3>1
      <4>3. l \in Nat /\ m <= l + b
        BY <1>1, <3>2
      <4> QED BY <4>1, <4>2, <4>3
    <3> HIDE DEF m, b, c, l
    <3>6. m <= l + c
      BY <3>5
    <3> QED BY <3>2, <3>6 DEF m, c, l
  <2> QED BY <2>1, <2>2
<1>6. /\ w \in Pcb
      /\ w.unsent = p.unsent /\ w.unacked = p.unacked /\ w.lastack = p.lastack
      /\ w.snd_nxt = p.snd_nxt /\ w.snd_lbb = p.snd_lbb /\ w.snd_wnd_max = p.snd_wnd_max
      /\ w.queuelen = p.queuelen /\ w.oversize = p.oversize /\ w.snd_buf = p.snd_buf
      /\ w.state = p.state /\ w.cwnd = p.cwnd /\ w.ssthresh = p.ssthresh
  BY DEF Updated
<1>7. Rest(w, f)
  BY <1>3, <1>4, <1>6 DEF Rest
<1>8. Line(w, w.unacked \o w.unsent, d, f)
  BY <1>3, <1>5, <1>6 DEF Line
<1>9. Reach(w) = Reach(p)
  BY <1>6 DEF Reach, Probing
<1> QED BY <1>7, <1>8, <1>9 DEF PcbInv

\* A connection whose FIN is acknowledged is otherwise the same.
LEMMA StateKeeps ==
  ASSUME NEW p, NEW q, NEW d \in 0..Bytes, NEW f \in BOOLEAN, Ready(p, q, d, f)
  PROVE  LET r == [p EXCEPT !.state = "FIN_WAIT_2"]
         IN /\ Ready(r, q, d, f) /\ Reach(r) = Reach(p)
            /\ r.wl2 = p.wl2 /\ r.snd_wnd = p.snd_wnd /\ r.state = "FIN_WAIT_2"
<1> DEFINE r == [p EXCEPT !.state = "FIN_WAIT_2"]
<1>1. Rest(p, f) /\ Line(p, q, d, f) /\ p \in Pcb
  BY DEF Ready, Rest
<1>2. r \in Pcb
  <2>1. "FIN_WAIT_2" \in States
    BY DEF States
  <2> QED BY <1>1, <2>1 DEF Pcb
<1>3. /\ r.unsent = p.unsent /\ r.unacked = p.unacked /\ r.lastack = p.lastack
      /\ r.snd_nxt = p.snd_nxt /\ r.snd_lbb = p.snd_lbb /\ r.wl2 = p.wl2 /\ r.snd_wnd = p.snd_wnd
      /\ r.snd_wnd_max = p.snd_wnd_max /\ r.queuelen = p.queuelen /\ r.oversize = p.oversize
      /\ r.snd_buf = p.snd_buf /\ r.cwnd = p.cwnd /\ r.ssthresh = p.ssthresh
      /\ r.flags = p.flags /\ r.state = "FIN_WAIT_2"
  BY <1>1 DEF Pcb
<1> HIDE DEF r
<1>4. Rest(r, f)
  BY <1>1, <1>2, <1>3 DEF Rest
<1>5. Line(r, q, d, f)
  BY <1>1, <1>3 DEF Line
<1>6. Reach(r) = Reach(p)
  BY <1>3 DEF Reach, Probing
<1>7. \/ q = r.unacked \o r.unsent
      \/ Jumped(r.unacked, r.unsent, q) /\ Fits(r, r.unsent[1]) /\ MayGo(r, 1)
  BY <1>3 DEF Ready, Fits, MayGo
<1>8. Ready(r, q, d, f)
  BY <1>4, <1>5, <1>7 DEF Ready
<1> QED BY <1>3, <1>6, <1>8 DEF r

\* What a call leaves that ends in tcp_output.
Moved(p, r, a, d, f) ==
    /\ \E q : Ready(r, q, d, f)
    /\ Reach(p) <= Reach(r)
    /\ \/ r.wl2 = p.wl2 /\ r.snd_wnd = p.snd_wnd
       \/ r.wl2 = a.ackno /\ r.snd_wnd = a.wnd

\* tcp_receive of an ACK that the peer may have sent.
LEMMA ReceiveKeeps ==
  ASSUME NEW p, NEW d \in 0..Bytes, NEW f \in BOOLEAN, PcbInv(p, d, f),
         NEW a \in [ackno : 0..Bytes + 1, wnd : 0..Wnd], a.ackno <= Reach(p),
         p.wl2 < a.ackno => p.wl2 + p.snd_wnd <= a.ackno + a.wnd
  PROVE  Moved(p, Receive(p, a), a, d, f)
<1> DEFINE w == UpdateWindow(p, a)
           q == IF a.ackno <= p.lastack THEN Duplicate(w, a, p.wl2 + p.snd_wnd)
                ELSE IF a.ackno <= p.snd_nxt THEN NewAck(w, a)
                ELSE w
           r == FreeUnsent(q, a)
<1>1. /\ p \in Pcb /\ p.snd_wnd_max = Wnd /\ p.lastack \in Nat /\ p.snd_nxt \in Nat
      /\ Reach(p) \in Nat /\ a.ackno \in Nat /\ Reach(p) <= p.snd_nxt + 1
  BY PcbFacts, Sizes
<1>2. Updated(p, a, w)
  BY <1>1, WindowUpdated
<1>3. /\ w.lastack = p.lastack /\ w.snd_nxt = p.snd_nxt /\ w.state = p.state
      /\ \/ w.wl2 = p.wl2 /\ w.snd_wnd = p.snd_wnd
         \/ w.wl2 = a.ackno /\ w.snd_wnd = a.wnd
  BY <1>2 DEF Updated
<1> HIDE DEF w
<1>4. Moved(p, r, a, d, f)
  <2>1. CASE a.ackno <= p.lastack
    <3>1. PcbInv(w, d, f) /\ Reach(w) = Reach(p)
      BY <1>2, <2>1, WindowKeeps
    <3>2. q = Duplicate(w, a, p.wl2 + p.snd_wnd)
      BY <2>1
    <3>3. Kept(w, q, d, f)
      BY <3>1, <3>2, DuplicateKeeps
    <3> HIDE DEF q
    <3>4. PICK o : Ready(q, o, d, f)
      BY <3>3 DEF Kept
    <3>5. q.unsent # <<>> => a.ackno < End(q.unsent[1])
      <4> SUFFICES ASSUME q.unsent # <<>> PROVE a.ackno < End(q.unsent[1])
        OBVIOUS
      <4>1. w.lastack < End(q.unsent[1])
        BY <3>3 DEF Kept
      <4>2. End(q.unsent[1]) \in Nat
        <5>1. q \in Pcb
          BY <3>4 DEF Ready, Rest
        <5>2. q.unsent \in Seq(Segment)
          BY <5>1, PcbFields
        <5>3. 1 \in 1..Len(q.unsent)
          BY <5>2, FrontLast
        <5>4. q.unsent[1] \in Segment
          BY <5>2, <5>3
        <5> QED BY <5>4, SegmentFields
      <4> QED BY <1>1, <1>3, <2>1, <4>1, <4>2
    <3>6. FreeUnsent(q, a) = q
      BY <1>1, <3>4, <3>5, FreesNothing
    <3> QED BY <1>3, <3>1, <3>3, <3>6 DEF Kept, Moved
  <2>2. CASE p.lastack < a.ackno /\ a.ackno <= p.snd_nxt
    <3>1. q = NewAck(w, a)
      BY <1>1, <2>2
    <3>2. r = FreeUnsent(NewAck(w, a), a)
      BY <3>1
    <3> HIDE DEF r, q
    <3>3. /\ PcbInv(r, d, f) /\ Reach(p) <= Reach(r)
          /\ r.wl2 = w.wl2 /\ r.snd_wnd = w.snd_wnd
      BY <1>2, <2>2, <3>2, NewAckKeeps
    <3>4. Ready(r, r.unacked \o r.unsent, d, f)
      BY <3>3, InOrder
    <3> QED BY <1>3, <3>3, <3>4 DEF Moved
  <2>3. CASE p.snd_nxt < a.ackno
    <3>1. p.unacked = <<>>
      <4>1. Reach(p) # p.snd_nxt
        BY <1>1, <2>3
      <4> QED BY <1>1, <4>1 DEF Reach, Flag, Probing
    <3>2. PcbInv(w, d, f) /\ Reach(w) = Reach(p)
      BY <1>2, <3>1, WindowKeeps
    <3>3. q = w
      <4>1. p.lastack <= p.snd_nxt
        BY PcbFacts
      <4>2. ~ (a.ackno <= p.lastack) /\ ~ (a.ackno <= p.snd_nxt)
        BY <1>1, <2>3, <4>1
      <4> QED BY <4>2
    <3> HIDE DEF q
    <3>4. Ready(w, w.unacked \o w.unsent, d, f)
      BY <3>2, InOrder
    <3>5. a.ackno > w.snd_nxt
      BY <1>1, <1>3, <2>3
    <3>6. FreeUnsent(w, a) = w
      BY <1>1, <3>4, <3>5, FreesNothing
    <3>7. Reach(p) <= Reach(w)
      BY <1>1, <3>2
    <3> QED BY <1>3, <3>3, <3>4, <3>6, <3>7 DEF Moved
  <2> QED BY <1>1, <2>1, <2>2, <2>3
<1>5. Receive(p, a) = IF r.state = "FIN_WAIT_1" /\ a.ackno = r.snd_nxt
                      THEN [r EXCEPT !.state = "FIN_WAIT_2"] ELSE r
  BY DEF Receive, w
<1> HIDE DEF r
<1>6. Moved(p, [r EXCEPT !.state = "FIN_WAIT_2"], a, d, f)
  <2> DEFINE z == [r EXCEPT !.state = "FIN_WAIT_2"]
  <2>1. PICK o : Ready(r, o, d, f)
    BY <1>4 DEF Moved
  <2>2. Ready(z, o, d, f) /\ Reach(z) = Reach(r) /\ z.wl2 = r.wl2 /\ z.snd_wnd = r.snd_wnd
    BY <2>1, StateKeeps
  <2> HIDE DEF z
  <2>3. Moved(p, z, a, d, f)
    BY <1>4, <2>2 DEF Moved
  <2> QED BY <2>3 DEF z
<1> QED BY <1>4, <1>5, <1>6

\* Where the peer is: the first byte it does not have.
LEMMA PlaceIs ==
  ASSUME NEW got \in SUBSET (0..Bytes)
  PROVE  Place(got) \in 0..Bytes + 1 /\ Place(got) \notin got /\ 0..Place(got) - 1 \subseteq got
<1> DEFINE T == {n \in Nat : n \notin got}
           Is(n) == n \notin got /\ 0..n - 1 \subseteq got
<1>1. Bytes \in Nat
  BY Sizes
<1>2. Bytes + 1 \in T /\ T \in SUBSET Nat
  BY <1>1
<1>3. PICK x \in T : \A y \in T : x <= y
  BY <1>2, LeastNat
<1>4. x \in 0..Bytes + 1 /\ x \notin got
  BY <1>1, <1>2, <1>3
<1>5. 0..x - 1 \subseteq got
  <2> SUFFICES ASSUME NEW y \in 0..x - 1, y \notin got PROVE FALSE
    OBVIOUS
  <2>1. y \in T /\ y < x /\ y \in Nat /\ x \in Nat
    BY <1>4
  <2> QED BY <1>3, <2>1
<1>6. \E n \in 0..Bytes + 1 : Is(n)
  BY <1>4, <1>5
<1>7. Place(got) = CHOOSE n \in 0..Bytes + 1 : Is(n)
  BY DEF Place
<1> HIDE DEF Is
<1>8. Place(got) \in 0..Bytes + 1 /\ Is(Place(got))
  BY <1>6, <1>7
<1> QED BY <1>8 DEF Is

LEMMA PlaceGrows ==
  ASSUME NEW more \in SUBSET (0..Bytes), NEW got \in SUBSET more
  PROVE  Place(got) <= Place(more)
<1>1. got \in SUBSET (0..Bytes)
  OBVIOUS
<1>2. /\ Place(got) \in 0..Bytes + 1 /\ 0..Place(got) - 1 \subseteq got
      /\ Place(more) \in 0..Bytes + 1 /\ Place(more) \notin more
  BY <1>1, PlaceIs
<1>3. Place(more) \notin 0..Place(got) - 1
  BY <1>2
<1> QED BY <1>2, <1>3, Sizes

\* The peer is no further than what it has got.
LEMMA PlaceBelow ==
  ASSUME NEW got \in SUBSET (0..Bytes), NEW r \in Nat, \A m \in got : m < r
  PROVE  Place(got) <= r
<1>1. Place(got) \in 0..Bytes + 1 /\ 0..Place(got) - 1 \subseteq got
  BY PlaceIs
<1>2. r \notin got
  OBVIOUS
<1>3. r \notin 0..Place(got) - 1
  BY <1>1, <1>2
<1> QED BY <1>1, <1>3, Sizes

\* And, the FIN apart, not beyond its window.
LEMMA PlaceInWindow ==
  ASSUME NEW got \in SUBSET (0..Bytes), NEW d \in Nat, NEW edge \in Nat,
         \A m \in got : m < d => m < edge
  PROVE  Min2(Place(got), d) <= edge
<1>1. Place(got) \in 0..Bytes + 1 /\ 0..Place(got) - 1 \subseteq got
  BY PlaceIs
<1>2. Place(got) \in Nat
  BY <1>1, Sizes
<1> SUFFICES ASSUME ~ (Min2(Place(got), d) <= edge) PROVE FALSE
  OBVIOUS
<1>3. edge < Place(got) /\ edge < d
  BY <1>2 DEF Min2
<1>4. edge \in 0..Place(got) - 1
  BY <1>2, <1>3
<1> QED BY <1>1, <1>3, <1>4

\* While there is no FIN, the peer has got bytes only.
LEMMA ReachOfBytes ==
  ASSUME NEW p, NEW d \in 0..Bytes, PcbInv(p, d, FALSE)
  PROVE  Reach(p) <= d
<1>0. FALSE \in BOOLEAN
  OBVIOUS
<1>1. /\ p.snd_nxt \in Nat /\ p.snd_nxt <= d + Flag(FALSE) /\ p.unsent \in Seq(Segment)
      /\ Tiled(p.unacked \o p.unsent, d, FALSE)
  BY <1>0, PcbFacts
<1>2. d \in Nat /\ Flag(FALSE) = 0
  BY Sizes DEF Flag
<1>3. CASE ~ Probing(p)
  BY <1>1, <1>2, <1>3 DEF Reach, Flag
<1>4. CASE Probing(p)
  <2>1. p.unacked = <<>> /\ p.unsent # <<>> /\ p.unsent[1].seqno = p.snd_nxt
    BY <1>4 DEF Probing
  <2>2. p.unacked \o p.unsent = p.unsent
    BY <1>1, <2>1, ConcatEmptySeq
  <2>3. 1 \in 1..Len(p.unsent) /\ p.unsent[1] \in Segment
    BY <1>1, <2>1, FrontLast
  <2>4. Whole(p.unsent[1], d, FALSE)
    BY <1>1, <2>2, <2>3 DEF Tiled
  <2> DEFINE s == p.unsent[1]
  <2>5. s.len \in Nat /\ s.seqno \in Nat /\ TcpLen(s) = s.len + Flag(s.fin)
    BY <2>3, SegmentFields
  <2>6. TcpLen(s) > 0 /\ s.seqno + s.len <= d /\ ~ s.fin
    BY <2>4 DEF Whole
  <2>7. s.len > 0
    BY <2>5, <2>6 DEF Flag
  <2>8. s.seqno + 1 <= d
    BY <1>2, <2>5, <2>6, <2>7
  <2> QED BY <1>4, <2>1, <2>8 DEF Reach, Flag
<1> QED BY <1>3, <1>4

\* Before a call of the stack that sends, and what it may change.
Before(p, d, f, fly, ans, got, edge) ==
    /\ d \in 0..Bytes /\ f \in BOOLEAN /\ PcbInv(p, d, f)
    /\ got \in SUBSET (0..Bytes) /\ edge \in 0..Bytes + Wnd
    /\ fly \subseteq Wired /\ ans \subseteq [ackno : 0..Bytes + 1, wnd : 0..Wnd]
    /\ Net(p, d, f, fly, ans, got, edge)

After(p, d, f, ans, r, e, g, out, left) ==
    /\ e \in 0..Bytes /\ g \in BOOLEAN /\ PcbInv(r, e, g)
    /\ d = e \/ (~ f /\ d <= e)
    /\ f => g
    /\ Reach(p) <= Reach(r)
    /\ \A s \in out : Flies(s, e, g, Reach(r))
    /\ Heard(left, r) \subseteq Heard(ans, p)

\* A call of the stack that sends: the peer has still not got more than has
\* been sent, nor said more than it did.
LEMMA NetSends ==
  ASSUME NEW p, NEW d, NEW f, NEW fly, NEW ans, NEW got, NEW edge,
         Before(p, d, f, fly, ans, got, edge),
         NEW r, NEW e, NEW g, NEW out, NEW left,
         After(p, d, f, ans, r, e, g, out, left)
  PROVE  Net(r, e, g, fly \cup out, left, got, edge)
<1>0. /\ d \in 0..Bytes /\ f \in BOOLEAN /\ PcbInv(p, d, f)
      /\ got \in SUBSET (0..Bytes) /\ edge \in 0..Bytes + Wnd
      /\ fly \subseteq Wired /\ ans \subseteq [ackno : 0..Bytes + 1, wnd : 0..Wnd]
      /\ Net(p, d, f, fly, ans, got, edge)
      /\ e \in 0..Bytes /\ g \in BOOLEAN /\ PcbInv(r, e, g)
      /\ d = e \/ (~ f /\ d <= e)
      /\ f => g
      /\ Reach(p) <= Reach(r)
      /\ \A s \in out : Flies(s, e, g, Reach(r))
      /\ Heard(left, r) \subseteq Heard(ans, p)
  BY DEF Before, After
<1> USE <1>0
<1>1. /\ d \in Nat /\ e \in Nat /\ Reach(p) \in Nat /\ Reach(r) \in Nat /\ edge \in Nat
      /\ d <= e /\ p \in Pcb
  BY <1>0, PcbFacts, Sizes
<1>2. ~ f => Reach(p) <= d
  <2> SUFFICES ASSUME f = FALSE PROVE Reach(p) <= d
    OBVIOUS
  <2>1. PcbInv(p, d, FALSE)
    OBVIOUS
  <2> QED BY <2>1, ReachOfBytes
<1>3. Place(got) \in Nat /\ Place(got) <= Reach(p)
  <2>1. Place(got) \in 0..Bytes + 1
    BY PlaceIs
  <2>2. \A m \in got : m < Reach(p)
    BY DEF Net
  <2> QED BY <1>1, <2>1, <2>2, PlaceBelow, Sizes
<1>4. ASSUME NEW s \in fly PROVE Flies(s, e, g, Reach(r))
  <2>1. Flies(s, d, f, Reach(p))
    BY DEF Net
  <2>2. s \in Wired
    OBVIOUS
  <2>3. /\ s.seqno \in 0..Bytes /\ s.len \in 0..Mss /\ s.fin \in BOOLEAN
    BY <2>2 DEF Wired
  <2>4. s.seqno \in Nat /\ s.len \in Nat /\ End(s) \in Nat
    BY <2>3, Sizes DEF End, TcpLen, Flag
  <2>5. s.seqno + s.len <= e
    BY <1>1, <2>1, <2>4 DEF Flies
  <2>6. s.fin => g /\ s.seqno + s.len = e
    BY <2>1 DEF Flies
  <2>7. End(s) <= Reach(r)
    BY <1>1, <2>1, <2>4 DEF Flies
  <2> QED BY <2>5, <2>6, <2>7 DEF Flies
<1>5. ASSUME NEW m \in got PROVE m < Reach(r) /\ (m < e => m < edge)
  <2>1. m < Reach(p) /\ (m < d => m < edge) /\ m \in Nat
    BY Sizes DEF Net
  <2>2. m < Reach(r)
    BY <1>1, <2>1
  <2>3. m < e => m < edge
    BY <1>1, <1>2, <2>1
  <2> QED BY <2>2, <2>3
<1>6. ASSUME NEW a \in Heard(left, r) PROVE Told1(a, e, Place(got), edge)
  <2>1. Told1(a, d, Place(got), edge)
    BY DEF Net
  <2>2. a \in [ackno : 0..Bytes + 1, wnd : 0..Wnd]
    BY <1>1, PcbFields DEF Heard
  <2>3. a.ackno \in 0..Bytes + 1 /\ a.wnd \in 0..Wnd
    BY <2>2
  <2>4. a.ackno \in Nat /\ a.wnd \in Nat
    BY <2>3, Sizes
  <2>5. Min2(a.ackno, e) + a.wnd <= edge
    <3>1. Min2(a.ackno, d) + a.wnd <= edge /\ a.ackno <= Place(got)
      BY <2>1 DEF Told1
    <3>2. d = e \/ a.ackno <= d
      BY <1>1, <1>2, <1>3, <2>4, <3>1
    <3>3. Min2(a.ackno, e) = Min2(a.ackno, d)
      BY <1>1, <2>4, <3>2 DEF Min2
    <3> QED BY <3>1, <3>3
  <2> QED BY <2>1, <2>5 DEF Told1
<1>7. \A a, b \in Heard(left, r) : a.ackno < b.ackno => a.ackno + a.wnd <= b.ackno + b.wnd
  BY DEF Net
<1>8. edge <= Place(got) + Wnd
  BY DEF Net
<1> QED BY <1>4, <1>5, <1>6, <1>7, <1>8 DEF Net

\* What the network loses is missed by no part of it.
LEMMA NetLoses ==
  ASSUME NEW p, NEW d, NEW f, NEW got, NEW edge, NEW fly, NEW ans,
         Net(p, d, f, fly, ans, got, edge), NEW less \in SUBSET fly, NEW fewer \in SUBSET ans
  PROVE  Net(p, d, f, less, fewer, got, edge)
<1>1. Heard(fewer, p) \subseteq Heard(ans, p)
  BY DEF Heard
<1>2. \A s \in less : Flies(s, d, f, Reach(p))
  BY DEF Net
<1>3. \A a \in Heard(fewer, p) : Told1(a, d, Place(got), edge)
  BY <1>1 DEF Net
<1>4. \A a, b \in Heard(fewer, p) : a.ackno < b.ackno => a.ackno + a.wnd <= b.ackno + b.wnd
  BY <1>1 DEF Net
<1>5. (\A m \in got : m < Reach(p) /\ (m < d => m < edge)) /\ edge <= Place(got) + Wnd
  BY DEF Net
<1> QED BY <1>2, <1>3, <1>4, <1>5 DEF Net

\* What the peer answers when it has got more, or its application has read.
LEMMA NetAnswers ==
  ASSUME NEW p, NEW d \in 0..Bytes, NEW f \in BOOLEAN, PcbInv(p, d, f),
         NEW more \in SUBSET (0..Bytes), NEW got \in SUBSET more,
         NEW wide \in Nat, NEW edge \in Nat, edge <= wide,
         NEW fly, NEW ans, ans \subseteq [ackno : 0..Bytes + 1, wnd : 0..Wnd],
         Net(p, d, f, fly, ans, got, edge),
         \A m \in more : m < Reach(p) /\ (m < d => m < wide),
         wide <= Place(more) + Wnd
  PROVE  Net(p, d, f, fly, ans \cup {Answer(more, wide)}, more, wide)
<1> DEFINE n == Place(more)
           o == Place(got)
           z == Answer(more, wide)
           v == Max2(wide - n, 0)
<1>1. /\ got \in SUBSET (0..Bytes) /\ n \in 0..Bytes + 1 /\ o \in 0..Bytes + 1 /\ o <= n
      /\ n \in Nat /\ o \in Nat
  <2>1. got \in SUBSET (0..Bytes)
    OBVIOUS
  <2>2. n \in 0..Bytes + 1 /\ o \in 0..Bytes + 1 /\ o <= n
    BY <2>1, PlaceIs, PlaceGrows
  <2> QED BY <2>1, <2>2, Sizes
<1>2. d \in Nat /\ Reach(p) \in Nat /\ Wnd \in Nat /\ p \in Pcb
  BY PcbFacts, Sizes
<1>3. Min2(n, d) <= wide
  BY <1>2, PlaceInWindow
<1>4. z = [ackno |-> n, wnd |-> v] /\ z.ackno = n /\ z.wnd = v
  BY DEF Answer
<1> HIDE DEF n, o, z
<1>5. v \in 0..Wnd /\ v \in Nat /\ n + v = Max2(n, wide) /\ Min2(n, d) + v <= wide
  <2>1. wide <= n + Wnd
    BY DEF n
  <2>2. CASE n < wide
    <3>1. v = wide - n
      BY <1>1, <2>2 DEF Max2
    <3>2. Min2(n, d) \in Nat /\ Min2(n, d) <= n
      BY <1>1, <1>2 DEF Min2
    <3> QED BY <1>1, <1>2, <2>1, <2>2, <3>1, <3>2 DEF Max2
  <2>3. CASE ~ (n < wide)
    <3>1. v = 0
      BY <1>1, <2>3 DEF Max2
    <3>2. Min2(n, d) \in Nat
      BY <1>1, <1>2 DEF Min2
    <3> QED BY <1>1, <1>2, <1>3, <2>3, <3>1, <3>2 DEF Max2
  <2> QED BY <2>2, <2>3
<1> HIDE DEF v
<1>7. ASSUME NEW a \in Heard(ans, p)
      PROVE  /\ Told1(a, d, n, wide) /\ a.ackno \in Nat /\ a.wnd \in Nat
             /\ a.ackno <= n /\ a.ackno + a.wnd <= Max2(n, wide)
  <2>1. Told1(a, d, o, edge)
    BY DEF Net, o
  <2>2. a \in [ackno : 0..Bytes + 1, wnd : 0..Wnd]
    BY <1>2, PcbFields DEF Heard
  <2>3. a.ackno \in 0..Bytes + 1 /\ a.wnd \in 0..Wnd
    BY <2>2
  <2>4. a.ackno \in Nat /\ a.wnd \in Nat
    BY <2>3, Sizes
  <2>5. a.ackno <= n
    BY <1>1, <2>1, <2>4 DEF Told1
  <2>6. Min2(a.ackno, d) + a.wnd <= wide
    <3>1. Min2(a.ackno, d) \in Nat
      BY <1>2, <2>4 DEF Min2
    <3> QED BY <2>1, <2>4, <3>1 DEF Told1
  <2>7. a.ackno + a.wnd <= Max2(n, wide)
    <3> DEFINE e == a.ackno + a.wnd
    <3>1. e \in Nat /\ e <= Max2(o, edge)
      BY <2>1, <2>4 DEF Told1
    <3> HIDE DEF e
    <3>2. e <= Max2(n, wide)
      BY <1>1, <3>1 DEF Max2
    <3> QED BY <3>2 DEF e
  <2> QED BY <2>4, <2>5, <2>6, <2>7 DEF Told1
<1>8. Told1(z, d, n, wide)
  BY <1>1, <1>4, <1>5 DEF Told1
<1>9. Heard(ans \cup {z}, p) = Heard(ans, p) \cup {z}
  BY DEF Heard
<1>10. \A a \in Heard(ans \cup {z}, p) : Told1(a, d, n, wide)
  BY <1>7, <1>8, <1>9
<1>11. \A a, b \in Heard(ans \cup {z}, p) : a.ackno < b.ackno => a.ackno + a.wnd <= b.ackno + b.wnd
  <2> SUFFICES ASSUME NEW a \in Heard(ans, p) \cup {z}, NEW b \in Heard(ans, p) \cup {z},
                      a.ackno < b.ackno
               PROVE  a.ackno + a.wnd <= b.ackno + b.wnd
    BY <1>9
  <2>1. CASE a \in Heard(ans, p) /\ b \in Heard(ans, p)
    BY <2>1 DEF Net
  <2>2. CASE b = z /\ a \in Heard(ans, p)
    BY <1>4, <1>5, <1>7, <2>2
  <2>3. CASE a = z /\ b \in Heard(ans, p)
    <3>1. b.ackno <= n /\ b.ackno \in Nat /\ a.ackno = n
      BY <1>4, <1>7, <2>3
    <3> QED BY <1>1, <3>1
  <2>4. CASE a = z /\ b = z
    <3>1. n < n
      BY <1>4, <2>4
    <3> QED BY <1>1, <3>1
  <2> QED BY <2>1, <2>2, <2>3, <2>4
<1>12. \A s \in fly : Flies(s, d, f, Reach(p))
  BY DEF Net
<1>13. Net(p, d, f, fly, ans \cup {z}, more, wide)
  BY <1>10, <1>11, <1>12 DEF Net, n
<1> QED BY <1>13 DEF z
----------------------------------------------------------------------------
\* A step of the sender: what it must do to keep the invariant.
LEMMA StepKeeps ==
  ASSUME TypeOK, NEW d \in 0..Bytes, Follows(d),
         NEW e \in 0..Bytes, NEW g \in BOOLEAN, g = (owner' = "closed"),
         d = e \/ (owner # "closed" /\ d <= e), owner = "closed" => g,
         owner' \in {"open", "closed", "failed"},
         PcbInv(pcb', e, g), Reach(pcb) <= Reach(pcb'),
         NEW out, data' = data \cup out, \A s \in out : s \in Wired /\ Flies(s, e, g, Reach(pcb')),
         acks' \subseteq acks, Heard(acks', pcb') \subseteq Heard(acks, pcb), peer' = peer
  PROVE  IInv'
<1> DEFINE f == (owner = "closed")
<1>1. f \in BOOLEAN /\ PcbInv(pcb, d, f) /\ Net(pcb, d, f, data, acks, peer.got, peer.edge)
  BY DEF Follows
<1>2. /\ peer.got \in SUBSET (0..Bytes) /\ peer.edge \in 0..Bytes + Wnd
      /\ data \subseteq Wired /\ acks \subseteq [ackno : 0..Bytes + 1, wnd : 0..Wnd]
      /\ peer \in [got : SUBSET (0..Bytes), edge : 0..Bytes + Wnd]
  BY DEF TypeOK
<1>3. d = e \/ (~ f /\ d <= e)
  OBVIOUS
<1>4. f => g
  OBVIOUS
<1>5. \A s \in out : Flies(s, e, g, Reach(pcb'))
  OBVIOUS
<1> HIDE DEF f
<1>6. Net(pcb', e, g, data \cup out, acks', peer.got, peer.edge)
  <2>1. Before(pcb, d, f, data, acks, peer.got, peer.edge)
    BY <1>1, <1>2 DEF Before
  <2>2. After(pcb, d, f, acks, pcb', e, g, out, acks')
    BY <1>3, <1>4, <1>5 DEF After
  <2> QED BY ONLY <2>1, <2>2, NetSends
<1>7. Follows(e)'
  BY <1>6 DEF Follows
<1>8. TypeOK'
  <2>1. pcb' \in Pcb
    BY PcbFacts
  <2>2. data' \subseteq Wired /\ acks' \subseteq [ackno : 0..Bytes + 1, wnd : 0..Wnd]
    BY <1>2
  <2> QED BY <1>2, <2>1, <2>2 DEF TypeOK
<1> QED BY <1>7, <1>8 DEF IInv

\* It calls tcp_output.
LEMMA StepSends ==
  ASSUME TypeOK, NEW d \in 0..Bytes, Follows(d),
         NEW e \in 0..Bytes, NEW g \in BOOLEAN, g = (owner' = "closed"),
         d = e \/ (owner # "closed" /\ d <= e), owner = "closed" => g,
         owner' \in {"open", "closed", "failed"},
         NEW z, NEW q, Ready(z, q, e, g), Reach(pcb) <= Reach(z), Sends(z),
         acks' \subseteq acks, Heard(acks', z) \subseteq Heard(acks, pcb), peer' = peer
  PROVE  IInv'
<1> DEFINE r == Output(z).pcb
           out == Output(z).out
<1>1. /\ PcbInv(r, e, g) /\ Reach(z) <= Reach(r)
      /\ r.wl2 = z.wl2 /\ r.snd_wnd = z.snd_wnd
      /\ \A s \in out : s \in Wired /\ Flies(s, e, g, Reach(r))
  BY ReadyGoes
<1>2. pcb' = r /\ data' = data \cup out
  BY DEF Sends
<1> HIDE DEF r, out
<1>3. Reach(pcb) <= Reach(r)
  <2>1. Reach(pcb) \in Nat /\ Reach(r) \in Nat
    <3>1. PcbInv(pcb, d, owner = "closed") /\ (owner = "closed") \in BOOLEAN
      BY DEF Follows
    <3>2. Reach(pcb) \in Nat
      BY <3>1, PcbFacts
    <3>3. Reach(r) \in Nat
      BY <1>1, PcbFacts
    <3> QED BY <3>2, <3>3
  <2>2. Reach(z) \in Nat
    <3>1. z \in Pcb
      BY DEF Ready, Rest
    <3>2. z.snd_nxt \in 0..Bytes + 1
      BY <3>1, PcbFields
    <3> QED BY <3>2, Sizes DEF Reach, Flag
  <2> QED BY <1>1, <2>1, <2>2
<1>4. Heard(acks', r) \subseteq Heard(acks, pcb)
  BY <1>1 DEF Heard
<1>5. /\ PcbInv(pcb', e, g) /\ Reach(pcb) <= Reach(pcb')
      /\ \A s \in out : s \in Wired /\ Flies(s, e, g, Reach(pcb'))
      /\ Heard(acks', pcb') \subseteq Heard(acks, pcb)
  BY <1>1, <1>2, <1>3, <1>4
<1> QED BY <1>2, <1>5, StepKeeps

\* It changes nothing of the line, and sends nothing.
LEMMA StepStays ==
  ASSUME TypeOK, NEW d \in 0..Bytes, Follows(d),
         owner' \in {"open", "closed", "failed"}, (owner' = "closed") = (owner = "closed"),
         PcbInv(pcb', d, owner = "closed"), Reach(pcb') = Reach(pcb),
         pcb'.wl2 = pcb.wl2, pcb'.snd_wnd = pcb.snd_wnd,
         data' = data, acks' = acks, peer' = peer
  PROVE  IInv'
<1> DEFINE f == (owner = "closed")
           out == {}
<1>1. f \in BOOLEAN /\ f = (owner' = "closed") /\ d = d /\ (owner = "closed" => f)
  OBVIOUS
<1>2. data' = data \cup out /\ \A s \in out : s \in Wired /\ Flies(s, d, f, Reach(pcb'))
  OBVIOUS
<1>3. Heard(acks', pcb') \subseteq Heard(acks, pcb) /\ acks' \subseteq acks
  BY DEF Heard
<1>4. Reach(pcb) <= Reach(pcb')
  <2>1. PcbInv(pcb, d, f)
    BY DEF Follows
  <2>2. Reach(pcb) \in Nat
    BY <1>1, <2>1, PcbFacts
  <2> QED BY <2>2
<1>5. PcbInv(pcb', d, f)
  OBVIOUS
<1> HIDE DEF f, out
<1> QED BY <1>1, <1>2, <1>3, <1>4, <1>5, StepKeeps

\* The network, and the peer.
LEMMA StepOfPeer ==
  ASSUME TypeOK, NEW d \in 0..Bytes, Follows(d), UNCHANGED <<pcb, owner>>,
         data' \subseteq data, acks' \subseteq [ackno : 0..Bytes + 1, wnd : 0..Wnd],
         peer' \in [got : SUBSET (0..Bytes), edge : 0..Bytes + Wnd],
         Net(pcb, d, owner = "closed", data', acks', peer'.got, peer'.edge)
  PROVE  IInv'
<1>1. Follows(d)'
  BY DEF Follows
<1>2. TypeOK'
  BY DEF TypeOK
<1> QED BY <1>1, <1>2 DEF IInv

\* An open connection is one of which no FIN is queued.
LEMMA OpenLine ==
  ASSUME NEW d \in 0..Bytes, Follows(d), owner # "closed"
  PROVE  PcbInv(pcb, d, FALSE) /\ pcb.snd_lbb = d /\ Reach(pcb) \in Nat
<1>1. PcbInv(pcb, d, FALSE)
  <2>1. (owner = "closed") = FALSE
    OBVIOUS
  <2>2. PcbInv(pcb, d, owner = "closed")
    BY DEF Follows
  <2> QED BY <2>1, <2>2
<1>2. FALSE \in BOOLEAN
  OBVIOUS
<1>3. (~ FALSE => pcb.snd_lbb = d) /\ Reach(pcb) \in Nat
  BY <1>1, <1>2, PcbFacts
<1> QED BY <1>1, <1>3

LEMMA CloseSteps ==
  ASSUME TypeOK, NEW d \in 0..Bytes, Follows(d), NEW z, PcbInv(z, d, FALSE),
         Reach(z) = Reach(pcb), z.wl2 = pcb.wl2, z.snd_wnd = pcb.snd_wnd,
         CloseWith(z), acks' = acks, peer' = peer
  PROVE  IInv'
<1>1. owner = "open" /\ Reach(pcb) \in Nat
  BY OpenLine DEF CloseWith
<1>2. CASE CanClose(z)
  <2> DEFINE r == [SendFin(z) EXCEPT !.state = "FIN_WAIT_1"]
  <2>1. Sends(r) /\ owner' = "closed"
    BY <1>2 DEF CloseWith
  <2>2. /\ PcbInv(r, d, TRUE) /\ Reach(z) <= Reach(r)
        /\ r.wl2 = z.wl2 /\ r.snd_wnd = z.snd_wnd
    BY <1>2, SendFinKeeps
  <2> HIDE DEF r
  <2>3. Ready(r, r.unacked \o r.unsent, d, TRUE)
    BY <2>2, InOrder
  <2>4. Heard(acks', r) \subseteq Heard(acks, pcb) /\ acks' \subseteq acks
    BY <2>2 DEF Heard
  <2>5. Reach(pcb) <= Reach(r)
    BY <2>2
  <2>6. TRUE \in BOOLEAN /\ TRUE = (owner' = "closed") /\ d = d /\ (owner = "closed" => TRUE)
    BY <2>1
  <2>7. owner' \in {"open", "closed", "failed"}
    BY <2>1
  <2> QED BY <2>1, <2>3, <2>4, <2>5, <2>6, <2>7, StepSends
<1>3. CASE ~ CanClose(z)
  <2>1. /\ pcb' = (IF z.queuelen >= QueueMax THEN NoMemory(z) ELSE z)
        /\ owner' = "failed" /\ data' = data
    BY <1>3 DEF CloseWith
  <2>2. PcbInv(NoMemory(z), d, FALSE) /\ Reach(NoMemory(z)) = Reach(z)
    BY NoMemoryKeeps
  <2>3. NoMemory(z).wl2 = z.wl2 /\ NoMemory(z).snd_wnd = z.snd_wnd
    BY NoMemoryKeeps
  <2>4. /\ PcbInv(pcb', d, FALSE) /\ Reach(pcb') = Reach(pcb)
        /\ pcb'.wl2 = pcb.wl2 /\ pcb'.snd_wnd = pcb.snd_wnd
    <3>1. CASE z.queuelen >= QueueMax
      BY <2>1, <2>2, <2>3, <3>1
    <3>2. CASE ~ (z.queuelen >= QueueMax)
      BY <2>1, <3>2
    <3> QED BY <3>1, <3>2
  <2>5. (owner = "closed") = FALSE /\ (owner' = "closed") = FALSE
    BY <1>1, <2>1
  <2>6. PcbInv(pcb', d, owner = "closed")
    BY <2>4, <2>5
  <2>7. owner' \in {"open", "closed", "failed"} /\ (owner' = "closed") = (owner = "closed")
    BY <2>1, <2>5
  <2> QED BY <2>1, <2>4, <2>6, <2>7, StepStays
<1> QED BY <1>2, <1>3

LEMMA CloseStep ==
  ASSUME TypeOK, NEW d \in 0..Bytes, Follows(d), Close
  PROVE  IInv'
<1>1. CloseWith(pcb) /\ acks' = acks /\ peer' = peer
  BY DEF Close
<1>2. owner # "closed"
  BY <1>1 DEF CloseWith
<1>3. PcbInv(pcb, d, FALSE)
  BY <1>2, OpenLine
<1> QED BY <1>1, <1>3, CloseSteps

LEMMA WriteStep ==
  ASSUME TypeOK, NEW d \in 0..Bytes, Follows(d), WriteData
  PROVE  IInv'
<1>1. owner = "open" /\ acks' = acks /\ peer' = peer
  BY DEF WriteData
<1>2. PcbInv(pcb, d, FALSE) /\ pcb.snd_lbb = d /\ Reach(pcb) \in Nat
  BY <1>1, OpenLine
<1>3. d \in Nat /\ Bytes \in Nat /\ MaxWrite \in Nat
  BY Sizes, ConstantsAssumption
<1>4. PICK n \in 1..Min2(MaxWrite, Bytes - pcb.snd_lbb) :
         IF CanWrite(pcb, n) /\ Enqueue(pcb, n).queuelen <= QueueMax
         THEN Sends(Enqueue(pcb, n)) /\ UNCHANGED owner
         ELSE CloseWith(NoMemory(pcb))
  BY DEF WriteData
<1>5. n \in Nat /\ n >= 1 /\ d + n <= Bytes /\ d + n \in 0..Bytes
  <2>1. Bytes - d \in Nat
    BY <1>3
  <2> QED BY <1>2, <1>3, <2>1 DEF Min2
<1>6. CASE CanWrite(pcb, n) /\ Enqueue(pcb, n).queuelen <= QueueMax
  <2> DEFINE r == Enqueue(pcb, n)
             e == d + n
  <2>1. Sends(r) /\ owner' = owner
    BY <1>4, <1>6
  <2>2. /\ PcbInv(r, e, FALSE) /\ Reach(pcb) <= Reach(r)
        /\ r.wl2 = pcb.wl2 /\ r.snd_wnd = pcb.snd_wnd
    BY <1>2, <1>5, <1>6, EnqueueKeeps
  <2> HIDE DEF r
  <2>3. Ready(r, r.unacked \o r.unsent, e, FALSE)
    BY <2>2, InOrder
  <2>4. Heard(acks', r) \subseteq Heard(acks, pcb) /\ acks' \subseteq acks
    BY <1>1, <2>2 DEF Heard
  <2>5. /\ FALSE \in BOOLEAN /\ FALSE = (owner' = "closed") /\ (owner = "closed" => FALSE)
        /\ owner' \in {"open", "closed", "failed"}
    BY <1>1, <2>1
  <2>6. e \in 0..Bytes /\ (d = e \/ (owner # "closed" /\ d <= e))
    BY <1>1, <1>3, <1>5
  <2> HIDE DEF e
  <2> QED BY <1>1, <2>1, <2>2, <2>3, <2>4, <2>5, <2>6, StepSends
<1>7. CASE ~ (CanWrite(pcb, n) /\ Enqueue(pcb, n).queuelen <= QueueMax)
  <2> DEFINE z == NoMemory(pcb)
  <2>1. CloseWith(z)
    BY <1>4, <1>7
  <2>2. PcbInv(z, d, FALSE) /\ Reach(z) = Reach(pcb) /\ z.wl2 = pcb.wl2 /\ z.snd_wnd = pcb.snd_wnd
    BY <1>2, NoMemoryKeeps
  <2> HIDE DEF z
  <2> QED BY <1>1, <2>1, <2>2, CloseSteps
<1> QED BY <1>6, <1>7

\* What is known before a step: the line, and what an ACK in transit says.
LEMMA NetFacts ==
  ASSUME TypeOK, NEW d \in 0..Bytes, Follows(d)
  PROVE  /\ PcbInv(pcb, d, owner = "closed") /\ (owner = "closed") \in BOOLEAN
         /\ peer.got \in SUBSET (0..Bytes) /\ peer.edge \in 0..Bytes + Wnd
         /\ Net(pcb, d, owner = "closed", data, acks, peer.got, peer.edge)
         /\ Place(peer.got) \in Nat /\ Place(peer.got) <= Reach(pcb) /\ Reach(pcb) \in Nat
<1>1. /\ PcbInv(pcb, d, owner = "closed") /\ (owner = "closed") \in BOOLEAN
      /\ Net(pcb, d, owner = "closed", data, acks, peer.got, peer.edge)
  BY DEF Follows
<1>2. peer.got \in SUBSET (0..Bytes) /\ peer.edge \in 0..Bytes + Wnd
  BY DEF TypeOK
<1>3. Reach(pcb) \in Nat
  BY <1>1, PcbFacts
<1>4. Place(peer.got) \in 0..Bytes + 1
  BY <1>2, PlaceIs
<1>5. \A m \in peer.got : m < Reach(pcb)
  BY <1>1 DEF Net
<1>6. Place(peer.got) <= Reach(pcb)
  BY <1>2, <1>3, <1>5, PlaceBelow
<1> QED BY <1>1, <1>2, <1>3, <1>4, <1>6, Sizes

LEMMA AckStep ==
  ASSUME TypeOK, NEW d \in 0..Bytes, Follows(d), NEW a \in acks, AckArrives(a)
  PROVE  IInv'
<1> DEFINE f == (owner = "closed")
           z == Receive(pcb, a)
           last == [ackno |-> pcb.wl2, wnd |-> pcb.snd_wnd]
<1>1. /\ acks' = acks \ {a} /\ Sends(z) /\ owner' = owner /\ peer' = peer
  BY DEF AckArrives
<1>2. a \in [ackno : 0..Bytes + 1, wnd : 0..Wnd]
  BY DEF TypeOK
<1>3. a \in Heard(acks, pcb) /\ last \in Heard(acks, pcb)
  BY DEF Heard
<1>4. a.ackno <= Reach(pcb)
  <2>1. Told1(a, d, Place(peer.got), peer.edge)
    BY <1>3, NetFacts DEF Net
  <2>2. a.ackno \in Nat
    BY <1>2, Sizes
  <2> QED BY <2>1, <2>2, NetFacts DEF Told1
<1>5. pcb.wl2 < a.ackno => pcb.wl2 + pcb.snd_wnd <= a.ackno + a.wnd
  <2>1. last.ackno < a.ackno => last.ackno + last.wnd <= a.ackno + a.wnd
    BY <1>3, NetFacts DEF Net
  <2> QED BY <2>1
<1>6. PcbInv(pcb, d, f) /\ f \in BOOLEAN
  BY NetFacts
<1> HIDE DEF f
<1>7. Moved(pcb, z, a, d, f)
  BY <1>2, <1>4, <1>5, <1>6, ReceiveKeeps
<1>8. PICK q : Ready(z, q, d, f)
  BY <1>7 DEF Moved
<1>9. Heard(acks', z) \subseteq Heard(acks, pcb) /\ acks' \subseteq acks
  <2> HIDE DEF z
  <2>1. \/ z.wl2 = pcb.wl2 /\ z.snd_wnd = pcb.snd_wnd
        \/ z.wl2 = a.ackno /\ z.snd_wnd = a.wnd
    BY <1>7 DEF Moved
  <2>2. a = [ackno |-> a.ackno, wnd |-> a.wnd]
    BY <1>2
  <2> QED BY <1>1, <2>1, <2>2 DEF Heard
<1>10. Reach(pcb) <= Reach(z)
  BY <1>7 DEF Moved
<1>11. /\ f = (owner' = "closed") /\ (owner = "closed" => f) /\ d = d
       /\ owner' \in {"open", "closed", "failed"}
  BY <1>1 DEF f, TypeOK
<1> HIDE DEF z
<1> QED BY <1>1, <1>6, <1>8, <1>9, <1>10, <1>11, StepSends

\* A step of the slow timer that ends in tcp_output.
LEMMA TimerSends ==
  ASSUME TypeOK, NEW d \in 0..Bytes, Follows(d), UNCHANGED <<owner, acks, peer>>,
         NEW z, NEW q, Ready(z, q, d, owner = "closed"), Reach(pcb) <= Reach(z),
         z.wl2 = pcb.wl2, z.snd_wnd = pcb.snd_wnd, Sends(z)
  PROVE  IInv'
<1> DEFINE f == (owner = "closed")
<1>1. f \in BOOLEAN /\ f = (owner' = "closed") /\ (owner = "closed" => f) /\ d = d
  OBVIOUS
<1>2. owner' \in {"open", "closed", "failed"} /\ peer' = peer /\ acks' \subseteq acks
  BY DEF TypeOK
<1>3. Heard(acks', z) \subseteq Heard(acks, pcb)
  BY DEF Heard
<1>4. Ready(z, q, d, f)
  OBVIOUS
<1> HIDE DEF f
<1> QED BY <1>1, <1>2, <1>3, <1>4, StepSends

LEMMA TickStep ==
  ASSUME TypeOK, NEW d \in 0..Bytes, Follows(d), UNCHANGED <<owner, acks, peer>>, Tick
  PROVE  IInv'
<1>1. Ready(pcb, pcb.unacked \o pcb.unsent, d, owner = "closed")
  BY NetFacts, InOrder
<1>2. Reach(pcb) <= Reach(pcb)
  BY NetFacts
<1> QED BY <1>1, <1>2, TimerSends DEF Tick

LEMMA RtoStep ==
  ASSUME TypeOK, NEW d \in 0..Bytes, Follows(d), UNCHANGED <<owner, acks, peer>>, Rto
  PROVE  IInv'
<1> DEFINE f == (owner = "closed")
           r == Overdue(pcb)
<1>1. Sends(r) /\ pcb.unacked # <<>>
  BY DEF Rto, Overdue
<1>2. PcbInv(pcb, d, f) /\ f \in BOOLEAN
  BY NetFacts
<1> HIDE DEF f
<1>3. /\ Ready(r, pcb.unacked \o pcb.unsent, d, f) /\ Reach(pcb) <= Reach(r)
      /\ r.wl2 = pcb.wl2 /\ r.snd_wnd = pcb.snd_wnd
  <2>1. Requeued(pcb, Overdue(pcb), pcb.unacked \o pcb.unsent, d, f)
    BY ONLY <1>1, <1>2, d \in 0..Bytes, RtoKeeps
  <2> QED BY ONLY <2>1 DEF Requeued
<1> HIDE DEF r
<1>4. Ready(r, pcb.unacked \o pcb.unsent, d, owner = "closed")
  BY <1>3 DEF f
<1> QED BY <1>1, <1>3, <1>4, TimerSends

\* The connection is over.
LEMMA EndStep ==
  ASSUME TypeOK, NEW d \in 0..Bytes, Follows(d), UNCHANGED <<owner, acks, peer>>,
         GiveUp \/ FinWaitTimeout
  PROVE  IInv'
<1> DEFINE f == (owner = "closed")
<1>1. PICK s \in {"GAVE_UP", "TIMED_OUT"} : pcb' = [pcb EXCEPT !.state = s] /\ data' = data
  BY DEF GiveUp, FinWaitTimeout
<1>2. PcbInv(pcb, d, f) /\ f \in BOOLEAN
  BY NetFacts
<1>3. pcb \in Pcb /\ pcb.cwnd >= 1 /\ pcb.ssthresh >= 1
  BY <1>2, PcbFacts
<1> DEFINE r == [pcb EXCEPT !.state = s]
<1>4. r \in Pcb
  <2>1. s \in States
    BY DEF States
  <2> QED BY <1>3, <2>1 DEF Pcb
<1>5. /\ r.unsent = pcb.unsent /\ r.unacked = pcb.unacked /\ r.lastack = pcb.lastack
      /\ r.snd_nxt = pcb.snd_nxt /\ r.snd_lbb = pcb.snd_lbb /\ r.wl2 = pcb.wl2
      /\ r.snd_wnd = pcb.snd_wnd /\ r.snd_wnd_max = pcb.snd_wnd_max
      /\ r.queuelen = pcb.queuelen /\ r.oversize = pcb.oversize
      /\ r.snd_buf = pcb.snd_buf /\ r.cwnd = pcb.cwnd /\ r.ssthresh = pcb.ssthresh
      /\ r.state = s
  BY <1>3 DEF Pcb
<1>6. s # "ESTABLISHED" /\ pcb' = r
  BY <1>1
<1> HIDE DEF r, f
<1>7. PcbInv(r, d, f) /\ Reach(r) = Reach(pcb)
  BY <1>2, <1>3, <1>4, <1>5, <1>6, SameQueues
<1>8. PcbInv(pcb', d, owner = "closed") /\ Reach(pcb') = Reach(pcb)
  BY <1>6, <1>7 DEF f
<1>9. owner' \in {"open", "closed", "failed"} /\ (owner' = "closed") = (owner = "closed")
  BY DEF TypeOK
<1> QED BY <1>1, <1>5, <1>6, <1>8, <1>9, StepStays

\* A probe carries the first byte that is not acknowledged, or the FIN.
IsProbe(z, q) ==
    /\ q # <<>>
    /\ z = [seqno |-> q[1].seqno, len |-> Flag(q[1].len > 0), fin |-> q[1].len = 0]

LEMMA ProbeFlies ==
  ASSUME NEW p, NEW d \in 0..Bytes, NEW f \in BOOLEAN, PcbInv(p, d, f),
         NEW z, IsProbe(z, p.unacked \o p.unsent)
  PROVE  z \in Wired /\ Flies(z, d, f, Reach(p))
<1> DEFINE u == p.unacked
           v == p.unsent
           q == u \o v
           s == q[1]
<1>1. /\ u \in Seq(Segment) /\ v \in Seq(Segment) /\ d \in Nat
      /\ Tiled(q, d, f) /\ Spans(q, p.lastack, d + Flag(f))
      /\ p.lastack \in Nat /\ p.snd_nxt \in Nat /\ p.lastack <= p.snd_nxt
      /\ Sent(u, p.lastack, p.snd_nxt, p.snd_wnd)
      /\ Reach(p) \in Nat /\ p.snd_nxt <= Reach(p)
  BY PcbFacts, Sizes
<1>2. q \in Seq(Segment) /\ 1 \in 1..Len(q) /\ s \in Segment
  <2>1. q \in Seq(Segment)
    BY <1>1, ConcatAt
  <2>2. q # <<>>
    BY DEF IsProbe
  <2> HIDE DEF q
  <2>3. Len(q) \in Nat /\ Len(q) >= 1
    BY <2>1, <2>2, FrontLast
  <2>4. 1 \in 1..Len(q)
    BY <2>3
  <2> QED BY <2>1, <2>4
<1>3. Whole(s, d, f) /\ s.seqno <= p.lastack
  <2>1. q # <<>>
    BY DEF IsProbe
  <2> HIDE DEF q
  <2> QED BY <1>1, <1>2, <2>1 DEF Tiled, Spans
<1>4. /\ s.seqno \in Nat /\ s.len \in Nat /\ s.fin \in BOOLEAN
      /\ TcpLen(s) = s.len + Flag(s.fin) /\ End(s) = s.seqno + TcpLen(s)
      /\ End(s) \in Nat /\ TcpLen(s) \in Nat
  BY <1>2, SegmentFields
<1>5. TcpLen(s) > 0 /\ s.seqno + s.len <= d /\ (s.fin => f /\ s.seqno + s.len = d)
  BY <1>3 DEF Whole
<1>6. z.seqno = s.seqno /\ z.len = Flag(s.len > 0) /\ z.fin = (s.len = 0)
  BY DEF IsProbe
<1> HIDE DEF q
<1>7. s = q[1] /\ (q = <<>> => FALSE)
  BY DEF IsProbe, q
<1> HIDE DEF s
<1>8. s.len = 0 => s.fin
  <2>1. CASE ~ s.fin
    <3>1. Flag(s.fin) = 0
      BY <2>1 DEF Flag
    <3> QED BY <1>4, <1>5, <3>1
  <2>2. CASE s.fin
    BY <2>2
  <2> QED BY <2>1, <2>2
<1>9. /\ z.len \in 0..1 /\ z.fin \in BOOLEAN /\ End(z) = s.seqno + 1
      /\ z.seqno + z.len <= d /\ (z.fin => f /\ z.seqno + z.len = d)
  <2>1. CASE s.len = 0
    <3>1. z.len = 0 /\ z.fin = TRUE
      <4>1. ~ (s.len > 0)
        BY <1>4, <2>1
      <4>2. z.len = 0
        BY <1>6, <4>1 DEF Flag
      <4>3. z.fin = TRUE
        BY <1>6, <2>1
      <4> QED BY <4>2, <4>3
    <3>2. Flag(z.fin) = 1
      BY <3>1 DEF Flag
    <3>3. End(z) = s.seqno + 1
      BY <1>4, <1>6, <3>1, <3>2 DEF End, TcpLen
    <3>4. f /\ s.seqno + s.len = d
      BY <1>5, <1>8, <2>1
    <3>5. s.seqno = d
      BY <1>4, <2>1, <3>4
    <3> QED BY <1>1, <1>6, <3>1, <3>3, <3>4, <3>5
  <2>2. CASE s.len # 0
    <3>1. s.len > 0
      BY <1>4, <2>2
    <3>2. z.len = 1 /\ z.fin = FALSE
      BY <1>6, <2>2, <3>1 DEF Flag
    <3>3. Flag(z.fin) = 0
      BY <3>2 DEF Flag
    <3>4. End(z) = s.seqno + 1
      BY <1>4, <1>6, <3>2, <3>3 DEF End, TcpLen
    <3>5. s.seqno + 1 <= d
      BY <1>1, <1>4, <1>5, <3>1
    <3> QED BY <1>6, <3>2, <3>4, <3>5
  <2> QED BY <2>1, <2>2
<1>10. s.seqno + 1 <= Reach(p)
  <2>1. CASE u # <<>>
    <3>1. s = u[1] /\ 1 \in 1..Len(u)
      <4>1. (u \o v)[1] = u[1] /\ 1 \in 1..Len(u)
        BY <1>1, <2>1, FirstOfLine
      <4> QED BY <1>7, <4>1 DEF q
    <3>2. End(s) <= p.snd_nxt
      BY <1>1, <3>1 DEF Sent
    <3>3. s.seqno < End(s)
      BY <1>4, <1>5
    <3> DEFINE e == End(s)
               m == s.seqno
               x == p.snd_nxt
               y == Reach(p)
    <3>4. e \in Nat /\ m \in Nat /\ x \in Nat /\ y \in Nat /\ m < e /\ e <= x /\ x <= y
      BY <1>1, <1>4, <3>2, <3>3
    <3> HIDE DEF e, m, x, y
    <3>5. m + 1 <= y
      BY <3>4
    <3> QED BY <3>5 DEF m, y
  <2>2. CASE u = <<>>
    <3>1. q = v
      BY <1>1, <2>2, ConcatEmptySeq DEF q
    <3>2. v # <<>> /\ s = v[1]
      BY <1>7, <3>1
    <3>3. CASE s.seqno = p.snd_nxt
      BY <1>1, <2>2, <3>2, <3>3 DEF Reach, Probing, Flag
    <3>4. CASE s.seqno # p.snd_nxt
      BY <1>1, <1>3, <1>4, <3>4
    <3> QED BY <3>3, <3>4
  <2> QED BY <2>1, <2>2
<1>11. z.seqno \in 0..Bytes
  <2>1. s.seqno <= d
    BY <1>1, <1>4, <1>5
  <2>2. d \in 0..Bytes /\ Bytes \in Nat
    BY Sizes
  <2> QED BY <1>4, <1>6, <2>1, <2>2
<1>12. z.len \in 0..Mss
  BY <1>9, Sizes
<1>13. z \in Wired
  <2>1. z = [seqno |-> z.seqno, len |-> z.len, fin |-> z.fin]
    BY DEF IsProbe
  <2> QED BY <1>9, <1>11, <1>12, <2>1 DEF Wired
<1>14. Flies(z, d, f, Reach(p))
  BY <1>9, <1>10 DEF Flies
<1> QED BY <1>13, <1>14

LEMMA ProbeStep ==
  ASSUME TypeOK, NEW d \in 0..Bytes, Follows(d), UNCHANGED <<owner, acks, peer>>, Probe
  PROVE  IInv'
<1> DEFINE f == (owner = "closed")
           r == Output(pcb).pcb
           sent == Output(pcb).out
           out == sent \cup {ProbeSegment}
<1>1. pcb' = r /\ data' = data \cup out /\ Queued # <<>>
  BY DEF Probe
<1>2. PcbInv(pcb, d, f) /\ f \in BOOLEAN /\ Reach(pcb) \in Nat
  BY NetFacts
<1> HIDE DEF f
<1>3. Ready(pcb, pcb.unacked \o pcb.unsent, d, f)
  BY <1>2, InOrder
<1>4. /\ PcbInv(r, d, f) /\ Reach(pcb) <= Reach(r)
      /\ r.wl2 = pcb.wl2 /\ r.snd_wnd = pcb.snd_wnd
      /\ \A s \in sent : s \in Wired /\ Flies(s, d, f, Reach(r))
  BY <1>2, <1>3, ReadyGoes
<1> HIDE DEF r, sent
<1>5. ProbeSegment \in Wired /\ Flies(ProbeSegment, d, f, Reach(pcb))
  <2> DEFINE z == ProbeSegment
  <2>1. IsProbe(z, pcb.unacked \o pcb.unsent)
    <3>1. pcb.unacked \o pcb.unsent # <<>>
      BY <1>1 DEF Queued
    <3> DEFINE q == pcb.unacked \o pcb.unsent
    <3>2. Head(q) = q[1]
      <4>1. pcb.unacked \in Seq(Segment) /\ pcb.unsent \in Seq(Segment)
        BY <1>2, PcbFacts
      <4>2. q \in Seq(Segment)
        BY <4>1, ConcatAt
      <4> HIDE DEF q
      <4>3. Len(q) >= 1 /\ Len(q) \in Nat
        BY <3>1, <4>2, FrontLast DEF q
      <4> QED BY <4>2, <4>3
    <3>3. ProbeSegment = [seqno |-> Head(q).seqno, len |-> Flag(Head(q).len > 0), fin |-> Head(q).len = 0]
      BY DEF ProbeSegment, Queued
    <3> HIDE DEF q
    <3>4. z = [seqno |-> q[1].seqno, len |-> Flag(q[1].len > 0), fin |-> q[1].len = 0]
      BY <3>2, <3>3 DEF z
    <3>5. q # <<>>
      BY <3>1 DEF q
    <3>6. IsProbe(z, q)
      BY <3>4, <3>5 DEF IsProbe
    <3> QED BY <3>6 DEF q
  <2> HIDE DEF z
  <2>2. z \in Wired /\ Flies(z, d, f, Reach(pcb))
    BY <1>2, <2>1, ProbeFlies
  <2> QED BY <2>2 DEF z
<1>6. Flies(ProbeSegment, d, f, Reach(r))
  <2> DEFINE z == ProbeSegment
  <2>1. z \in Wired /\ Flies(z, d, f, Reach(pcb))
    BY <1>5
  <2> HIDE DEF z
  <2>2. End(z) \in Nat
    <3>1. z.seqno \in 0..Bytes /\ z.len \in 0..Mss /\ z.fin \in BOOLEAN
      BY <2>1 DEF Wired
    <3>2. z.seqno \in Nat /\ z.len \in Nat
      BY <3>1, Sizes
    <3> QED BY <3>2 DEF End, TcpLen, Flag
  <2>3. Reach(r) \in Nat
    BY <1>2, <1>4, PcbFacts
  <2>4. End(z) <= Reach(r)
    BY <1>2, <1>4, <2>1, <2>2, <2>3 DEF Flies
  <2>5. Flies(z, d, f, Reach(r))
    BY <2>1, <2>4 DEF Flies
  <2> QED BY <2>5 DEF z
<1>7. \A s \in out : s \in Wired /\ Flies(s, d, f, Reach(pcb'))
  BY <1>1, <1>4, <1>5, <1>6
<1>8. /\ f \in BOOLEAN /\ f = (owner' = "closed") /\ (owner = "closed" => f) /\ d = d
      /\ owner' \in {"open", "closed", "failed"} /\ peer' = peer /\ acks' \subseteq acks
  BY DEF f, TypeOK
<1>9. Heard(acks', pcb') \subseteq Heard(acks, pcb)
  BY <1>1, <1>4 DEF Heard
<1>10. PcbInv(pcb', d, f) /\ Reach(pcb) <= Reach(pcb')
  BY <1>1, <1>4
<1> HIDE DEF out
<1> QED BY <1>1, <1>7, <1>8, <1>9, <1>10, StepKeeps

LEMMA TimerStep ==
  ASSUME TypeOK, NEW d \in 0..Bytes, Follows(d), SlowTimer
  PROVE  IInv'
<1>1. UNCHANGED <<owner, acks, peer>> /\ (GiveUp \/ Probe \/ Rto \/ Tick \/ FinWaitTimeout)
  BY DEF SlowTimer, Timer
<1>2. CASE GiveUp
  BY <1>1, <1>2, EndStep
<1>3. CASE Probe
  BY <1>1, <1>3, ProbeStep
<1>4. CASE Rto
  BY <1>1, <1>4, RtoStep
<1>5. CASE Tick
  BY <1>1, <1>5, TickStep
<1>6. CASE FinWaitTimeout
  BY <1>1, <1>6, EndStep
<1> QED BY <1>1, <1>2, <1>3, <1>4, <1>5, <1>6

LEMMA AnswerFields ==
  ASSUME NEW more \in SUBSET (0..Bytes), NEW wide \in Nat, wide <= Place(more) + Wnd
  PROVE  Answer(more, wide) \in [ackno : 0..Bytes + 1, wnd : 0..Wnd]
<1> DEFINE n == Place(more)
           v == Max2(wide - n, 0)
<1>1. n \in 0..Bytes + 1 /\ n \in Nat /\ Wnd \in Nat
  BY PlaceIs, Sizes
<1>2. Answer(more, wide) = [ackno |-> n, wnd |-> v]
  BY DEF Answer
<1>3. wide <= n + Wnd
  OBVIOUS
<1> HIDE DEF n
<1>4. v \in 0..Wnd
  BY <1>1, <1>3 DEF Max2
<1> QED BY <1>1, <1>2, <1>4

\* The peer has got nothing that has not been sent, nor, the FIN apart, that
\* it has no room for.
LEMMA PeerKeeps ==
  ASSUME TypeOK, NEW d \in 0..Bytes, Follows(d), UNCHANGED <<pcb, owner>>,
         NEW more \in SUBSET (0..Bytes), peer.got \subseteq more,
         NEW wide \in 0..Bytes + Wnd, peer.edge <= wide,
         \A m \in more : m < Reach(pcb) /\ (m < d => m < wide),
         wide <= Place(more) + Wnd,
         data' \subseteq data, acks' = acks \cup {Answer(more, wide)},
         peer' = [got |-> more, edge |-> wide]
  PROVE  IInv'
<1> DEFINE f == (owner = "closed")
           got == peer.got
           edge == peer.edge
           z == Answer(more, wide)
<1>1. /\ PcbInv(pcb, d, f) /\ f \in BOOLEAN /\ got \in SUBSET more
      /\ edge \in Nat /\ wide \in Nat /\ edge <= wide
      /\ Net(pcb, d, f, data, acks, got, edge)
      /\ acks \subseteq [ackno : 0..Bytes + 1, wnd : 0..Wnd]
  BY NetFacts, Sizes DEF TypeOK
<1> HIDE DEF f, got, edge
<1>2. z \in [ackno : 0..Bytes + 1, wnd : 0..Wnd]
  BY <1>1, AnswerFields
<1>3. Net(pcb, d, f, data, acks \cup {z}, more, wide)
  BY <1>1, NetAnswers
<1> HIDE DEF z
<1>4. Net(pcb, d, f, data', acks \cup {z}, more, wide)
  <2>1. acks \cup {z} \in SUBSET (acks \cup {z}) /\ data' \in SUBSET data
    OBVIOUS
  <2> QED BY <1>3, <2>1, NetLoses
<1>5. acks' = acks \cup {z}
  BY DEF z
<1>6. Net(pcb, d, owner = "closed", data', acks', peer'.got, peer'.edge)
  BY <1>4, <1>5 DEF f
<1>7. acks' \subseteq [ackno : 0..Bytes + 1, wnd : 0..Wnd]
  BY <1>1, <1>2, <1>5
<1> QED BY <1>6, <1>7, StepOfPeer

LEMMA ReceivesStep ==
  ASSUME TypeOK, NEW d \in 0..Bytes, Follows(d), NEW s \in data, PeerReceives(s)
  PROVE  IInv'
<1> DEFINE f == (owner = "closed")
           got == peer.got
           edge == peer.edge
           more == got \cup Arriving(s)
<1>1. /\ data' = data \ {s} /\ peer' = [peer EXCEPT !.got = more]
      /\ acks' = acks \cup {Answer(more, edge)} /\ UNCHANGED <<pcb, owner>>
  BY DEF PeerReceives
<1>2. /\ peer \in [got : SUBSET (0..Bytes), edge : 0..Bytes + Wnd] /\ s \in Wired
      /\ got \in SUBSET (0..Bytes) /\ edge \in 0..Bytes + Wnd /\ edge \in Nat
  BY Sizes DEF TypeOK
<1>3. /\ Reach(pcb) \in Nat /\ Flies(s, d, f, Reach(pcb))
      /\ \A m \in got : m < Reach(pcb) /\ (m < d => m < edge)
      /\ edge <= Place(got) + Wnd
  BY NetFacts DEF Net
<1>4. ASSUME NEW m \in Arriving(s)
      PROVE  m \in 0..Bytes /\ m < Reach(pcb) /\ (m < d => m < edge)
  <2>1. m \in s.seqno..End(s) - 1 /\ (m < edge \/ (s.fin /\ m = End(s) - 1))
    BY DEF Arriving, Places
  <2>2. s.seqno \in 0..Bytes /\ s.len \in 0..Mss /\ s.fin \in BOOLEAN
    BY <1>2 DEF Wired
  <2>3. /\ s.seqno \in Nat /\ s.len \in Nat /\ d \in Nat /\ Bytes \in Nat /\ d <= Bytes
        /\ Flag(s.fin) \in 0..1 /\ (s.fin => Flag(s.fin) = 1) /\ (~ s.fin => Flag(s.fin) = 0)
    BY <2>2, Sizes DEF Flag
  <2>4. /\ End(s) = s.seqno + (s.len + Flag(s.fin)) /\ End(s) \in Nat
        /\ s.seqno + s.len <= d /\ End(s) <= Reach(pcb)
        /\ (s.fin => s.seqno + s.len = d)
    BY <1>3, <2>3 DEF Flies, End, TcpLen
  <2> DEFINE e == End(s)
             a == s.seqno
             l == s.len
             b == Flag(s.fin)
             r == Reach(pcb)
  <2>5. /\ a \in Nat /\ l \in Nat /\ e \in Nat /\ r \in Nat /\ b \in 0..1 /\ m \in a..e - 1
        /\ e = a + (l + b) /\ a + l <= d /\ e <= r
    BY <1>3, <2>1, <2>3, <2>4
  <2>6. CASE s.fin
    <3>1. b = 1 /\ a + l = d
      BY <2>3, <2>4, <2>6
    <3>2. m < edge \/ m = e - 1
      BY <2>1
    <3> HIDE DEF e, a, l, b, r, edge
    <3>3. m \in 0..Bytes /\ m < r
      BY <2>3, <2>5, <3>1
    <3>4. m < d => m < edge
      BY <2>3, <2>5, <3>1, <3>2
    <3> QED BY <3>3, <3>4 DEF r, edge
  <2>7. CASE ~ s.fin
    <3>1. b = 0 /\ m < edge
      BY <2>1, <2>3, <2>7
    <3> HIDE DEF e, a, l, b, r, edge
    <3>2. m \in 0..Bytes /\ m < r
      BY <2>3, <2>5, <3>1
    <3> QED BY <3>1, <3>2 DEF r, edge
  <2> QED BY <2>6, <2>7
<1>5. more \in SUBSET (0..Bytes) /\ got \subseteq more
  BY <1>2, <1>4
<1>6. \A m \in more : m < Reach(pcb) /\ (m < d => m < edge)
  BY <1>3, <1>4
<1> HIDE DEF more, f, got
<1>7. edge <= Place(more) + Wnd
  <2>1. got \in SUBSET more
    BY <1>5
  <2>2. Place(got) <= Place(more)
    BY <1>5, <2>1, PlaceGrows
  <2>3. Place(got) \in 0..Bytes + 1 /\ Place(more) \in 0..Bytes + 1
    BY <1>2, <1>5, PlaceIs
  <2>4. Place(got) \in Nat /\ Place(more) \in Nat /\ Wnd \in Nat
    BY <2>3, Sizes
  <2> HIDE DEF edge
  <2> QED BY <1>2, <1>3, <2>2, <2>4
<1>8. peer' = [got |-> more, edge |-> edge]
  BY <1>1, <1>2
<1>9. data' \subseteq data /\ edge <= edge /\ peer.got \subseteq more
  BY <1>1, <1>2, <1>5 DEF got
<1> QED BY <1>1, <1>2, <1>5, <1>6, <1>7, <1>8, <1>9, PeerKeeps

LEMMA ReadsStep ==
  ASSUME TypeOK, NEW d \in 0..Bytes, Follows(d), PeerReads
  PROVE  IInv'
<1> DEFINE got == peer.got
           edge == peer.edge
           n == Place(got)
           wide == Min2(n, Bytes) + Wnd
<1>1. /\ edge < wide /\ peer' = [peer EXCEPT !.edge = wide]
      /\ acks' = acks \cup {Answer(got, wide)} /\ UNCHANGED <<pcb, owner, data>>
  BY DEF PeerReads, NextPlace
<1>2. /\ peer \in [got : SUBSET (0..Bytes), edge : 0..Bytes + Wnd]
      /\ got \in SUBSET (0..Bytes) /\ edge \in 0..Bytes + Wnd /\ edge \in Nat
      /\ Wnd \in Nat /\ Bytes \in Nat /\ d \in Nat
  BY Sizes DEF TypeOK
<1>3. n \in 0..Bytes + 1 /\ n \in Nat
  BY <1>2, PlaceIs
<1>4. \A m \in got : m < Reach(pcb) /\ (m < d => m < edge)
  BY NetFacts DEF Net
<1>5. peer' = [got |-> got, edge |-> wide] /\ got \subseteq got
  BY <1>1, <1>2
<1> HIDE DEF n, edge
<1>6. wide \in 0..Bytes + Wnd /\ wide <= n + Wnd
  BY <1>2, <1>3 DEF Min2
<1>7. \A m \in got : m < Reach(pcb) /\ (m < d => m < wide)
  <2> SUFFICES ASSUME NEW m \in got PROVE m < Reach(pcb) /\ (m < d => m < wide)
    OBVIOUS
  <2>1. m \in Nat /\ m < Reach(pcb) /\ (m < d => m < edge)
    BY <1>2, <1>4
  <2> HIDE DEF wide
  <2>2. wide \in Nat
    BY <1>2, <1>6
  <2> QED BY <1>1, <1>2, <2>1, <2>2
<1>8. peer.edge <= wide /\ wide <= Place(got) + Wnd /\ data' \subseteq data
  <2> HIDE DEF wide
  <2>1. edge <= wide
    BY <1>1, <1>2, <1>6
  <2> QED BY <1>1, <1>6, <2>1 DEF edge, n
<1>9. acks' = acks \cup {Answer(got, wide)} /\ UNCHANGED <<pcb, owner>>
  BY <1>1
<1> HIDE DEF wide
<1> QED BY <1>2, <1>5, <1>6, <1>7, <1>8, <1>9, PeerKeeps

LEMMA LoseStep ==
  ASSUME TypeOK, NEW d \in 0..Bytes, Follows(d), Lose
  PROVE  IInv'
<1> DEFINE f == (owner = "closed")
<1>1. UNCHANGED <<pcb, owner, peer>> /\ data' \subseteq data /\ acks' \subseteq acks
  BY DEF Lose
<1>2. Net(pcb, d, f, data, acks, peer.got, peer.edge)
  BY NetFacts
<1>3. data' \in SUBSET data /\ acks' \in SUBSET acks
  BY <1>1
<1> HIDE DEF f
<1>4. Net(pcb, d, f, data', acks', peer.got, peer.edge)
  BY <1>2, <1>3, NetLoses
<1>5. Net(pcb, d, owner = "closed", data', acks', peer'.got, peer'.edge)
  BY <1>1, <1>4 DEF f
<1>6. /\ acks' \subseteq [ackno : 0..Bytes + 1, wnd : 0..Wnd]
      /\ peer' \in [got : SUBSET (0..Bytes), edge : 0..Bytes + Wnd]
  BY <1>1 DEF TypeOK
<1> QED BY <1>1, <1>5, <1>6, StepOfPeer
----------------------------------------------------------------------------
LEMMA Initially ==
  ASSUME Init
  PROVE  IInv
<1> DEFINE edge == peer.edge
           big == Wnd
           b == (edge = 0)
<1>1. /\ peer \in [got : {{}}, edge : Edges] /\ owner = "open" /\ data = {} /\ acks = {}
      /\ pcb = [unsent |-> <<>>, unacked |-> <<>>, lastack |-> 0, snd_nxt |-> 0, snd_lbb |-> 0,
                snd_buf |-> SndBuf, queuelen |-> 0, snd_wnd |-> edge, snd_wnd_max |-> Wnd,
                wl2 |-> 0, oversize |-> 0, cwnd |-> 2 * Mss, ssthresh |-> big,
                dupacks |-> 0, nrtx |-> 0, rtime |-> FALSE, persist |-> b,
                flags |-> {}, state |-> "ESTABLISHED"]
  BY DEF Init
<1>2. peer.got = {} /\ edge \in Edges /\ edge \in 0..Wnd
  BY <1>1, ConstantsAssumption
<1>3. /\ Bytes \in Nat /\ Wnd \in Nat /\ Mss \in Nat /\ Mss >= 1 /\ U16 \in Nat /\ QueueMax \in Nat
      /\ SndBuf \in Nat /\ SndBuf < U16 /\ 5 * Mss < U16 /\ Wnd < U16
  BY Sizes, ConstantsAssumption
<1>4. /\ 0 \in 0..Bytes /\ 0 \in 0..Bytes + 1 /\ 0 \in 0..QueueMax /\ 0 \in 0..Mss
      /\ SndBuf \in 0..U16 - 1 /\ 2 * Mss \in 0..U16 - 1 /\ big \in 0..U16 - 1
      /\ 2 * Mss >= 1 /\ big >= 1 /\ Wnd \in 0..Wnd /\ b \in BOOLEAN /\ 0 \in 0..4
  BY <1>3, ConstantsAssumption
<1>5. {} \in SUBSET Flags /\ "ESTABLISHED" \in States /\ <<>> \in Seq(Segment)
  BY DEF States
<1> HIDE DEF edge, big, b
<1>6. pcb \in Pcb
  BY <1>1, <1>2, <1>4, <1>5 DEF Pcb
<1>7. /\ pcb.unsent = <<>> /\ pcb.unacked = <<>> /\ pcb.lastack = 0 /\ pcb.snd_nxt = 0
      /\ pcb.snd_lbb = 0 /\ pcb.snd_buf = SndBuf /\ pcb.queuelen = 0 /\ pcb.snd_wnd = edge
      /\ pcb.snd_wnd_max = Wnd /\ pcb.wl2 = 0 /\ pcb.oversize = 0 /\ pcb.cwnd = 2 * Mss
      /\ pcb.ssthresh = big
  BY <1>1
<1>8. Rest(pcb, FALSE)
  <2>1. pcb.queuelen = Pbufs(pcb.unacked) + Pbufs(pcb.unsent)
    BY <1>7, PbufsOfNone
  <2>2. pcb.snd_buf = SndBuf - (pcb.snd_lbb - pcb.lastack)
    BY <1>3, <1>7
  <2>3. pcb.cwnd >= 1 /\ pcb.ssthresh >= 1 /\ pcb.snd_wnd_max = Wnd
    BY <1>4, <1>7
  <2>4. pcb.lastack <= pcb.wl2 /\ ~ (pcb.oversize > 0)
    BY <1>7
  <2> QED BY <1>6, <2>1, <2>2, <2>3, <2>4 DEF Rest
<1>9. Line(pcb, <<>>, 0, FALSE)
  <2>1. Tiled(<<>>, 0, FALSE)
    BY <1>5 DEF Tiled
  <2>2. 0 + Flag(FALSE) = 0
    BY DEF Flag
  <2>3. Spans(<<>>, pcb.lastack, 0 + Flag(FALSE))
    BY <1>7, <2>2 DEF Spans
  <2>4. Sent(pcb.unacked, pcb.lastack, pcb.snd_nxt, pcb.snd_wnd)
    BY <1>7 DEF Sent
  <2>5. pcb.lastack <= pcb.snd_nxt /\ pcb.snd_nxt <= 0 + Flag(FALSE) /\ pcb.snd_lbb = 0
    <3>1. pcb.lastack = 0 /\ pcb.snd_nxt = 0 /\ pcb.snd_lbb = 0
      BY <1>7
    <3>2. pcb.lastack <= pcb.snd_nxt /\ pcb.snd_lbb = 0
      BY ONLY <3>1
    <3>3. pcb.snd_nxt <= 0 + Flag(FALSE)
      BY ONLY <3>1 DEF Flag
    <3> QED BY <3>2, <3>3
  <2> QED BY <2>1, <2>3, <2>4, <2>5 DEF Line
<1>10. PcbInv(pcb, 0, owner = "closed")
  <2>1. pcb.unacked \o pcb.unsent = <<>>
    BY <1>5, <1>7, ConcatEmptySeq
  <2>2. (owner = "closed") = FALSE
    BY <1>1
  <2> QED BY <1>8, <1>9, <2>1, <2>2 DEF PcbInv
<1>11. Net(pcb, 0, owner = "closed", data, acks, peer.got, peer.edge)
  <2> DEFINE last == [ackno |-> 0, wnd |-> edge]
  <2>1. Heard(acks, pcb) = {last}
    BY <1>1, <1>7 DEF Heard
  <2>2. Place(peer.got) \in 0..Bytes + 1
    <3>1. peer.got \in SUBSET (0..Bytes)
      BY <1>2
    <3> QED BY <3>1, PlaceIs
  <2>3. edge \in Nat /\ Place(peer.got) \in Nat /\ edge <= Wnd
    BY <1>2, <1>3, <2>2
  <2>4. Told1(last, 0, Place(peer.got), edge)
    <3>1. last.ackno = 0 /\ last.wnd = edge
      OBVIOUS
    <3> HIDE DEF last
    <3> QED BY <2>3, <3>1 DEF Told1, Min2, Max2
  <2>5. edge <= Place(peer.got) + Wnd
    BY <1>3, <2>3
  <2> HIDE DEF last
  <2>6. \A a, c \in {last} : a.ackno < c.ackno => a.ackno + a.wnd <= c.ackno + c.wnd
    <3>1. last.ackno = 0
      BY DEF last
    <3> QED BY <3>1
  <2> QED BY <1>1, <1>2, <2>1, <2>4, <2>5, <2>6 DEF Net, edge
<1>12. Follows(0)
  BY <1>10, <1>11 DEF Follows
<1>13. TypeOK
  <2>1. peer \in [got : SUBSET (0..Bytes), edge : 0..Bytes + Wnd]
    <3>1. edge \in 0..Bytes + Wnd
      BY <1>2, <1>3
    <3>2. peer = [got |-> {}, edge |-> edge]
      BY <1>1, <1>2 DEF edge
    <3> QED BY <3>1, <3>2
  <2> QED BY <1>1, <1>6, <2>1 DEF TypeOK
<1> QED BY <1>4, <1>12, <1>13 DEF IInv

LEMMA Always ==
  ASSUME IInv, [Next]_vars
  PROVE  IInv'
<1>1. TypeOK
  BY DEF IInv
<1>2. PICK d \in 0..Bytes : Follows(d)
  BY DEF IInv
<1>3. CASE WriteData
  BY <1>1, <1>2, <1>3, WriteStep
<1>4. CASE Close
  BY <1>1, <1>2, <1>4, CloseStep
<1>5. CASE SlowTimer
  BY <1>1, <1>2, <1>5, TimerStep
<1>6. CASE \E a \in acks : AckArrives(a)
  BY <1>1, <1>2, <1>6, AckStep
<1>7. CASE \E s \in data : PeerReceives(s)
  BY <1>1, <1>2, <1>7, ReceivesStep
<1>8. CASE PeerReads
  BY <1>1, <1>2, <1>8, ReadsStep
<1>9. CASE Lose
  BY <1>1, <1>2, <1>9, LoseStep
<1>10. CASE UNCHANGED vars
  BY <1>10 DEF vars, IInv, TypeOK, Follows
<1> QED BY <1>3, <1>4, <1>5, <1>6, <1>7, <1>8, <1>9, <1>10 DEF Next

\* The queues lie in their places, without a gap, between what has been
\* acknowledged and what has been written: however the connection has been
\* written to, extended, acknowledged halfway, retransmitted and closed.
THEOREM Tiling == Spec => []QueuesTile
<1>1. IInv => QueuesTile
  <2> SUFFICES ASSUME IInv PROVE QueuesTile
    OBVIOUS
  <2>1. PICK d \in 0..Bytes : Follows(d)
    BY DEF IInv
  <2> DEFINE f == (owner = "closed")
             q == Queued
             to == d + Flag(f)
             o == (\E i \in DOMAIN q : q[i].fin /\ q[i].len > 0)
  <2>2. /\ Tiled(q, d, f) /\ Spans(q, pcb.lastack, to) /\ f \in BOOLEAN
        /\ pcb.lastack \in Nat /\ d \in Nat /\ pcb.snd_lbb \in Nat
        /\ ~ f => pcb.snd_lbb = d
        /\ f => \/ q = <<>> /\ pcb.snd_lbb \in {d, d + 1}
                \/ q # <<>> /\ pcb.snd_lbb = d + Flag(q[Len(q)].len = 0)
    <3>1. PcbInv(pcb, d, f) /\ f \in BOOLEAN
      BY <2>1 DEF Follows
    <3>2. pcb \in Pcb /\ pcb.lastack \in Nat
      BY <3>1, PcbFacts
    <3>3. pcb.snd_lbb \in Nat /\ d \in Nat
      BY <3>2, PcbFields, Sizes
    <3> QED BY <3>1, <3>2, <3>3 DEF PcbInv, Line, Queued
  <2>3. q \in Seq(Segment) /\ Len(q) \in Nat /\ DOMAIN q = 1..Len(q)
    BY <2>2 DEF Tiled
  <2> HIDE DEF q, f
  <2>4. ASSUME NEW i \in 1..Len(q)
        PROVE  /\ q[i] \in Segment /\ Whole(q[i], d, f) /\ q[i].len \in Nat
               /\ q[i].seqno \in Nat /\ q[i].fin \in BOOLEAN
               /\ End(q[i]) = q[i].seqno + (q[i].len + Flag(q[i].fin))
               /\ q[i].seqno + q[i].len <= d
               /\ (q[i].fin => f /\ q[i].seqno + q[i].len = d)
    <3>1. q[i] \in Segment /\ Whole(q[i], d, f)
      BY <2>2, <2>3 DEF Tiled
    <3> QED BY <3>1, SegmentFields DEF Whole
  <2>5. ASSUME NEW i \in 1..Len(q) - 1
        PROVE  End(q[i]) = q[i + 1].seqno /\ ~ q[i].fin
    <3>1. End(q[i]) = q[i + 1].seqno
      BY <2>2 DEF Tiled
    <3>2. i \in 1..Len(q) /\ i + 1 \in 1..Len(q)
      BY <2>3
    <3>3. ASSUME q[i].fin PROVE FALSE
      <4> DEFINE s == q[i]
                 t == q[i + 1]
      <4>1. s.seqno + s.len = d /\ t.seqno + t.len <= d /\ t.len \in Nat /\ t.seqno \in Nat
        BY <2>4, <3>2, <3>3
      <4>2. End(s) = (s.seqno + s.len) + 1
        <5>1. Flag(s.fin) = 1
          BY <3>3 DEF Flag
        <5>2. s.seqno \in Nat /\ s.len \in Nat /\ End(s) = s.seqno + (s.len + Flag(s.fin))
          BY <2>4, <3>2
        <5> HIDE DEF s
        <5> QED BY <5>1, <5>2
      <4> QED BY <2>2, <3>1, <4>1, <4>2
    <3> QED BY <3>1, <3>3
  <2>6. ASSUME q = <<>> PROVE pcb.lastack >= pcb.snd_lbb
    <3>1. pcb.lastack = to
      BY <2>2, <2>6 DEF Spans
    <3>2. CASE f
      <4>1. to = d + 1 /\ pcb.snd_lbb \in {d, d + 1}
        BY <2>2, <2>6, <3>2 DEF Flag
      <4> QED BY <2>2, <3>1, <4>1
    <3>3. CASE ~ f
      <4>1. to = d /\ pcb.snd_lbb = d
        BY <2>2, <3>3 DEF Flag
      <4> QED BY <2>2, <3>1, <4>1
    <3> QED BY <3>2, <3>3
  <2>7. ASSUME q # <<>>
        PROVE  /\ q[1].seqno <= pcb.lastack /\ pcb.lastack < End(q[1])
               /\ End(q[Len(q)]) = pcb.snd_lbb + Flag(o)
    <3>1. q[1].seqno <= pcb.lastack /\ pcb.lastack < End(q[1]) /\ End(q[Len(q)]) = to
      BY <2>2, <2>7 DEF Spans
    <3>2. Len(q) \in 1..Len(q)
      BY <2>3, <2>7, EmptySeq
    <3> DEFINE s == q[Len(q)]
    <3>3. /\ s.len \in Nat /\ s.seqno \in Nat /\ s.fin \in BOOLEAN
          /\ End(s) = s.seqno + (s.len + Flag(s.fin))
          /\ s.seqno + s.len <= d /\ (s.fin => f /\ s.seqno + s.len = d)
      BY <2>4, <3>2
    <3>4. o <=> s.fin /\ s.len > 0
      <4>1. ASSUME NEW i \in 1..Len(q), q[i].fin PROVE i = Len(q)
        <5>1. i \notin 1..Len(q) - 1
          BY <2>5, <4>1
        <5>2. i \in 1..Len(q) /\ Len(q) \in Nat
          BY <2>3
        <5> QED BY ONLY <5>1, <5>2
      <4>2. ASSUME o PROVE s.fin /\ s.len > 0
        <5>1. PICK i \in 1..Len(q) : q[i].fin /\ q[i].len > 0
          BY <2>3, <4>2
        <5>2. i = Len(q)
          BY <4>1, <5>1
        <5> QED BY <5>1, <5>2
      <4>3. ASSUME s.fin /\ s.len > 0 PROVE o
        BY <2>3, <3>2, <4>3
      <4> QED BY <4>2, <4>3
    <3> HIDE DEF s, o
    <3>5. to = pcb.snd_lbb + Flag(o)
      <4>1. CASE ~ f
        <5>1. ~ o /\ to = d + 0 /\ pcb.snd_lbb = d
          BY <2>2, <3>3, <3>4, <4>1 DEF Flag
        <5>2. Flag(o) = 0
          BY <5>1 DEF Flag
        <5> QED BY <2>2, <5>1, <5>2
      <4>2. CASE f
        <5>1. to = d + 1 /\ End(s) = d + 1
          BY <3>1, <4>2 DEF Flag, s
        <5>2. s.fin
          <6>1. CASE ~ s.fin
            <7>1. Flag(s.fin) = 0
              BY <6>1 DEF Flag
            <7> QED BY <2>2, <3>3, <5>1, <7>1
          <6> QED BY <6>1
        <5>3. pcb.snd_lbb = d + Flag(s.len = 0)
          BY <2>2, <2>7, <4>2 DEF s
        <5>4. CASE s.len = 0
          <6>1. ~ o /\ pcb.snd_lbb = d + 1
            BY <3>4, <5>3, <5>4 DEF Flag
          <6>2. Flag(o) = 0
            BY <6>1 DEF Flag
          <6>3. to = d + 1 /\ pcb.snd_lbb = d + 1 /\ d \in Nat
            BY <2>2, <5>1, <6>1
          <6> QED BY ONLY <6>2, <6>3
        <5>5. CASE s.len # 0
          <6>1. o /\ pcb.snd_lbb = d + 0
            BY <3>3, <3>4, <5>2, <5>3, <5>5 DEF Flag
          <6>2. Flag(o) = 1
            BY <6>1 DEF Flag
          <6>3. to = d + 1 /\ pcb.snd_lbb = d + 0 /\ d \in Nat
            BY <2>2, <5>1, <6>1
          <6> QED BY ONLY <6>2, <6>3
        <5> QED BY <5>4, <5>5
      <4> QED BY <4>1, <4>2
    <3> QED BY <3>1, <3>5
  <2>8. q # <<>> => Head(q) = q[1] /\ Last(q) = q[Len(q)]
    BY <2>3, EmptySeq DEF Last
  <2> HIDE DEF o
  <2>9. IF q = <<>> THEN pcb.lastack >= pcb.snd_lbb
        ELSE /\ Head(q).seqno <= pcb.lastack /\ pcb.lastack < End(Head(q))
             /\ End(Last(q)) = pcb.snd_lbb + Flag(o)
    BY <2>6, <2>7, <2>8
  <2> QED BY <2>5, <2>9 DEF QueuesTile, q, o
<1> QED BY <1>1, Initially, Always, PTL DEF Spec

\* The send buffer and the count of pbufs are what the queues hold, and the
\* room left in the last pbuf is within its segment.
THEOREM Accounting == Spec => []BufferAccounted
<1>1. IInv => BufferAccounted
  <2> SUFFICES ASSUME IInv PROVE BufferAccounted
    OBVIOUS
  <2>1. PICK d \in 0..Bytes : Follows(d)
    BY DEF IInv
  <2> DEFINE f == (owner = "closed")
  <2>2. PcbInv(pcb, d, f) /\ f \in BOOLEAN
    BY <2>1 DEF Follows
  <2> HIDE DEF f
  <2>3. /\ pcb.queuelen = Pbufs(pcb.unacked) + Pbufs(pcb.unsent)
        /\ pcb.oversize > 0 => /\ pcb.unsent # <<>>
                               /\ pcb.unsent[Len(pcb.unsent)].len + pcb.oversize <= Mss1
        /\ pcb.state = "ESTABLISHED" => pcb.snd_buf = SndBuf - (pcb.snd_lbb - pcb.lastack)
    BY <2>2, PcbFacts
  <2>4. Mss2(pcb) = Mss1
    BY <2>2, PcbFacts, MssOfWrite
  <2> QED BY <2>3, <2>4 DEF BufferAccounted, Last
<1> QED BY <1>1, Initially, Always, PTL DEF Spec

\* What is in flight is within the window that the peer has announced.
THEOREM WithinTheWindow == Spec => []EdgeRespected
<1>1. IInv => EdgeRespected
  <2> SUFFICES ASSUME IInv, NEW i \in 1..Len(pcb.unacked)
               PROVE  pcb.unacked[i].seqno + pcb.unacked[i].len <= peer.edge
    <3>1. IInv => pcb.unacked \in Seq(Segment)
      BY DEF IInv, TypeOK, Pcb
    <3>2. IInv => ToSet(pcb.unacked) = {pcb.unacked[j] : j \in 1..Len(pcb.unacked)}
      BY <3>1 DEF ToSet
    <3> QED BY <3>2 DEF EdgeRespected
  <2>1. PICK d \in 0..Bytes : Follows(d)
    BY DEF IInv
  <2>2. TypeOK
    BY DEF IInv
  <2> DEFINE s == pcb.unacked[i]
             last == [ackno |-> pcb.wl2, wnd |-> pcb.snd_wnd]
  <2>3. PcbInv(pcb, d, owner = "closed") /\ (owner = "closed") \in BOOLEAN
    BY <2>1, <2>2, NetFacts
  <2>4. /\ pcb \in Pcb /\ pcb.unacked \in Seq(Segment) /\ pcb.unsent \in Seq(Segment)
        /\ Sent(pcb.unacked, pcb.lastack, pcb.snd_nxt, pcb.snd_wnd)
        /\ Tiled(pcb.unacked \o pcb.unsent, d, owner = "closed")
    BY <2>3, PcbFacts
  <2>5. pcb.lastack \in Nat /\ pcb.lastack <= pcb.wl2
    BY <2>3, PcbFacts
  <2>6. pcb.wl2 \in 0..Bytes + 1 /\ pcb.snd_wnd \in 0..Wnd
    BY <2>4, PcbFields
  <2>7. pcb.wl2 \in Nat /\ pcb.snd_wnd \in Nat /\ d \in Nat /\ peer.edge \in Nat
    <3>1. peer.edge \in 0..Bytes + Wnd
      BY <2>2 DEF TypeOK
    <3> QED BY <2>6, <3>1, Sizes
  <2>8. s.seqno + s.len <= pcb.lastack + pcb.snd_wnd
    BY <2>4 DEF Sent
  <2>9. s.seqno + s.len <= d /\ s \in Segment
    <3> DEFINE u == pcb.unacked
               v == pcb.unsent
    <3>0. u \in Seq(Segment) /\ v \in Seq(Segment) /\ i \in 1..Len(u)
      BY <2>4
    <3>1. i \in 1..Len(u \o v) /\ (u \o v)[i] = u[i] /\ u[i] \in Segment
      <4> HIDE DEF u, v
      <4>1. Len(u \o v) = Len(u) + Len(v) /\ Len(u) \in Nat /\ Len(v) \in Nat
        BY ONLY <3>0, ConcatAt
      <4>2. (u \o v)[i] = u[i] /\ u[i] \in Segment
        BY ONLY <3>0, ConcatAt
      <4> QED BY <3>0, <4>1, <4>2
    <3>2. Whole((pcb.unacked \o pcb.unsent)[i], d, owner = "closed")
      BY <2>4, <3>1 DEF Tiled
    <3> QED BY <3>1, <3>2 DEF Whole
  <2>10. Min2(pcb.wl2, d) + pcb.snd_wnd <= peer.edge
    <3>1. last \in Heard(acks, pcb)
      BY DEF Heard
    <3>2. Told1(last, d, Place(peer.got), peer.edge)
      BY <2>1, <3>1 DEF Follows, Net
    <3>3. last.ackno = pcb.wl2 /\ last.wnd = pcb.snd_wnd
      OBVIOUS
    <3> HIDE DEF last
    <3> QED BY <3>2, <3>3 DEF Told1
  <2>11. s.seqno \in Nat /\ s.len \in Nat
    BY <2>9, SegmentFields
  <2> DEFINE m == s.seqno + s.len
             l == pcb.lastack
             w == pcb.snd_wnd
             b == pcb.wl2
             e == peer.edge
  <2>12. /\ m \in Nat /\ l \in Nat /\ w \in Nat /\ b \in Nat /\ e \in Nat /\ d \in Nat
         /\ m <= l + w /\ m <= d /\ l <= b /\ Min2(b, d) + w <= e
    <3>1. m \in Nat
      BY <2>11
    <3>2. l \in Nat /\ w \in Nat /\ b \in Nat /\ e \in Nat /\ d \in Nat /\ l <= b
      BY <2>5, <2>7
    <3>3. m <= l + w /\ m <= d
      BY <2>8, <2>9
    <3>4. Min2(b, d) + w <= e
      BY <2>10
    <3> HIDE DEF m, l, w, b, e
    <3> QED BY <3>1, <3>2, <3>3, <3>4
  <2> HIDE DEF m, l, w, b, e
  <2>13. m <= e
    <3>1. CASE b < d
      BY <2>12, <3>1 DEF Min2
    <3>2. CASE ~ (b < d)
      BY <2>12, <3>2 DEF Min2
    <3> QED BY <3>1, <3>2
  <2> QED BY <2>13 DEF m, e, s
<1> QED BY <1>1, Initially, Always, PTL DEF Spec

\* The variables stay within their types: what the pcb counts in 16 bits
\* does not wrap.
THEOREM TypeCorrect == Spec => []TypeOK
<1>1. IInv => TypeOK
  BY DEF IInv
<1> QED BY <1>1, Initially, Always, PTL DEF Spec
=============================================================================
