------------------------- MODULE ConnectionsProofs -------------------------
(***************************************************************************)
(* The safety of Connections for any number of connections, clients and    *)
(* sockets, for delegates that are considerate and a debug build.          *)
(***************************************************************************)
EXTENDS Connections, SequenceLemmas, TLAPS

\* Callbacks are made where lwIP makes them, by a function that is running and
\* of a socket.
CallbacksInPlace ==
    /\ frame.fn = "none" => frame.cb = "none"
    /\ frame.cb = "accept" => frame.fn = "input" /\ frame.stage = "handshake"
    /\ frame.cb = "sent" => frame.fn = "input" /\ frame.stage = "recv"
    /\ frame.cb = "recv" => frame.fn = "input" /\ frame.stage = "closed"
    /\ frame.cb = "closed" => frame.fn = "input" /\ frame.stage = "output"
    /\ frame.cb = "err" =>
         frame.fn = "alloc" \/ (frame.fn \in {"input", "slow"} /\ frame.stage = "free")
    /\ frame.cb # "none" => frame.sock # 0

\* While tcp_input has a connection it stays in memory, in the state that what
\* is still to be done needs, and a callback is of its socket or of one that has
\* let go of it.
InputHolds ==
    frame.fn = "input" =>
      /\ frame.pcb \in Pcb
      /\ tcp.pcb[frame.pcb].state # "FREE"
      /\ frame.stage = "accept" => tcp.pcb[frame.pcb].state = "SYN_RCVD"
      /\ frame.stage = "handshake" =>
           tcp.pcb[frame.pcb].state = "ESTABLISHED" /\ tcp.pcb[frame.pcb].arg # 0
      /\ frame.stage = "receive" =>
           /\ tcp.pcb[frame.pcb].state \in ActiveStates \ {"SYN_RCVD"}
           /\ frame.seg.ack = "data" => tcp.pcb[frame.pcb].flight = {"data", "fin"}
      /\ frame.stage \in {"accept", "receive", "handshake"} => frame.seg.kind = "ack"
      /\ frame.stage = "free" /\ tcp.pcb[frame.pcb].arg # 0 =>
           sockets[tcp.pcb[frame.pcb].arg].pcb = Nil
      /\ frame.stage # "free" /\ frame.cb # "none" => tcp.pcb[frame.pcb].arg \in {0, frame.sock}

\* The slow timer is at a connection of the list, at its end, or about to start
\* anew; tcp_alloc works for a client that has no connection.
OthersHold ==
    /\ frame.fn = "slow" =>
         /\ frame.stage = "none" => frame.cb = "none"
         /\ frame.stage \in {"none", "free"}
         /\ \/ frame.stage = "free" /\ tcp.changed
            \/ frame.pcb \in ToSet(tcp.active) \cup {Nil}
    /\ frame.fn = "alloc" => frame.conn \in Conn /\ frame.conn \notin Known

\* What tcp_input has put in a connection's window but not handed over yet.
Pending(p) ==
    IF frame.fn = "input" /\ frame.pcb = p
    THEN CASE frame.stage \in {"sent", "recv"} -> {x \in {"data", "fin"} : frame.seg[x]}
           [] frame.stage = "closed" ->
                {x \in {"data", "fin"} :
                   (x = "data" /\ frame.cb = "recv") \/ (x = "fin" /\ frame.seg.fin)}
           [] OTHER -> {}
    ELSE {}

\* A connection with a socket has not been closed and holds nothing unread but
\* that; one whose handshake is not over has neither socket nor data.
Fresh ==
    \A p \in Pcb :
      /\ tcp.pcb[p].arg # 0 =>
           /\ tcp.pcb[p].arg \in DOMAIN sockets
           /\ ~ tcp.pcb[p].rxclosed
           /\ tcp.pcb[p].unread \subseteq Pending(p)
      /\ tcp.pcb[p].state = "SYN_RCVD" =>
           /\ tcp.pcb[p].arg = 0 /\ ~ tcp.pcb[p].rxclosed
           /\ tcp.pcb[p].unread = {} /\ tcp.pcb[p].flight = {}

Told == \A s \in DOMAIN sockets : sockets[s].told = IF sockets[s].pcb = Nil THEN 1 ELSE 0

IInv ==
    /\ TypeOK /\ Attached /\ ListsSane /\ Told
    /\ CallbacksInPlace /\ InputHolds /\ OthersHold /\ Fresh

\* An ACK of data that the socket has not heard of is on its way, or tcp_input
\* is about to say so.
Due(p) ==
    \/ "data" \in tcp.pcb[p].flight
    \/ frame.fn = "input" /\ frame.pcb = p /\ frame.stage = "sent" /\ tcp.pcb[p].acked

\* Every TCP_EVENT_SENT is of a writeData of its own.
Counted ==
    /\ \A s \in DOMAIN sockets : sockets[s].sent <= sockets[s].written
    /\ \A p \in Pcb : tcp.pcb[p].arg # 0 =>
         sockets[tcp.pcb[p].arg].sent + (IF Due(p) THEN 1 ELSE 0) <= sockets[tcp.pcb[p].arg].written
    /\ frame.fn = "input" /\ frame.stage = "sent" /\ tcp.pcb[frame.pcb].acked =>
         "data" \notin tcp.pcb[frame.pcb].flight
----------------------------------------------------------------------------
\* The lists of any value of tcp.
Memory == [pcb : [Pcb -> Connection], active : Seq(Pcb), tw : SUBSET Pcb, changed : BOOLEAN]

Sane(t) ==
    /\ IsInjective(t.active)
    /\ ToSet(t.active) = {p \in Pcb : t.pcb[p].state \in ActiveStates}
    /\ t.tw = {p \in Pcb : t.pcb[p].state = "TIME_WAIT"}
    /\ \A p, q \in Pcb : t.pcb[p].state # "FREE" /\ t.pcb[q].state # "FREE"
                          /\ t.pcb[p].conn = t.pcb[q].conn => p = q

Open == {"ESTABLISHED", "CLOSE_WAIT"}

LEMMA SaneLists == (ListsSane <=> Sane(tcp)) /\ (ListsSane' <=> Sane(tcp'))
  BY Zenon DEF ListsSane, Sane, Unused

LEMMA FreedType == Freed \in Connection
  BY DEF Freed, Connection

LEMMA OffListFields ==
  ASSUME NEW t \in Memory, Sane(t), NEW p \in Pcb
  PROVE  /\ OffList(t, p) \in Memory
         /\ OffList(t, p).pcb = t.pcb /\ OffList(t, p).tw = t.tw /\ OffList(t, p).changed = TRUE
         /\ IsInjective(OffList(t, p).active)
         /\ ToSet(OffList(t, p).active) = ToSet(t.active) \ {p}
<1>1. t.active \in Seq(Pcb) /\ IsInjective(t.active)
  BY DEF Memory, Sane
<1>2. /\ RemoveFirst(t.active, p) \in Seq(Pcb) /\ IsInjective(RemoveFirst(t.active, p))
      /\ ToSet(RemoveFirst(t.active, p)) = ToSet(t.active) \ {p}
  BY <1>1, RemoveFirstSet
<1>3. OffList(t, p).active = RemoveFirst(t.active, p)
  BY DEF OffList, Memory
<1>4. OffList(t, p).pcb = t.pcb /\ OffList(t, p).tw = t.tw /\ OffList(t, p).changed = TRUE
  BY DEF OffList, Memory
<1>5. OffList(t, p) \in Memory
  BY <1>2 DEF OffList, Memory
<1> QED BY <1>2, <1>3, <1>4, <1>5

\* p, in state c now, is off the list of the active connections.
LEMMA LeavingKeepsSane ==
  ASSUME NEW t \in Memory, Sane(t), NEW p \in Pcb, NEW c \in Connection, NEW u \in Memory,
         u.pcb = [t.pcb EXCEPT ![p] = c],
         IsInjective(u.active), ToSet(u.active) = ToSet(t.active) \ {p},
         \/ c.state = "FREE" /\ u.tw = t.tw \ {p}
         \/ /\ c.state = "TIME_WAIT" /\ u.tw = t.tw \cup {p}
            /\ c.conn = t.pcb[p].conn /\ t.pcb[p].state # "FREE"
  PROVE  Sane(u)
<1>1. \A q \in Pcb : u.pcb[q] = IF q = p THEN c ELSE t.pcb[q]
  BY DEF Memory
<1>2. ToSet(u.active) = {q \in Pcb : u.pcb[q].state \in ActiveStates}
  BY <1>1 DEF Sane, ActiveStates
<1>3. u.tw = {q \in Pcb : u.pcb[q].state = "TIME_WAIT"}
  BY <1>1 DEF Sane
<1>4. ASSUME NEW q \in Pcb, NEW r \in Pcb, u.pcb[q].state # "FREE", u.pcb[r].state # "FREE",
             u.pcb[q].conn = u.pcb[r].conn
      PROVE  q = r
  <2>1. /\ t.pcb[q].state # "FREE" \/ q = p
        /\ t.pcb[r].state # "FREE" \/ r = p
    BY <1>1, <1>4
  <2>2. CASE c.state = "FREE"
    <3>1. q # p /\ r # p
      BY <1>1, <1>4, <2>2
    <3> QED BY <1>1, <1>4, <2>1, <3>1 DEF Sane
  <2>3. CASE c.conn = t.pcb[p].conn /\ t.pcb[p].state # "FREE"
    <3>1. t.pcb[q].conn = t.pcb[r].conn
      BY <1>1, <1>4, <2>3
    <3> QED BY <2>1, <2>3, <3>1 DEF Sane
  <2> QED BY <2>2, <2>3
<1> QED BY <1>2, <1>3, <1>4 DEF Sane

LEMMA FreeKeepsSane ==
  ASSUME NEW t \in Memory, Sane(t), NEW p \in Pcb
  PROVE  /\ Free(t, p) \in Memory
         /\ Free(t, p).pcb = [t.pcb EXCEPT ![p] = Freed]
         /\ Free(t, p).changed = TRUE
         /\ ToSet(Free(t, p).active) = ToSet(t.active) \ {p}
         /\ Sane(Free(t, p))
<1> DEFINE o == OffList(t, p)
           u == Free(t, p)
<1>1. /\ o \in Memory /\ o.pcb = t.pcb /\ o.tw = t.tw /\ o.changed = TRUE
      /\ IsInjective(o.active) /\ ToSet(o.active) = ToSet(t.active) \ {p}
  BY OffListFields
<1>2. u = [o EXCEPT !.pcb[p] = Freed, !.tw = @ \ {p}]
  BY DEF Free
<1> HIDE DEF o, u
<1>3. u \in Memory
  BY <1>1, <1>2, FreedType DEF Memory
<1>4. /\ u.pcb = [t.pcb EXCEPT ![p] = Freed] /\ u.tw = t.tw \ {p}
      /\ u.active = o.active /\ u.changed = TRUE
  BY <1>1, <1>2 DEF Memory
<1>5. Freed.state = "FREE"
  BY DEF Freed
<1>6. Sane(u)
  BY <1>1, <1>3, <1>4, <1>5, FreedType, LeavingKeepsSane
<1> QED BY <1>1, <1>3, <1>4, <1>6 DEF u

LEMMA TimeWaitKeepsSane ==
  ASSUME NEW t \in Memory, Sane(t), NEW p \in Pcb, t.pcb[p].state # "FREE"
  PROVE  /\ TimeWait(t, p) \in Memory
         /\ TimeWait(t, p).pcb =
              [t.pcb EXCEPT ![p] = [t.pcb[p] EXCEPT !.state = "TIME_WAIT", !.flight = {}]]
         /\ TimeWait(t, p).changed = TRUE
         /\ ToSet(TimeWait(t, p).active) = ToSet(t.active) \ {p}
         /\ Sane(TimeWait(t, p))
<1> DEFINE o == OffList(t, p)
           u == TimeWait(t, p)
           c == [t.pcb[p] EXCEPT !.state = "TIME_WAIT", !.flight = {}]
<1>1. /\ o \in Memory /\ o.pcb = t.pcb /\ o.tw = t.tw /\ o.changed = TRUE
      /\ IsInjective(o.active) /\ ToSet(o.active) = ToSet(t.active) \ {p}
  BY OffListFields
<1>2. u = [o EXCEPT !.pcb[p].state = "TIME_WAIT", !.pcb[p].flight = {}, !.tw = @ \cup {p}]
  BY DEF TimeWait
<1>3. c \in Connection /\ c.state = "TIME_WAIT" /\ c.conn = t.pcb[p].conn
  <2>1. t.pcb[p] \in Connection
    BY DEF Memory
  <2> QED BY ONLY <2>1 DEF Connection
<1> HIDE DEF o, u
<1>4. u.pcb = [t.pcb EXCEPT ![p] = c]
  BY <1>1, <1>2 DEF Memory
<1>5. u.tw = t.tw \cup {p} /\ u.active = o.active /\ u.changed = TRUE
  BY <1>1, <1>2 DEF Memory
<1> HIDE DEF c
<1>6. u \in Memory
  <2>1. u = [[o EXCEPT !.pcb = u.pcb] EXCEPT !.tw = u.tw]
    BY <1>1, <1>2 DEF Memory
  <2>2. u.pcb \in [Pcb -> Connection] /\ u.tw \in SUBSET Pcb
    BY <1>3, <1>4, <1>5 DEF Memory
  <2> QED BY <1>1, <2>1, <2>2 DEF Memory
<1>7. Sane(u)
  BY <1>1, <1>3, <1>4, <1>5, <1>6, LeavingKeepsSane
<1> QED BY <1>1, <1>4, <1>5, <1>6, <1>7 DEF u, c

\* What a list knows of a connection: its kind of state and its ends.
SameKind(c, d) ==
    /\ c.conn = d.conn
    /\ c.state \in ActiveStates <=> d.state \in ActiveStates
    /\ c.state = "TIME_WAIT" <=> d.state = "TIME_WAIT"
    /\ c.state = "FREE" <=> d.state = "FREE"

LEMMA SameKindSane ==
  ASSUME NEW t \in Memory, Sane(t), NEW p \in Pcb, NEW c \in Connection, SameKind(c, t.pcb[p]),
         NEW u \in Memory, u.pcb = [t.pcb EXCEPT ![p] = c], u.active = t.active, u.tw = t.tw
  PROVE  Sane(u)
<1>1. \A q \in Pcb : SameKind(u.pcb[q], t.pcb[q])
  BY DEF Memory, SameKind
<1>2. ToSet(u.active) = {q \in Pcb : u.pcb[q].state \in ActiveStates}
  BY <1>1 DEF Sane, SameKind
<1>3. u.tw = {q \in Pcb : u.pcb[q].state = "TIME_WAIT"}
  BY <1>1 DEF Sane, SameKind
<1>4. ASSUME NEW q \in Pcb, NEW r \in Pcb, u.pcb[q].state # "FREE", u.pcb[r].state # "FREE",
             u.pcb[q].conn = u.pcb[r].conn
      PROVE  q = r
  BY <1>1, <1>4 DEF Sane, SameKind
<1> QED BY <1>2, <1>3, <1>4 DEF Sane

LEMMA ChangeKeepsSane ==
  ASSUME NEW t \in Memory, Sane(t), NEW p \in Pcb, NEW c \in Connection, SameKind(c, t.pcb[p])
  PROVE  /\ [t EXCEPT !.pcb[p] = c] \in Memory
         /\ [t EXCEPT !.pcb[p] = c].pcb = [t.pcb EXCEPT ![p] = c]
         /\ [t EXCEPT !.pcb[p] = c].changed = t.changed
         /\ [t EXCEPT !.pcb[p] = c].active = t.active
         /\ Sane([t EXCEPT !.pcb[p] = c])
<1> DEFINE u == [t EXCEPT !.pcb[p] = c]
<1>1. /\ u.pcb = [t.pcb EXCEPT ![p] = c] /\ u.changed = t.changed
      /\ u.active = t.active /\ u.tw = t.tw
  BY DEF Memory
<1>2. u \in Memory
  BY DEF Memory
<1> HIDE DEF u
<1>3. Sane(u)
  BY <1>1, <1>2, SameKindSane
<1> QED BY <1>1, <1>2, <1>3 DEF u

\* tcp_close of an open connection, which then has another state.
LEMMA CloseOfOpen ==
  ASSUME NEW t \in Memory, Sane(t), NEW p \in Pcb, t.pcb[p].state \in Open
  PROVE  \E c \in Connection :
           /\ TcpClose(t, p) \in Memory /\ Sane(TcpClose(t, p))
           /\ TcpClose(t, p).pcb = [t.pcb EXCEPT ![p] = c]
           /\ c.state \notin Open \cup {"SYN_RCVD"}
           /\ c.arg \in {t.pcb[p].arg, 0} /\ c.conn \in {t.pcb[p].conn, Nil}
           /\ t.pcb[p].unread = {} => c.state # "FREE"
           /\ \/ TcpClose(t, p).changed
              \/ TcpClose(t, p).changed = t.changed /\ TcpClose(t, p).active = t.active
<1> DEFINE u == TcpClose(t, p)
           d == [t EXCEPT !.pcb[p].rxclosed = TRUE]
           k == [t.pcb[p] EXCEPT !.rxclosed = TRUE]
<1>1. /\ k \in Connection /\ k.arg = t.pcb[p].arg /\ k.conn = t.pcb[p].conn
      /\ k.state = t.pcb[p].state /\ k.unread = t.pcb[p].unread
  <2>1. t.pcb[p] \in Connection
    BY DEF Memory
  <2> QED BY ONLY <2>1 DEF Connection
<1>2. d = [t EXCEPT !.pcb[p] = k]
  OBVIOUS
<1>3. SameKind(k, t.pcb[p])
  BY <1>1 DEF SameKind
<1>4. /\ d \in Memory /\ d.pcb = [t.pcb EXCEPT ![p] = k] /\ d.changed = t.changed
      /\ d.active = t.active /\ Sane(d)
  <2> HIDE DEF d, k
  <2>1. /\ [t EXCEPT !.pcb[p] = k] \in Memory
        /\ [t EXCEPT !.pcb[p] = k].pcb = [t.pcb EXCEPT ![p] = k]
        /\ [t EXCEPT !.pcb[p] = k].changed = t.changed
        /\ [t EXCEPT !.pcb[p] = k].active = t.active
        /\ Sane([t EXCEPT !.pcb[p] = k])
    BY ONLY <1>1, <1>3, t \in Memory, Sane(t), p \in Pcb, ChangeKeepsSane
  <2> QED BY ONLY <1>2, <2>1
<1>5. d.pcb[p] = k /\ t.pcb[p].state \in {"ESTABLISHED", "CLOSE_WAIT"}
  BY <1>4 DEF Memory, Open
<1>6. ASSUME NEW state \in {"FIN_WAIT_1", "LAST_ACK"},
             u = [d EXCEPT !.pcb[p].state = state, !.pcb[p].flight = @ \cup {"fin"}]
      PROVE  \E c \in Connection :
               /\ u \in Memory /\ Sane(u) /\ u.pcb = [t.pcb EXCEPT ![p] = c]
               /\ c.state \notin Open \cup {"SYN_RCVD"} /\ c.state # "FREE"
               /\ c.arg = k.arg /\ c.conn = k.conn
               /\ u.changed = t.changed /\ u.active = t.active
  <2> DEFINE c == [k EXCEPT !.state = state, !.flight = @ \cup {"fin"}]
  <2>1. /\ c \in Connection /\ c.arg = k.arg /\ c.conn = k.conn /\ c.state = state
    BY <1>1 DEF Connection, ActiveStates
  <2>2. SameKind(c, d.pcb[p])
    BY <1>1, <1>5, <2>1 DEF SameKind, ActiveStates
  <2> HIDE DEF d, k, u
  <2>3. u = [d EXCEPT !.pcb[p] = c]
    BY <1>4, <1>5, <1>6 DEF Memory
  <2> HIDE DEF c
  <2>4. /\ u \in Memory /\ u.pcb = [d.pcb EXCEPT ![p] = c] /\ u.changed = d.changed
        /\ u.active = d.active /\ Sane(u)
    <3>1. /\ [d EXCEPT !.pcb[p] = c] \in Memory
          /\ [d EXCEPT !.pcb[p] = c].pcb = [d.pcb EXCEPT ![p] = c]
          /\ [d EXCEPT !.pcb[p] = c].changed = d.changed
          /\ [d EXCEPT !.pcb[p] = c].active = d.active
          /\ Sane([d EXCEPT !.pcb[p] = c])
      BY ONLY <1>4, <2>1, <2>2, p \in Pcb, ChangeKeepsSane
    <3> QED BY ONLY <2>3, <3>1
  <2>5. u.pcb = [t.pcb EXCEPT ![p] = c]
    BY <1>4, <2>4 DEF Memory
  <2> QED BY <1>4, <2>1, <2>4, <2>5 DEF Open
<1>7. CASE t.pcb[p].state = "ESTABLISHED" /\ t.pcb[p].unread = {}
  <2>1. u = [d EXCEPT !.pcb[p].state = "FIN_WAIT_1", !.pcb[p].flight = @ \cup {"fin"}]
    BY <1>7 DEF TcpClose
  <2> HIDE DEF u, d, k
  <2> QED BY <1>1, <1>6, <2>1 DEF u
<1>8. CASE t.pcb[p].state = "CLOSE_WAIT" /\ t.pcb[p].unread = {}
  <2>1. u = [d EXCEPT !.pcb[p].state = "LAST_ACK", !.pcb[p].flight = @ \cup {"fin"}]
    BY <1>8 DEF TcpClose
  <2> HIDE DEF u, d, k
  <2> QED BY <1>1, <1>6, <2>1 DEF u
<1>9. CASE t.pcb[p].state = "ESTABLISHED" /\ t.pcb[p].unread # {}
  <2> DEFINE c == [k EXCEPT !.state = "TIME_WAIT", !.flight = {}]
  <2>1. u = TimeWait(d, p)
    BY <1>9 DEF TcpClose
  <2> HIDE DEF u, d, k
  <2>2. d.pcb[p].state # "FREE"
    BY <1>1, <1>5
  <2>3. /\ u \in Memory /\ Sane(u) /\ u.changed = TRUE /\ u.pcb = [d.pcb EXCEPT ![p] = c]
    BY <1>4, <1>5, <2>1, <2>2, TimeWaitKeepsSane
  <2>4. c \in Connection /\ c.state = "TIME_WAIT" /\ c.arg = k.arg /\ c.conn = k.conn
    BY <1>1 DEF Connection
  <2> HIDE DEF c
  <2>5. u.pcb = [t.pcb EXCEPT ![p] = c]
    BY <1>4, <2>3 DEF Memory
  <2> QED BY <1>1, <2>3, <2>4, <2>5 DEF u, Open
<1>10. CASE t.pcb[p].state = "CLOSE_WAIT" /\ t.pcb[p].unread # {}
  <2>1. u = Free(d, p)
    BY <1>10 DEF TcpClose
  <2> HIDE DEF u, d, k
  <2>2. /\ u \in Memory /\ Sane(u) /\ u.changed = TRUE /\ u.pcb = [d.pcb EXCEPT ![p] = Freed]
    BY <1>4, <2>1, FreeKeepsSane
  <2>3. u.pcb = [t.pcb EXCEPT ![p] = Freed]
    BY <1>4, <2>2 DEF Memory
  <2>4. Freed.state = "FREE" /\ Freed.arg = 0 /\ Freed.conn = Nil
    BY DEF Freed
  <2> QED BY <1>10, <2>2, <2>3, <2>4, FreedType DEF u, Open
<1> QED BY <1>5, <1>7, <1>8, <1>9, <1>10

LEMMA EndedFields ==
  ASSUME sockets \in Seq(Socket), NEW s \in DOMAIN sockets
  PROVE  /\ Ended(s) \in Seq(Socket) /\ DOMAIN Ended(s) = DOMAIN sockets
         /\ Len(Ended(s)) = Len(sockets)
         /\ Ended(s)[s].pcb = Nil /\ Ended(s)[s].told = sockets[s].told + 1
         /\ Ended(s)[s].sent = sockets[s].sent /\ Ended(s)[s].written = sockets[s].written
         /\ \A r \in DOMAIN sockets : r # s => Ended(s)[r] = sockets[r]
<1> DEFINE e == [sockets[s] EXCEPT !.pcb = Nil, !.told = @ + 1]
<1>1. Ended(s) = [sockets EXCEPT ![s] = e]
  BY DEF Ended
<1>2. sockets[s] \in Socket
  OBVIOUS
<1>3. e.pcb = Nil /\ e.told = sockets[s].told + 1
  BY <1>2 DEF Socket
<1>4. e.sent = sockets[s].sent /\ e.written = sockets[s].written
  BY <1>2 DEF Socket
<1>5. e \in Socket
  <2>1. /\ sockets[s].told + 1 \in Nat /\ sockets[s].sent \in Nat
        /\ sockets[s].written \in 0..MaxWrites
    BY <1>2 DEF Socket
  <2> DEFINE n == sockets[s].told + 1
  <2>2. e = [sockets[s] EXCEPT !.pcb = Nil, !.told = n]
    OBVIOUS
  <2> HIDE DEF e
  <2> HIDE DEF n
  <2>3. n \in Nat
    BY <2>1 DEF n
  <2> QED BY <1>2, <2>2, <2>3 DEF Socket
<1> HIDE DEF e
<1> QED BY <1>1, <1>3, <1>4, <1>5
----------------------------------------------------------------------------
Frames ==
    [fn : {"none", "input", "alloc", "slow"}, pcb : Pcb \cup {Nil},
     conn : Conn \cup {Nil}, prev : Pcb \cup {Nil}, stamped : SUBSET Pcb,
     stage : Stages, seg : Segments, cb : Callbacks \cup {"none"}, sock : Nat]

LEMMA Typed ==
  /\ TypeOK <=> /\ tcp \in Memory /\ sockets \in Seq(Socket)
                /\ frame \in Frames /\ frame.sock \in 0..Len(sockets)
  /\ TypeOK' <=> /\ tcp' \in Memory /\ sockets' \in Seq(Socket)
                 /\ frame' \in Frames /\ frame'.sock \in 0..Len(sockets')
  BY DEF TypeOK, Memory, Frames

LEMMA NoFrameType ==
  NoFrame \in Frames /\ NoFrame.fn = "none" /\ NoFrame.cb = "none" /\ NoFrame.sock = 0
<1>1. Bare("ack") \in Segments
  BY DEF Bare, Segments
<1> QED BY <1>1 DEF NoFrame, Frames, Stages

\* tcp_input is about to free p.
Freeing(p) == frame.fn = "input" /\ frame.pcb = p /\ frame.stage = "free"

\* A step that ends no connection and no socket.
LEMMA NoneEnds ==
  ASSUME IInv, sockets' \in Seq(Socket), DOMAIN sockets' = DOMAIN sockets,
         \A s \in DOMAIN sockets : sockets'[s].pcb = sockets[s].pcb
                                   /\ sockets'[s].told = sockets[s].told,
         \A p \in Pcb :
           /\ tcp'.pcb[p].arg = tcp.pcb[p].arg /\ tcp'.pcb[p].rxclosed = tcp.pcb[p].rxclosed
           /\ tcp'.pcb[p].state \in Open <=> tcp.pcb[p].state \in Open
           /\ tcp'.pcb[p].state = "SYN_RCVD" => tcp'.pcb[p] = tcp.pcb[p]
           /\ tcp.pcb[p].arg # 0 => tcp'.pcb[p].unread \subseteq Pending(p)'
           /\ tcp.pcb[p].arg # 0 /\ Freeing(p) => Freeing(p)'
  PROVE  Attached' /\ Fresh' /\ Told'
<1>1. Attached'
  <2>1. ASSUME NEW s \in DOMAIN sockets', sockets'[s].pcb # Nil
        PROVE  /\ tcp'.pcb[sockets'[s].pcb].arg = s
               /\ tcp'.pcb[sockets'[s].pcb].state \in {"ESTABLISHED", "CLOSE_WAIT"}
    <3>1. sockets[s] \in Socket /\ sockets[s].pcb # Nil /\ sockets'[s].pcb = sockets[s].pcb
      BY <2>1 DEF IInv, TypeOK
    <3>2. sockets[s].pcb \in Pcb
      BY <3>1 DEF Socket
    <3> QED BY <2>1, <3>1, <3>2 DEF IInv, Attached, Open
  <2>2. ASSUME NEW p \in Pcb, tcp'.pcb[p].arg # 0
        PROVE  \/ sockets'[tcp'.pcb[p].arg].pcb = p
               \/ frame'.fn = "input" /\ frame'.pcb = p /\ frame'.stage = "free"
    BY <2>2 DEF IInv, Attached, Fresh, Freeing
  <2>3. ASSUME NEW p \in Pcb, tcp'.pcb[p].arg = 0,
               tcp'.pcb[p].state \in {"ESTABLISHED", "CLOSE_WAIT"}
        PROVE  tcp'.pcb[p].rxclosed
    BY <2>3 DEF IInv, Attached, Open
  <2> QED BY <2>1, <2>2, <2>3 DEF Attached
<1>2. Fresh'
  BY DEF IInv, Fresh
<1>3. Told'
  BY DEF IInv, Told
<1> QED BY <1>1, <1>2, <1>3

\* A step that ends the connection p, and its socket if it has one.
LEMMA OneEnds ==
  ASSUME IInv, NEW p \in Pcb, NEW c \in Connection, tcp'.pcb = [tcp.pcb EXCEPT ![p] = c],
         c.arg = 0, c.state \notin Open \cup {"SYN_RCVD"},
         \/ sockets' = sockets /\ \A s \in DOMAIN sockets : sockets[s].pcb # p
         \/ \E s \in DOMAIN sockets : sockets[s].pcb = p /\ sockets' = Ended(s),
         \A q \in Pcb \ {p} :
           /\ tcp.pcb[q].arg # 0 => tcp.pcb[q].unread \subseteq Pending(q)'
           /\ tcp.pcb[q].arg # 0 /\ Freeing(q) => Freeing(q)'
  PROVE  /\ Attached' /\ Fresh' /\ Told'
         /\ sockets' \in Seq(Socket) /\ Len(sockets') = Len(sockets)
         /\ \A s \in DOMAIN sockets : sockets[s].pcb = Nil => sockets'[s].pcb = Nil
<1>1. /\ sockets \in Seq(Socket) /\ tcp \in Memory /\ Nil \notin Pcb
      /\ \A q \in Pcb : tcp'.pcb[q] = IF q = p THEN c ELSE tcp.pcb[q]
  BY Typed, ConstantsAssumption DEF IInv, Memory
<1>2. /\ sockets' \in Seq(Socket) /\ Len(sockets') = Len(sockets)
      /\ DOMAIN sockets' = DOMAIN sockets
      /\ \A r \in DOMAIN sockets :
           IF sockets[r].pcb = p THEN sockets'[r].pcb = Nil /\ sockets'[r].told = sockets[r].told + 1
           ELSE sockets'[r] = sockets[r]
  <2>1. CASE sockets' = sockets /\ \A s \in DOMAIN sockets : sockets[s].pcb # p
    BY <1>1, <2>1
  <2>2. ASSUME NEW s \in DOMAIN sockets, sockets[s].pcb = p, sockets' = Ended(s)
        PROVE  <1>2
    <3>1. \A r \in DOMAIN sockets : sockets[r].pcb = p => r = s
      BY <1>1, <2>2 DEF IInv, Attached
    <3> QED BY <1>1, <2>2, <3>1, EndedFields
  <2> QED BY <2>1, <2>2
<1>3. Attached'
  <2>1. ASSUME NEW s \in DOMAIN sockets', sockets'[s].pcb # Nil
        PROVE  /\ tcp'.pcb[sockets'[s].pcb].arg = s
               /\ tcp'.pcb[sockets'[s].pcb].state \in {"ESTABLISHED", "CLOSE_WAIT"}
    <3>1. sockets[s] \in Socket /\ sockets[s].pcb # p /\ sockets'[s] = sockets[s]
      BY <1>1, <1>2, <2>1
    <3>2. sockets[s].pcb \in Pcb
      BY <2>1, <3>1 DEF Socket
    <3> QED BY <1>1, <1>2, <2>1, <3>1, <3>2 DEF IInv, Attached
  <2>2. ASSUME NEW q \in Pcb, tcp'.pcb[q].arg # 0
        PROVE  \/ sockets'[tcp'.pcb[q].arg].pcb = q
               \/ frame'.fn = "input" /\ frame'.pcb = q /\ frame'.stage = "free"
    <3>1. q # p /\ tcp'.pcb[q] = tcp.pcb[q] /\ tcp.pcb[q].arg \in DOMAIN sockets
      BY <1>1, <2>2 DEF IInv, Fresh
    <3> QED BY <1>2, <2>2, <3>1 DEF IInv, Attached, Freeing
  <2>3. ASSUME NEW q \in Pcb, tcp'.pcb[q].arg = 0,
               tcp'.pcb[q].state \in {"ESTABLISHED", "CLOSE_WAIT"}
        PROVE  tcp'.pcb[q].rxclosed
    BY <1>1, <2>3 DEF IInv, Attached, Open
  <2> QED BY <2>1, <2>2, <2>3 DEF Attached
<1>4. Fresh'
  BY <1>1, <1>2 DEF IInv, Fresh
<1>5. Told'
  BY <1>1, <1>2 DEF IInv, Told
<1> QED BY <1>1, <1>2, <1>3, <1>4, <1>5

----------------------------------------------------------------------------
\* What a delegate is allowed to call, and of which socket.
LEMMA Callable ==
  ASSUME IInv, MayCall \subseteq Considerate, NEW s \in DOMAIN sockets, NEW do, MayAct(s, do)
  PROVE  /\ sockets[s].pcb \in Pcb /\ s # 0
         /\ tcp.pcb[sockets[s].pcb].arg = s /\ tcp.pcb[sockets[s].pcb].state \in Open
         /\ frame.fn = "slow" => frame.stage = "free"
         /\ frame.fn = "input" => frame.stage \in {"handshake", "recv", "closed", "output", "free"}
         /\ frame.fn = "input" /\ frame.pcb = sockets[s].pcb =>
              /\ frame.stage # "free"
              /\ \/ do = "write"
                 \/ do = "close" /\ frame.stage = "output" /\ tcp.pcb[sockets[s].pcb].unread = {}
<1>1. /\ sockets[s] \in Socket /\ sockets[s].pcb \in Pcb /\ s # 0
      /\ tcp.pcb[sockets[s].pcb].arg = s /\ tcp.pcb[sockets[s].pcb].state \in Open
  <2>1. sockets[s] \in Socket /\ sockets \in Seq(Socket)
    BY Typed DEF IInv
  <2>2. sockets[s].pcb \in Pcb /\ s # 0
    BY <2>1 DEF MayAct, Socket
  <2> QED BY <2>1, <2>2 DEF IInv, MayAct, Attached, Open
<1>2. frame.fn # "none" =>
        /\ frame.cb \in Callbacks
        /\ [in |-> frame.cb, own |-> s = frame.sock, do |-> do] \in Considerate
  BY DEF IInv, TypeOK, MayAct
<1>3. frame.fn = "slow" => frame.stage = "free"
  BY <1>2 DEF IInv, OthersHold, Callbacks
<1>4. frame.fn = "input" => frame.stage \in {"handshake", "recv", "closed", "output", "free"}
  BY <1>2 DEF IInv, CallbacksInPlace, Callbacks
<1>5. ASSUME frame.fn = "input", frame.pcb = sockets[s].pcb
      PROVE  /\ frame.stage # "free"
             /\ \/ do = "write"
                \/ do = "close" /\ frame.stage = "output" /\ tcp.pcb[sockets[s].pcb].unread = {}
  <2>1. frame.stage # "free"
    BY <1>1, <1>5, ConstantsAssumption DEF IInv, InputHolds
  <2>2. frame.sock = s
    BY <1>1, <1>2, <1>5, <2>1 DEF IInv, InputHolds, Callbacks
  <2>3. do = "write" \/ (frame.cb = "closed" /\ do = "close")
    BY <1>2, <1>5, <2>2 DEF Considerate
  <2>4. CASE frame.cb = "closed" /\ do = "close"
    <3>1. frame.stage = "output" /\ Pending(sockets[s].pcb) = {}
      BY <1>5, <2>4 DEF IInv, CallbacksInPlace, Pending
    <3> QED BY <1>1, <2>1, <2>4, <3>1 DEF IInv, Fresh
  <2> QED BY <2>1, <2>3, <2>4
<1> QED BY <1>1, <1>3, <1>4, <1>5

\* close() or reset() of the socket s: its connection is in state c now.
LEMMA SocketEnds ==
  ASSUME IInv, MayCall \subseteq Considerate, NEW s \in DOMAIN sockets,
         NEW do \in {"close", "reset"}, MayAct(s, do),
         NEW c \in Connection, tcp' \in Memory, Sane(tcp'),
         tcp'.pcb = [tcp.pcb EXCEPT ![sockets[s].pcb] = c],
         c.arg = 0, c.state \notin Open \cup {"SYN_RCVD"},
         c.conn \in {tcp.pcb[sockets[s].pcb].conn, Nil},
         do = "close" /\ tcp.pcb[sockets[s].pcb].unread = {} => c.state # "FREE",
         \/ tcp'.changed
         \/ tcp'.changed = tcp.changed /\ tcp'.active = tcp.active,
         sockets' = Ended(s), frame' = frame
  PROVE  IInv'
<1> DEFINE p == sockets[s].pcb
<1>1. /\ p \in Pcb /\ s # 0 /\ tcp.pcb[p].arg = s /\ tcp.pcb[p].state \in Open
      /\ frame.fn = "slow" => frame.stage = "free"
      /\ frame.fn = "input" => frame.stage \in {"handshake", "recv", "closed", "output", "free"}
      /\ frame.fn = "input" /\ frame.pcb = p =>
           do = "close" /\ frame.stage = "output" /\ tcp.pcb[p].unread = {}
  BY Callable
<1>2. \A q \in Pcb : tcp'.pcb[q] = IF q = p THEN c ELSE tcp.pcb[q]
  BY Typed DEF IInv, Memory
<1>3. \A q \in Pcb : Pending(q)' = Pending(q) /\ (Freeing(q)' <=> Freeing(q))
  BY DEF Pending, Freeing
<1>4. /\ Attached' /\ Fresh' /\ Told'
      /\ sockets' \in Seq(Socket) /\ Len(sockets') = Len(sockets)
      /\ \A r \in DOMAIN sockets : sockets[r].pcb = Nil => sockets'[r].pcb = Nil
  BY <1>1, <1>3, OneEnds DEF IInv, Fresh
<1>5. TypeOK' /\ ListsSane' /\ CallbacksInPlace'
  BY <1>4, Typed, SaneLists DEF IInv, CallbacksInPlace
<1>6. InputHolds'
  <2>1. CASE frame.fn = "input" /\ frame.pcb = p
    BY <1>1, <1>2, <2>1 DEF InputHolds
  <2>2. CASE frame.fn = "input" /\ frame.pcb # p
    <3>1. frame.pcb \in Pcb /\ tcp'.pcb[frame.pcb] = tcp.pcb[frame.pcb]
      BY <1>2, <2>2 DEF IInv, InputHolds
    <3>2. tcp.pcb[frame.pcb].arg # 0 => tcp.pcb[frame.pcb].arg \in DOMAIN sockets
      BY <3>1 DEF IInv, Fresh
    <3> QED BY <1>1, <1>4, <2>2, <3>1, <3>2 DEF IInv, InputHolds
  <2> QED BY <2>1, <2>2 DEF InputHolds
<1>7. OthersHold'
  <2>1. \A q \in Pcb : tcp'.pcb[q].conn \in {tcp.pcb[q].conn, Nil}
    BY <1>2
  <2>2. frame.fn = "alloc" => frame.conn \in Conn /\ frame.conn \notin Known'
    BY <2>1, ConstantsAssumption DEF IInv, OthersHold, Known
  <2> QED BY <1>1, <2>2 DEF IInv, OthersHold
<1> QED BY <1>4, <1>5, <1>6, <1>7 DEF IInv

LEMMA ResetStep ==
  ASSUME IInv, MayCall \subseteq Considerate, NEW s \in DOMAIN sockets, Reset(s)
  PROVE  IInv'
<1> DEFINE p == sockets[s].pcb
<1>1. MayAct(s, "reset") /\ sockets' = Ended(s) /\ frame' = frame /\ tcp' = Free(tcp, p)
  BY DEF Reset
<1>2. p \in Pcb /\ tcp \in Memory /\ Sane(tcp)
  BY <1>1, Callable, Typed, SaneLists DEF IInv
<1>3. /\ tcp' \in Memory /\ tcp'.pcb = [tcp.pcb EXCEPT ![p] = Freed]
      /\ tcp'.changed = TRUE /\ Sane(tcp')
  BY <1>1, <1>2, FreeKeepsSane
<1>4. Freed.arg = 0 /\ Freed.state = "FREE" /\ Freed.conn = Nil
  BY DEF Freed
<1> QED BY <1>1, <1>3, <1>4, FreedType, SocketEnds DEF Open

LEMMA CloseStep ==
  ASSUME IInv, MayCall \subseteq Considerate, Build = "debug", NEW s \in DOMAIN sockets, Close(s)
  PROVE  IInv'
<1> DEFINE p == sockets[s].pcb
           t == [tcp EXCEPT !.pcb[p].arg = 0]
           k == [tcp.pcb[p] EXCEPT !.arg = 0]
<1>1. MayAct(s, "close") /\ sockets' = Ended(s) /\ frame' = frame /\ tcp' = TcpClose(t, p)
  BY DEF Close
<1>2. p \in Pcb /\ tcp \in Memory /\ Sane(tcp) /\ tcp.pcb[p].state \in Open
  BY <1>1, Callable, Typed, SaneLists DEF IInv
<1>3. /\ k \in Connection /\ k.arg = 0 /\ k.conn = tcp.pcb[p].conn
      /\ k.state = tcp.pcb[p].state /\ k.unread = tcp.pcb[p].unread
  <2>1. tcp.pcb[p] \in Connection
    BY <1>2 DEF Memory
  <2> HIDE DEF p
  <2> QED BY <2>1 DEF Connection
<1>4. t = [tcp EXCEPT !.pcb[p] = k]
  OBVIOUS
<1>5. SameKind(k, tcp.pcb[p])
  BY <1>3 DEF SameKind
<1> HIDE DEF t, k
<1>6. /\ t \in Memory /\ t.pcb = [tcp.pcb EXCEPT ![p] = k] /\ t.changed = tcp.changed
      /\ t.active = tcp.active /\ Sane(t)
  <2>1. /\ [tcp EXCEPT !.pcb[p] = k] \in Memory
        /\ [tcp EXCEPT !.pcb[p] = k].pcb = [tcp.pcb EXCEPT ![p] = k]
        /\ [tcp EXCEPT !.pcb[p] = k].changed = tcp.changed
        /\ [tcp EXCEPT !.pcb[p] = k].active = tcp.active
        /\ Sane([tcp EXCEPT !.pcb[p] = k])
    <3> HIDE DEF p
    <3> QED BY ONLY <1>2, <1>3, <1>5, ChangeKeepsSane
  <2> QED BY ONLY <1>4, <2>1
<1>7. t.pcb[p] = k
  BY <1>2, <1>6 DEF Memory
<1>8. PICK c \in Connection :
        /\ tcp' \in Memory /\ Sane(tcp') /\ tcp'.pcb = [t.pcb EXCEPT ![p] = c]
        /\ c.state \notin Open \cup {"SYN_RCVD"}
        /\ c.arg \in {k.arg, 0} /\ c.conn \in {k.conn, Nil}
        /\ k.unread = {} => c.state # "FREE"
        /\ \/ tcp'.changed
           \/ tcp'.changed = t.changed /\ tcp'.active = t.active
  <2> HIDE DEF p
  <2>1. t \in Memory /\ Sane(t) /\ p \in Pcb /\ t.pcb[p].state \in Open
    BY <1>2, <1>3, <1>6, <1>7
  <2>2. \E c \in Connection :
          /\ TcpClose(t, p) \in Memory /\ Sane(TcpClose(t, p))
          /\ TcpClose(t, p).pcb = [t.pcb EXCEPT ![p] = c]
          /\ c.state \notin Open \cup {"SYN_RCVD"}
          /\ c.arg \in {t.pcb[p].arg, 0} /\ c.conn \in {t.pcb[p].conn, Nil}
          /\ t.pcb[p].unread = {} => c.state # "FREE"
          /\ \/ TcpClose(t, p).changed
             \/ TcpClose(t, p).changed = t.changed /\ TcpClose(t, p).active = t.active
    BY ONLY <2>1, CloseOfOpen
  <2> QED BY ONLY <1>1, <1>7, <2>2
<1>9. tcp'.pcb = [tcp.pcb EXCEPT ![p] = c]
  BY <1>2, <1>6, <1>8 DEF Memory
<1> QED BY <1>1, <1>3, <1>6, <1>8, <1>9, SocketEnds

\* One connection goes from one state of its list to another.
LEMMA PcbSet ==
  ASSUME IInv, NEW p \in Pcb, NEW c \in Connection, SameKind(c, tcp.pcb[p]),
         tcp' = [tcp EXCEPT !.pcb[p] = c]
  PROVE  /\ tcp' \in Memory /\ Sane(tcp') /\ ListsSane'
         /\ tcp'.pcb = [tcp.pcb EXCEPT ![p] = c]
         /\ tcp'.changed = tcp.changed /\ tcp'.active = tcp.active
         /\ \A q \in Pcb : tcp'.pcb[q] = IF q = p THEN c ELSE tcp.pcb[q]
<1>1. tcp \in Memory /\ Sane(tcp)
  BY Typed, SaneLists DEF IInv
<1>2. /\ [tcp EXCEPT !.pcb[p] = c] \in Memory
      /\ [tcp EXCEPT !.pcb[p] = c].pcb = [tcp.pcb EXCEPT ![p] = c]
      /\ [tcp EXCEPT !.pcb[p] = c].changed = tcp.changed
      /\ [tcp EXCEPT !.pcb[p] = c].active = tcp.active
      /\ Sane([tcp EXCEPT !.pcb[p] = c])
  BY ONLY <1>1, p \in Pcb, c \in Connection, SameKind(c, tcp.pcb[p]), ChangeKeepsSane
<1>3. /\ tcp' \in Memory /\ Sane(tcp') /\ tcp'.pcb = [tcp.pcb EXCEPT ![p] = c]
      /\ tcp'.changed = tcp.changed /\ tcp'.active = tcp.active
  BY ONLY <1>2, tcp' = [tcp EXCEPT !.pcb[p] = c]
<1>4. \A q \in Pcb : tcp'.pcb[q] = IF q = p THEN c ELSE tcp.pcb[q]
  BY <1>1, <1>3 DEF Memory
<1> QED BY <1>3, <1>4, SaneLists

LEMMA WriteStep ==
  ASSUME IInv, MayCall \subseteq Considerate, NEW s \in DOMAIN sockets, WriteData(s)
  PROVE  IInv'
<1> DEFINE p == sockets[s].pcb
           k == [tcp.pcb[p] EXCEPT !.flight = {"data"}]
           e == [sockets[s] EXCEPT !.written = @ + 1]
<1>1. /\ MayAct(s, "write") /\ frame' = frame /\ sockets[s].written < MaxWrites
      /\ tcp' = [tcp EXCEPT !.pcb[p] = k] /\ sockets' = [sockets EXCEPT ![s] = e]
  BY DEF WriteData
<1>2. /\ p \in Pcb /\ s # 0 /\ tcp.pcb[p].arg = s /\ tcp.pcb[p].state \in Open
      /\ frame.fn = "slow" => frame.stage = "free"
      /\ frame.fn = "input" => frame.stage \in {"handshake", "recv", "closed", "output", "free"}
      /\ tcp \in Memory /\ Sane(tcp) /\ sockets \in Seq(Socket)
  BY <1>1, Callable, Typed, SaneLists DEF IInv
<1>3. tcp.pcb[p] \in Connection /\ sockets[s] \in Socket
  BY <1>2 DEF Memory
<1>4. k \in Connection /\ \A x \in {"state", "conn", "arg", "rxclosed", "unread"} : k[x] = tcp.pcb[p][x]
  <2> HIDE DEF p
  <2> QED BY <1>3 DEF Connection
<1>5. e \in Socket /\ e.pcb = sockets[s].pcb /\ e.told = sockets[s].told
  <2>1. sockets[s].written + 1 \in 0..MaxWrites
    BY <1>1, <1>3, ConstantsAssumption DEF Socket
  <2> DEFINE n == sockets[s].written + 1
  <2>2. e = [sockets[s] EXCEPT !.written = n]
    OBVIOUS
  <2> HIDE DEF e, n
  <2>3. n \in 0..MaxWrites
    BY <2>1 DEF n
  <2> QED BY <1>3, <2>2, <2>3 DEF Socket
<1>6. SameKind(k, tcp.pcb[p])
  BY <1>4 DEF SameKind
<1> HIDE DEF k, e, p
<1>7. /\ tcp' \in Memory /\ tcp'.changed = tcp.changed /\ tcp'.active = tcp.active /\ ListsSane'
      /\ \A q \in Pcb : tcp'.pcb[q] = IF q = p THEN k ELSE tcp.pcb[q]
  BY ONLY IInv, <1>1, <1>2, <1>4, <1>6, PcbSet
<1>9. /\ sockets' \in Seq(Socket) /\ DOMAIN sockets' = DOMAIN sockets /\ Len(sockets') = Len(sockets)
      /\ \A r \in DOMAIN sockets : sockets'[r].pcb = sockets[r].pcb /\ sockets'[r].told = sockets[r].told
  BY <1>1, <1>2, <1>5
<1>10. /\ \A q \in Pcb : Pending(q)' = Pending(q) /\ (Freeing(q)' <=> Freeing(q))
       /\ \A q \in Pcb : /\ tcp'.pcb[q].arg = tcp.pcb[q].arg /\ tcp'.pcb[q].state = tcp.pcb[q].state
                         /\ tcp'.pcb[q].rxclosed = tcp.pcb[q].rxclosed
                         /\ tcp'.pcb[q].unread = tcp.pcb[q].unread
                         /\ tcp'.pcb[q].conn = tcp.pcb[q].conn
                         /\ tcp'.pcb[q].state = "SYN_RCVD" => tcp'.pcb[q] = tcp.pcb[q]
  BY <1>1, <1>2, <1>4, <1>7 DEF Pending, Freeing, Open
<1>11. Attached' /\ Fresh' /\ Told'
  <2>1. \A q \in Pcb : tcp.pcb[q].arg # 0 => tcp.pcb[q].unread \subseteq Pending(q)
    BY DEF IInv, Fresh
  <2> QED BY ONLY IInv, <1>9, <1>10, <2>1, NoneEnds
<1>12. TypeOK' /\ ListsSane' /\ CallbacksInPlace'
  BY <1>1, <1>7, <1>9, Typed, SaneLists DEF IInv, CallbacksInPlace
<1>13. InputHolds'
  <2>1. CASE frame.fn = "input"
    <3>1. frame.pcb \in Pcb
      BY <2>1 DEF IInv, InputHolds
    <3>2. tcp.pcb[frame.pcb].arg # 0 => tcp.pcb[frame.pcb].arg \in DOMAIN sockets
      BY <3>1 DEF IInv, Fresh
    <3> QED BY <1>1, <1>2, <1>9, <1>10, <2>1, <3>1, <3>2 DEF IInv, InputHolds
  <2> QED BY <1>1, <2>1 DEF InputHolds
<1>14. OthersHold'
  <2>1. Known' = Known
    BY <1>10 DEF Known
  <2> QED BY <1>1, <1>7, <2>1 DEF IInv, OthersHold
<1> QED BY <1>11, <1>12, <1>13, <1>14 DEF IInv

LEMMA CallbackReturnsStep ==
  ASSUME IInv, CallbackReturns
  PROVE  IInv'
<1> DEFINE p == frame.pcb
           gives == frame.cb = "recv" /\ sockets[frame.sock].pcb # Nil
           k == [tcp.pcb[p] EXCEPT !.unread = @ \ {"data"}]
<1>1. /\ frame.cb # "none" /\ sockets' = sockets
      /\ frame' = [frame EXCEPT !.cb = "none", !.sock = 0]
      /\ tcp' = IF gives THEN [tcp EXCEPT !.pcb[p] = k] ELSE tcp
  BY DEF CallbackReturns
<1>2. /\ tcp \in Memory /\ Sane(tcp) /\ sockets \in Seq(Socket) /\ frame \in Frames
      /\ frame.cb = "recv" => frame.fn = "input" /\ frame.stage = "closed" /\ p \in Pcb
      /\ frame.sock \in DOMAIN sockets
  BY <1>1, Typed, SaneLists DEF IInv, CallbacksInPlace, InputHolds
<1>3. /\ frame' \in Frames /\ frame'.cb = "none" /\ frame'.sock = 0
      /\ \A x \in {"fn", "pcb", "conn", "prev", "stamped", "stage", "seg"} : frame'[x] = frame[x]
  BY <1>1, <1>2 DEF Frames
<1>4. p \in Pcb => /\ k \in Connection /\ k.unread = tcp.pcb[p].unread \ {"data"}
                   /\ \A x \in {"state", "conn", "arg", "rxclosed", "flight"} : k[x] = tcp.pcb[p][x]
  <2>1. p \in Pcb => tcp.pcb[p] \in Connection
    BY <1>2 DEF Memory
  <2> HIDE DEF p
  <2> QED BY <2>1 DEF Connection
<1>5. p \in Pcb => SameKind(k, tcp.pcb[p])
  BY <1>4 DEF SameKind
<1> HIDE DEF k, p, gives
<1>6. /\ tcp' \in Memory /\ Sane(tcp') /\ tcp'.changed = tcp.changed /\ tcp'.active = tcp.active
      /\ tcp'.pcb = IF gives THEN [tcp.pcb EXCEPT ![p] = k] ELSE tcp.pcb
  <2>1. CASE ~ gives
    BY <1>1, <1>2, <2>1
  <2>2. CASE gives
    <3>1. p \in Pcb
      BY <1>2, <2>2 DEF gives
    <3>2. /\ [tcp EXCEPT !.pcb[p] = k] \in Memory
          /\ [tcp EXCEPT !.pcb[p] = k].pcb = [tcp.pcb EXCEPT ![p] = k]
          /\ [tcp EXCEPT !.pcb[p] = k].changed = tcp.changed
          /\ [tcp EXCEPT !.pcb[p] = k].active = tcp.active
          /\ Sane([tcp EXCEPT !.pcb[p] = k])
      BY ONLY <1>2, <1>4, <1>5, <3>1, ChangeKeepsSane
    <3> QED BY ONLY <1>1, <2>2, <3>2
  <2> QED BY <2>1, <2>2
<1>7. \A q \in Pcb : tcp'.pcb[q] = IF gives /\ q = p THEN k ELSE tcp.pcb[q]
  BY <1>2, <1>6 DEF Memory
<1>8. \A q \in Pcb : /\ tcp'.pcb[q].arg = tcp.pcb[q].arg /\ tcp'.pcb[q].state = tcp.pcb[q].state
                     /\ tcp'.pcb[q].rxclosed = tcp.pcb[q].rxclosed
                     /\ tcp'.pcb[q].conn = tcp.pcb[q].conn
                     /\ tcp'.pcb[q].flight = tcp.pcb[q].flight
  BY <1>4, <1>7
<1>10. ASSUME NEW q \in Pcb
       PROVE  /\ tcp'.pcb[q].arg = tcp.pcb[q].arg /\ tcp'.pcb[q].rxclosed = tcp.pcb[q].rxclosed
              /\ tcp'.pcb[q].state \in Open <=> tcp.pcb[q].state \in Open
              /\ tcp'.pcb[q].state = "SYN_RCVD" => tcp'.pcb[q] = tcp.pcb[q]
              /\ tcp.pcb[q].arg # 0 => tcp'.pcb[q].unread \subseteq Pending(q)'
              /\ tcp.pcb[q].arg # 0 /\ Freeing(q) => Freeing(q)'
  <2>1. Freeing(q) <=> Freeing(q)'
    BY <1>3 DEF Freeing
  <2>2. ASSUME tcp.pcb[q].arg # 0
        PROVE  tcp'.pcb[q].unread \subseteq Pending(q)'
    <3>1. tcp.pcb[q].unread \subseteq Pending(q)
      BY <2>2 DEF IInv, Fresh
    <3>2. CASE gives /\ q = p
      BY <1>3, <1>4, <1>7, <3>1, <3>2 DEF Pending
    <3>3. CASE ~ gives /\ q = p /\ frame.cb = "recv"
      <4>1. sockets[frame.sock].pcb = Nil /\ frame.fn = "input" /\ frame.stage = "closed"
        BY <1>2, <3>3 DEF gives
      <4>2. tcp.pcb[q].arg = frame.sock
        BY <1>1, <2>2, <3>3, <4>1 DEF IInv, InputHolds, p
      <4>3. sockets[tcp.pcb[q].arg].pcb = q
        BY <2>2, <4>1 DEF IInv, Attached
      <4> QED BY <4>1, <4>2, <4>3, ConstantsAssumption
    <3>4. CASE q # p \/ frame.cb # "recv"
      <4>1. Pending(q) = Pending(q)' /\ tcp'.pcb[q] = tcp.pcb[q]
        BY <1>3, <1>7, <3>4 DEF Pending, p, gives
      <4> QED BY <3>1, <4>1
    <3> QED BY <3>2, <3>3, <3>4
  <2>3. tcp'.pcb[q].state = "SYN_RCVD" => tcp'.pcb[q] = tcp.pcb[q]
    <3>1. CASE gives /\ q = p
      <4>1. tcp.pcb[q].state = "SYN_RCVD" => tcp.pcb[q].unread = {}
        BY DEF IInv, Fresh
      <4>2. tcp.pcb[q] \in Connection
        BY <1>2 DEF Memory
      <4>3. tcp.pcb[q].state = "SYN_RCVD" => k = tcp.pcb[q]
        BY <3>1, <4>1, <4>2 DEF k, Connection
      <4> QED BY <1>7, <1>8, <3>1, <4>3
    <3> QED BY <1>7, <3>1
  <2> QED BY <1>8, <2>1, <2>2, <2>3
<1>11. Attached' /\ Fresh' /\ Told'
  BY ONLY IInv, <1>1, <1>2, <1>10, NoneEnds
<1>12. TypeOK' /\ ListsSane' /\ CallbacksInPlace'
  BY <1>1, <1>2, <1>3, <1>6, Typed, SaneLists DEF IInv, CallbacksInPlace
<1>13. InputHolds'
  <2>1. ASSUME frame.fn = "input"
        PROVE  /\ frame.pcb \in Pcb /\ frame.stage \notin {"receive", "accept"}
    BY <1>1, <1>2, <2>1 DEF IInv, InputHolds, CallbacksInPlace, Frames, Callbacks
  <2> QED BY <1>1, <1>3, <1>8, <2>1 DEF IInv, InputHolds
<1>14. OthersHold'
  <2>1. Known' = Known
    BY <1>8 DEF Known
  <2> QED BY <1>3, <1>6, <2>1 DEF IInv, OthersHold
<1> QED BY <1>11, <1>12, <1>13, <1>14 DEF IInv

----------------------------------------------------------------------------
\* The fields of frame in which a step of its own kind changes nothing.
LEMMA FrameThen ==
  ASSUME frame \in Frames, NEW stage \in Stages, Then(stage)
  PROVE  /\ frame' \in Frames /\ frame'.stage = stage
         /\ frame'.fn = frame.fn /\ frame'.pcb = frame.pcb /\ frame'.seg = frame.seg
         /\ frame'.cb = frame.cb /\ frame'.sock = frame.sock
  BY DEF Then, Frames

LEMMA Called ==
  ASSUME IInv, NEW cb \in Callbacks, NEW p \in Pcb, NEW next \in Frames, CallThen(cb, p, next)
  PROVE  /\ tcp.pcb[p].arg \in {0} \cup DOMAIN sockets
         /\ frame' \in Frames /\ frame'.sock = tcp.pcb[p].arg
         /\ frame'.cb = IF tcp.pcb[p].arg = 0 THEN "none" ELSE cb
         /\ frame'.fn = next.fn /\ frame'.pcb = next.pcb /\ frame'.stage = next.stage
         /\ frame'.seg = next.seg /\ frame'.conn = next.conn
         /\ cb = "err" => sockets' = IF tcp.pcb[p].arg = 0 THEN sockets ELSE Ended(tcp.pcb[p].arg)
         /\ cb # "err" =>
              /\ sockets' \in Seq(Socket) /\ DOMAIN sockets' = DOMAIN sockets
              /\ Len(sockets') = Len(sockets)
              /\ \A s \in DOMAIN sockets : /\ sockets'[s].pcb = sockets[s].pcb
                                           /\ sockets'[s].told = sockets[s].told
<1> DEFINE s == tcp.pcb[p].arg
<1>1. /\ s \in {0} \cup DOMAIN sockets /\ s \in Nat /\ sockets \in Seq(Socket)
  BY Typed DEF IInv, Fresh, Memory, Connection
<1>2. /\ sockets' = CASE s = 0 -> sockets
                      [] s # 0 /\ cb = "err" -> Ended(s)
                      [] s # 0 /\ cb = "sent" -> [sockets EXCEPT ![s].sent = @ + 1]
                      [] OTHER -> sockets
      /\ frame' = [next EXCEPT !.cb = IF s = 0 THEN "none" ELSE cb, !.sock = s]
  BY DEF CallThen
<1> HIDE DEF s
<1>3. /\ frame' \in Frames /\ frame'.sock = s /\ frame'.cb = IF s = 0 THEN "none" ELSE cb
      /\ frame'.fn = next.fn /\ frame'.pcb = next.pcb /\ frame'.stage = next.stage
      /\ frame'.seg = next.seg /\ frame'.conn = next.conn
  BY <1>1, <1>2 DEF Frames
<1>4. cb = "err" => sockets' = IF s = 0 THEN sockets ELSE Ended(s)
  BY <1>2
<1>5. ASSUME cb # "err"
      PROVE  /\ sockets' \in Seq(Socket) /\ DOMAIN sockets' = DOMAIN sockets
             /\ Len(sockets') = Len(sockets)
             /\ \A r \in DOMAIN sockets : /\ sockets'[r].pcb = sockets[r].pcb
                                          /\ sockets'[r].told = sockets[r].told
  <2>1. CASE s # 0 /\ cb = "sent"
    <3> DEFINE e == [sockets[s] EXCEPT !.sent = @ + 1]
    <3>1. sockets' = [sockets EXCEPT ![s] = e] /\ s \in DOMAIN sockets /\ sockets[s] \in Socket
      BY <1>1, <1>2, <2>1
    <3>2. e.pcb = sockets[s].pcb /\ e.told = sockets[s].told
      BY <3>1 DEF Socket
    <3>3. e \in Socket
      <4> DEFINE n == sockets[s].sent + 1
      <4>1. e = [sockets[s] EXCEPT !.sent = n] /\ n \in Nat
        BY <3>1 DEF Socket
      <4> HIDE DEF e, n
      <4> QED BY <3>1, <4>1 DEF Socket
    <3> HIDE DEF e
    <3> QED BY <1>1, <3>1, <3>2, <3>3
  <2>2. CASE s = 0 \/ cb # "sent"
    <3>1. sockets' = sockets
      BY <1>2, <1>5, <2>2
    <3> QED BY <1>1, <3>1
  <2> QED BY <2>1, <2>2
<1> QED BY <1>1, <1>3, <1>4, <1>5 DEF s

\* What tcp_input knows of its connection when it goes on.
LEMMA InputFacts ==
  ASSUME IInv, NEW stage, At(stage)
  PROVE  /\ frame.fn = "input" /\ frame.cb = "none" /\ frame.stage = stage
         /\ frame.pcb \in Pcb /\ frame \in Frames /\ frame.seg \in Segments
         /\ tcp \in Memory /\ Sane(tcp) /\ tcp.pcb[frame.pcb] \in Connection
         /\ sockets \in Seq(Socket)
         /\ tcp.pcb[frame.pcb].arg # 0 /\ stage # "free" =>
              /\ sockets[tcp.pcb[frame.pcb].arg].pcb = frame.pcb
              /\ tcp.pcb[frame.pcb].state \in Open
         /\ \A q \in Pcb : q # frame.pcb => Pending(q) = {}
  BY Typed, SaneLists, ConstantsAssumption
     DEF IInv, At, Running, InputHolds, Attached, Fresh, Open, Memory, Frames, Pending

\* tcp_input goes on with its connection, in state c now.
LEMMA GoesOn ==
  ASSUME IInv, frame.fn = "input", NEW p \in Pcb, p = frame.pcb, frame.stage # "free",
         NEW c \in Connection, tcp' \in Memory, Sane(tcp'),
         \A q \in Pcb : tcp'.pcb[q] = IF q = p THEN c ELSE tcp.pcb[q],
         c.arg = tcp.pcb[p].arg, c.rxclosed = tcp.pcb[p].rxclosed,
         c.state \in Open <=> tcp.pcb[p].state \in Open,
         c.state = "SYN_RCVD" => c = tcp.pcb[p], c.state # "FREE",
         c.arg # 0 => c.unread \subseteq Pending(p)',
         sockets' \in Seq(Socket), Len(sockets') = Len(sockets),
         \A s \in DOMAIN sockets : sockets'[s].pcb = sockets[s].pcb
                                   /\ sockets'[s].told = sockets[s].told,
         frame' \in Frames, frame'.sock \in 0..Len(sockets),
         \/ frame'.fn = "none" /\ frame'.cb = "none"
         \/ /\ frame'.fn = "input" /\ frame'.pcb = p
            /\ \/ frame'.stage \in {"sent", "recv", "closed", "output"}
               \/ frame'.stage = "free" /\ c.arg = 0
            /\ \/ frame'.cb = "none"
               \/ frame'.cb = "sent" /\ frame'.stage = "recv"
               \/ frame'.cb = "recv" /\ frame'.stage = "closed"
               \/ frame'.cb = "closed" /\ frame'.stage = "output"
            /\ frame'.cb # "none" => frame'.sock # 0 /\ frame'.sock = c.arg
  PROVE  IInv'
<1>1. \A q \in Pcb : q # p => Pending(q) = {} /\ Pending(q)' = {}
  BY DEF Pending
<1>2. ASSUME NEW q \in Pcb
      PROVE  /\ tcp'.pcb[q].arg = tcp.pcb[q].arg /\ tcp'.pcb[q].rxclosed = tcp.pcb[q].rxclosed
             /\ tcp'.pcb[q].state \in Open <=> tcp.pcb[q].state \in Open
             /\ tcp'.pcb[q].state = "SYN_RCVD" => tcp'.pcb[q] = tcp.pcb[q]
             /\ tcp.pcb[q].arg # 0 => tcp'.pcb[q].unread \subseteq Pending(q)'
             /\ tcp.pcb[q].arg # 0 /\ Freeing(q) => Freeing(q)'
  <2>1. tcp.pcb[q].arg # 0 => tcp.pcb[q].unread \subseteq Pending(q)
    BY DEF IInv, Fresh
  <2>2. ~ Freeing(q)
    BY DEF Freeing
  <2>3. CASE q = p
    <3>1. tcp'.pcb[q] = c
      BY <2>3
    <3> QED BY <2>2, <2>3, <3>1
  <2>4. CASE q # p
    <3>1. tcp'.pcb[q] = tcp.pcb[q]
      BY <2>4
    <3>2. tcp.pcb[q].arg # 0 => tcp'.pcb[q].unread \subseteq Pending(q)'
      BY <1>1, <2>1, <2>4, <3>1
    <3> QED BY ONLY <2>2, <3>1, <3>2
  <2> QED BY <2>3, <2>4
<1>3. DOMAIN sockets' = DOMAIN sockets
  BY Typed DEF IInv
<1>4. Attached' /\ Fresh' /\ Told'
  BY ONLY IInv, <1>2, <1>3, NoneEnds, sockets' \in Seq(Socket),
          \A s \in DOMAIN sockets : sockets'[s].pcb = sockets[s].pcb
                                    /\ sockets'[s].told = sockets[s].told
<1>5. TypeOK' /\ ListsSane'
  BY Typed, SaneLists
<1>6. CallbacksInPlace' /\ InputHolds' /\ OthersHold'
  BY DEF CallbacksInPlace, InputHolds, OthersHold
<1> QED BY <1>4, <1>5, <1>6 DEF IInv

\* u is t but for the connection p, which is c there.
Becomes(t, u, p, c) ==
    /\ c \in Connection /\ u \in Memory /\ u.pcb = [t.pcb EXCEPT ![p] = c]
    /\ u.active = t.active /\ u.tw = t.tw /\ u.changed = t.changed

\* d is the connection c after the segment s.
Took(c, d, s) ==
    /\ d.state = c.state /\ d.conn = c.conn /\ d.arg = c.arg /\ d.rxclosed = c.rxclosed
    /\ d.unread = c.unread \cup {x \in {"data", "fin"} : s[x]}
    /\ d.flight \subseteq c.flight
    /\ d.acked => /\ s.ack # "old" /\ "data" \notin d.flight
                  /\ s.ack = "all" => "data" \in c.flight

LEMMA ReceivedFields ==
  ASSUME NEW t \in Memory, NEW p \in Pcb, NEW s, s.ack \in {"old", "data", "all"}
  PROVE  \E c : Becomes(t, Received(t, p, s), p, c) /\ Took(t.pcb[p], c, s)
<1> DEFINE covered == CASE s.ack = "all" -> t.pcb[p].flight
                        [] s.ack = "data" -> {"data"}
                        [] OTHER -> {}
           new == {x \in {"data", "fin"} : s[x]}
           f == t.pcb[p].flight \ covered
           a == ("data" \in covered)
           w == t.pcb[p].unread \cup new
           R == [t EXCEPT !.pcb[p].flight = f, !.pcb[p].acked = a, !.pcb[p].unread = w]
           c == [t.pcb[p] EXCEPT !.flight = f, !.acked = a, !.unread = w]
<1>1. Received(t, p, s) = R
  BY DEF Received, Memory
<1>2. t.pcb[p] \in Connection
  BY DEF Memory
<1>3. covered \subseteq {"data", "fin"} /\ new \subseteq {"data", "fin"}
  BY <1>2 DEF Connection
<1>4. f \subseteq {"data", "fin"} /\ a \in BOOLEAN /\ w \subseteq {"data", "fin"}
  BY <1>2, <1>3 DEF Connection
<1>5. a => s.ack # "old" /\ "data" \notin f /\ (s.ack = "all" => "data" \in t.pcb[p].flight)
  OBVIOUS
<1>6. f \subseteq t.pcb[p].flight
  OBVIOUS
<1> HIDE DEF covered, f, a, w
<1>7. /\ c \in Connection /\ c.state = t.pcb[p].state /\ c.conn = t.pcb[p].conn
      /\ c.arg = t.pcb[p].arg /\ c.rxclosed = t.pcb[p].rxclosed
      /\ c.unread = w /\ c.flight = f /\ c.acked = a
  BY <1>2, <1>4 DEF Connection
<1>8. /\ R \in Memory /\ R.active = t.active /\ R.tw = t.tw /\ R.changed = t.changed
      /\ R.pcb = [t.pcb EXCEPT ![p] = c]
  BY <1>2, <1>4, <1>7 DEF Memory
<1> HIDE DEF R, c
<1>9. Becomes(t, R, p, c)
  BY <1>7, <1>8 DEF Becomes
<1>10. Took(t.pcb[p], c, s)
  BY <1>5, <1>6, <1>7 DEF Took, w
<1> QED BY <1>1, <1>9, <1>10

\* d is the connection c in another state.
InState(c, d, state) ==
    /\ d.state = state /\ d.conn = c.conn /\ d.arg = c.arg /\ d.rxclosed = c.rxclosed
    /\ d.unread = c.unread /\ d.flight = c.flight /\ d.acked = c.acked

LEMMA Moves ==
  ASSUME NEW t \in Memory, NEW u, NEW p \in Pcb, NEW c, Becomes(t, u, p, c),
         NEW state \in ActiveStates
  PROVE  \E d : Becomes(t, [u EXCEPT !.pcb[p].state = state], p, d) /\ InState(c, d, state)
<1> DEFINE d == [c EXCEPT !.state = state]
           v == [u EXCEPT !.pcb[p].state = state]
<1>1. d \in Connection /\ InState(c, d, state)
  BY DEF Connection, Becomes, InState
<1>2. u.pcb[p] = c /\ u \in Memory
  BY DEF Memory, Becomes
<1>3. v.pcb = [t.pcb EXCEPT ![p] = d]
  BY <1>2 DEF Memory, Becomes
<1>4. v.active = t.active /\ v.tw = t.tw /\ v.changed = t.changed
  BY <1>2 DEF Memory, Becomes
<1>5. v \in Memory
  BY <1>1, <1>2 DEF Memory
<1>6. Becomes(t, v, p, d)
  BY <1>1, <1>3, <1>4, <1>5 DEF Becomes
<1> QED BY <1>1, <1>6

LEMMA PcbMoved ==
  ASSUME IInv, NEW p \in Pcb, NEW c, SameKind(c, tcp.pcb[p]), Becomes(tcp, tcp', p, c)
  PROVE  /\ tcp' \in Memory /\ c \in Connection /\ Sane(tcp')
         /\ \A q \in Pcb : tcp'.pcb[q] = IF q = p THEN c ELSE tcp.pcb[q]
  BY Typed, SaneLists, SameKindSane DEF IInv, Memory, Becomes

\* The segment of frame is received by its connection p, which is d now.
Result(p, d) ==
    /\ p = frame.pcb /\ d \in Connection /\ tcp' \in Memory /\ Sane(tcp')
    /\ \A q \in Pcb : tcp'.pcb[q] = IF q = p THEN d ELSE tcp.pcb[q]
    /\ d.arg = tcp.pcb[p].arg /\ d.rxclosed = tcp.pcb[p].rxclosed
    /\ d.state \in Open <=> tcp.pcb[p].state \in Open
    /\ d.state \notin {"SYN_RCVD", "FREE"}
    /\ d.unread = tcp.pcb[p].unread \cup {x \in {"data", "fin"} : frame.seg[x]}
    /\ d.flight \subseteq tcp.pcb[p].flight
    /\ d.acked => "data" \in tcp.pcb[p].flight /\ "data" \notin d.flight

LEMMA HandshakeResult ==
  ASSUME IInv, Handshake PROVE \E p \in Pcb : \E d : Result(p, d)
<1>1. PICK p \in Pcb : p = frame.pcb
  BY InputFacts DEF Handshake
<1> DEFINE s == [frame.seg EXCEPT !.ack = "old"]
           u == Received(tcp, p, s)
           k == tcp.pcb[p]
<1>2. /\ frame.seg \in Segments /\ tcp \in Memory /\ k \in Connection
      /\ k.state = "ESTABLISHED" /\ k.arg # 0
  BY <1>1, InputFacts, Typed DEF Handshake, IInv, InputHolds
<1>3. s.ack = "old" /\ s.data = frame.seg.data /\ s.fin = frame.seg.fin
  BY <1>2 DEF Segments
<1>4. tcp' = IF frame.seg.fin THEN [u EXCEPT !.pcb[p].state = "CLOSE_WAIT"] ELSE u
  BY <1>1 DEF Handshake
<1>5. \E c : Becomes(tcp, u, p, c) /\ Took(k, c, s)
  <2> HIDE DEF s
  <2> QED BY <1>2, <1>3, ReceivedFields
<1> HIDE DEF u, k
<1>6. PICK c : Becomes(tcp, u, p, c) /\ Took(k, c, s)
  BY <1>5
<1>7. PICK d : /\ Becomes(tcp, tcp', p, d)
               /\ InState(c, d, "ESTABLISHED") \/ InState(c, d, "CLOSE_WAIT")
  <2>1. CASE frame.seg.fin
    BY <1>2, <1>4, <1>6, <2>1, Moves DEF ActiveStates
  <2>2. CASE ~ frame.seg.fin
    BY <1>2, <1>4, <1>6, <2>2 DEF InState, Took
  <2> QED BY <2>1, <2>2
<1>8. /\ d.arg = k.arg /\ d.rxclosed = k.rxclosed /\ d.state \in Open /\ d.conn = k.conn
      /\ d.unread = k.unread \cup {x \in {"data", "fin"} : frame.seg[x]}
      /\ d.flight \subseteq k.flight /\ ~ d.acked
  <2>1. {x \in {"data", "fin"} : s[x]} = {x \in {"data", "fin"} : frame.seg[x]}
    BY <1>3
  <2> HIDE DEF s
  <2> QED BY <1>3, <1>6, <1>7, <2>1 DEF InState, Took, Open
<1>9. SameKind(d, k)
  BY <1>2, <1>8 DEF SameKind, Open, ActiveStates
<1>10. /\ tcp' \in Memory /\ d \in Connection /\ Sane(tcp')
       /\ \A q \in Pcb : tcp'.pcb[q] = IF q = p THEN d ELSE tcp.pcb[q]
  BY <1>7, <1>9, PcbMoved DEF k
<1>11. d.state \notin {"SYN_RCVD", "FREE"} /\ k.state \in Open
  BY <1>2, <1>8 DEF Open
<1>12. Result(p, d)
  BY <1>1, <1>8, <1>10, <1>11 DEF Result, k
<1> QED BY <1>12

LEMMA ReceiveResult ==
  ASSUME IInv, Receive PROVE \E p \in Pcb : \E d : Result(p, d)
<1>1. PICK p \in Pcb : p = frame.pcb
  BY InputFacts DEF Receive
<1> DEFINE s == frame.seg
           u == Received(tcp, p, s)
           k == tcp.pcb[p]
           new == {x \in {"data", "fin"} : s[x]}
<1>2. /\ s \in Segments /\ tcp \in Memory /\ Sane(tcp) /\ k \in Connection
      /\ k.state \in ActiveStates \ {"SYN_RCVD"} /\ (s.ack = "data" => k.flight = {"data", "fin"})
  BY <1>1, InputFacts, Typed DEF Receive, IInv, InputHolds
<1>3. s.ack \in {"old", "data", "all"} /\ (s.ack = "data" => k.flight = {"data", "fin"})
  BY <1>2 DEF Segments
<1>4. \/ k.state = "ESTABLISHED" /\ tcp' = [u EXCEPT !.pcb[p].state = "CLOSE_WAIT"]
      \/ k.state = "FIN_WAIT_1" /\ tcp' = [u EXCEPT !.pcb[p].state = "CLOSING"]
      \/ k.state = "FIN_WAIT_1" /\ tcp' = [u EXCEPT !.pcb[p].state = "FIN_WAIT_2"]
      \/ k.state \in {"FIN_WAIT_1", "FIN_WAIT_2", "CLOSING"} /\ tcp' = TimeWait(u, p)
      \/ tcp' = u
  BY <1>1 DEF Receive
<1>5. \E c : Becomes(tcp, u, p, c) /\ Took(k, c, s)
  <2> HIDE DEF s
  <2> QED BY <1>2, <1>3, ReceivedFields
<1> HIDE DEF u, k, s
<1>6. PICK c : Becomes(tcp, u, p, c) /\ Took(k, c, s)
  BY <1>5
<1>7. /\ c.arg = k.arg /\ c.rxclosed = k.rxclosed /\ c.conn = k.conn /\ c.state = k.state
      /\ c.unread = k.unread \cup new /\ c.flight \subseteq k.flight
      /\ c.acked => "data" \in k.flight /\ "data" \notin c.flight
  BY <1>3, <1>6 DEF Took
<1>8. ASSUME NEW d, Becomes(tcp, tcp', p, d), NEW state \in ActiveStates \ {"SYN_RCVD"},
             InState(c, d, state), state \in Open <=> k.state \in Open
      PROVE  Result(p, d)
  <2>1. SameKind(d, k)
    BY <1>2, <1>7, <1>8 DEF SameKind, InState, ActiveStates
  <2>2. /\ tcp' \in Memory /\ d \in Connection /\ Sane(tcp')
        /\ \A q \in Pcb : tcp'.pcb[q] = IF q = p THEN d ELSE tcp.pcb[q]
    BY <1>8, <2>1, PcbMoved DEF k
  <2> QED BY <1>1, <1>7, <1>8, <2>2 DEF Result, InState, k, s, ActiveStates
<1>9. CASE k.state = "ESTABLISHED" /\ tcp' = [u EXCEPT !.pcb[p].state = "CLOSE_WAIT"]
  <2>1. PICK d : Becomes(tcp, tcp', p, d) /\ InState(c, d, "CLOSE_WAIT")
    BY <1>2, <1>6, <1>9, Moves DEF ActiveStates
  <2> QED BY <1>8, <1>9, <2>1 DEF ActiveStates, Open
<1>10. CASE k.state = "FIN_WAIT_1" /\ tcp' = [u EXCEPT !.pcb[p].state = "CLOSING"]
  <2>1. PICK d : Becomes(tcp, tcp', p, d) /\ InState(c, d, "CLOSING")
    BY <1>2, <1>6, <1>10, Moves DEF ActiveStates
  <2> QED BY <1>8, <1>10, <2>1 DEF ActiveStates, Open
<1>11. CASE k.state = "FIN_WAIT_1" /\ tcp' = [u EXCEPT !.pcb[p].state = "FIN_WAIT_2"]
  <2>1. PICK d : Becomes(tcp, tcp', p, d) /\ InState(c, d, "FIN_WAIT_2")
    BY <1>2, <1>6, <1>11, Moves DEF ActiveStates
  <2> QED BY <1>8, <1>11, <2>1 DEF ActiveStates, Open
<1>12. CASE tcp' = u
  <2>1. InState(c, c, k.state)
    BY <1>7 DEF InState
  <2>2. Result(p, c)
    BY <1>2, <1>6, <1>8, <1>12, <2>1
  <2> QED BY <2>2
<1>13. CASE k.state \in {"FIN_WAIT_1", "FIN_WAIT_2", "CLOSING"} /\ tcp' = TimeWait(u, p)
  <2> DEFINE d == [c EXCEPT !.state = "TIME_WAIT", !.flight = {}]
  <2>1. SameKind(c, k)
    BY <1>7 DEF SameKind
  <2>2. u \in Memory /\ Sane(u) /\ u.pcb[p] = c /\ c \in Connection /\ u.pcb = [tcp.pcb EXCEPT ![p] = c]
    BY <1>2, <1>6, <2>1, SameKindSane DEF Becomes, Memory, k
  <2>3. u.pcb[p].state # "FREE"
    BY <1>7, <1>13, <2>2
  <2>4. tcp' \in Memory /\ Sane(tcp') /\ tcp'.pcb = [u.pcb EXCEPT ![p] = d]
    BY <1>13, <2>2, <2>3, TimeWaitKeepsSane
  <2>5. /\ d \in Connection /\ d.arg = c.arg /\ d.rxclosed = c.rxclosed /\ d.state = "TIME_WAIT"
        /\ d.unread = c.unread /\ d.flight = {} /\ d.acked = c.acked
    BY <2>2 DEF Connection
  <2> HIDE DEF d
  <2>6. \A q \in Pcb : tcp'.pcb[q] = IF q = p THEN d ELSE tcp.pcb[q]
    BY <1>2, <2>2, <2>4 DEF Memory
  <2>7. Result(p, d)
    BY <1>1, <1>7, <1>13, <2>4, <2>5, <2>6 DEF Result, Open, k, s
  <2> QED BY <2>7
<1> QED BY <1>4, <1>9, <1>10, <1>11, <1>12, <1>13

LEMMA ResultStep ==
  ASSUME IInv, NEW stage \in {"handshake", "receive"}, At(stage), sockets' = sockets,
         NEW p \in Pcb, NEW d, Result(p, d),
         Then("sent") \/ (Then("free") /\ tcp.pcb[p].arg = 0)
  PROVE  IInv'
<1>1. /\ frame.fn = "input" /\ frame.cb = "none" /\ frame.stage = stage /\ p = frame.pcb
      /\ frame \in Frames /\ frame.sock \in 0..Len(sockets)
      /\ sockets \in Seq(Socket) /\ tcp \in Memory
  BY InputFacts, Typed DEF IInv, Result
<1>2. /\ frame' \in Frames /\ frame'.fn = "input" /\ frame'.pcb = p
      /\ frame'.cb = "none" /\ frame'.sock = frame.sock /\ frame'.seg = frame.seg
      /\ frame'.stage = "sent" \/ (frame'.stage = "free" /\ tcp.pcb[p].arg = 0)
  BY <1>1, FrameThen DEF Stages
<1>3. d.arg # 0 => d.unread \subseteq Pending(p)'
  <2>1. d.arg # 0 => tcp.pcb[p].unread = {}
    BY <1>1 DEF IInv, Fresh, Pending, Result
  <2> QED BY <1>1, <1>2, <2>1 DEF Pending, Result
<1>4. /\ d \in Connection /\ tcp' \in Memory /\ Sane(tcp')
      /\ \A q \in Pcb : tcp'.pcb[q] = IF q = p THEN d ELSE tcp.pcb[q]
      /\ d.arg = tcp.pcb[p].arg /\ d.rxclosed = tcp.pcb[p].rxclosed
      /\ d.state \in Open <=> tcp.pcb[p].state \in Open
      /\ d.state # "SYN_RCVD" /\ d.state # "FREE"
  BY DEF Result
<1> QED BY <1>1, <1>2, <1>3, <1>4, GoesOn

LEMMA HandshakeStep == ASSUME IInv, Handshake PROVE IInv'
  BY HandshakeResult, ResultStep DEF Handshake

LEMMA ReceiveStep == ASSUME IInv, Receive PROVE IInv'
<1>1. PICK p, d : p \in Pcb /\ Result(p, d)
  BY ReceiveResult
<1>2. At("receive") /\ sockets' = sockets /\ p = frame.pcb
  BY <1>1 DEF Receive, Result
<1>3. Then("sent") \/ (Then("free") /\ tcp.pcb[p].state = "LAST_ACK")
  BY <1>2 DEF Receive
<1>4. tcp.pcb[p].state = "LAST_ACK" => tcp.pcb[p].arg = 0
  BY <1>2, InputFacts DEF Open
<1> QED BY <1>1, <1>2, <1>3, <1>4, ResultStep

\* tcp_input goes on, with or without a callback other than of an error, and
\* its connection is c now.
LEMMA StageStep ==
  ASSUME IInv, NEW stage \in {"sent", "recv", "closed", "output"}, At(stage),
         NEW p \in Pcb, p = frame.pcb, NEW c, SameKind(c, tcp.pcb[p]),
         Becomes(tcp, tcp', p, c),
         c.arg = tcp.pcb[p].arg, c.rxclosed = tcp.pcb[p].rxclosed, c.state = tcp.pcb[p].state,
         c.state = "SYN_RCVD" => c = tcp.pcb[p],
         c.arg # 0 => c.unread \subseteq Pending(p)',
         \/ sockets' = sockets /\ frame' = NoFrame
         \/ sockets' = sockets /\ \E next \in {"recv", "closed", "output"} : Then(next)
         \/ /\ CallThen("sent", p, [frame EXCEPT !.stage = "recv"])
         \/ /\ CallThen("recv", p, [frame EXCEPT !.stage = "closed"])
         \/ /\ CallThen("closed", p, [frame EXCEPT !.stage = "output"])
  PROVE  IInv'
<1>1. /\ frame.fn = "input" /\ frame.cb = "none" /\ frame.stage # "free"
      /\ frame \in Frames /\ frame.sock \in 0..Len(sockets)
      /\ sockets \in Seq(Socket) /\ tcp \in Memory /\ tcp.pcb[p].state # "FREE"
  BY InputFacts, Typed DEF IInv, At
<1>2. /\ tcp' \in Memory /\ c \in Connection /\ Sane(tcp')
      /\ \A q \in Pcb : tcp'.pcb[q] = IF q = p THEN c ELSE tcp.pcb[q]
  BY PcbMoved
<1>3. CASE sockets' = sockets /\ frame' = NoFrame
  BY <1>1, <1>2, <1>3, NoFrameType, GoesOn
<1>4. ASSUME NEW next \in {"recv", "closed", "output"}, Then(next), sockets' = sockets
      PROVE  IInv'
  <2>1. /\ frame' \in Frames /\ frame'.fn = "input" /\ frame'.pcb = p /\ frame'.stage = next
        /\ frame'.cb = "none" /\ frame'.sock = frame.sock
    BY <1>1, <1>4, FrameThen DEF Stages
  <2> QED BY <1>1, <1>2, <1>4, <2>1, GoesOn
<1>5. ASSUME NEW cb \in {"sent", "recv", "closed"}, NEW next \in {"recv", "closed", "output"},
             cb = "sent" => next = "recv", cb = "recv" => next = "closed",
             cb = "closed" => next = "output",
             CallThen(cb, p, [frame EXCEPT !.stage = next])
      PROVE  IInv'
  <2> DEFINE n == [frame EXCEPT !.stage = next]
  <2>1. n \in Frames /\ n.fn = "input" /\ n.pcb = p /\ n.stage = next
    BY <1>1 DEF Frames, Stages
  <2> HIDE DEF n
  <2>2. cb \in Callbacks /\ cb # "err"
    BY DEF Callbacks
  <2>3. /\ tcp.pcb[p].arg \in {0} \cup DOMAIN sockets
        /\ frame' \in Frames /\ frame'.sock = tcp.pcb[p].arg
        /\ frame'.cb = IF tcp.pcb[p].arg = 0 THEN "none" ELSE cb
        /\ frame'.fn = n.fn /\ frame'.pcb = n.pcb /\ frame'.stage = n.stage
        /\ sockets' \in Seq(Socket) /\ Len(sockets') = Len(sockets)
        /\ \A s \in DOMAIN sockets : /\ sockets'[s].pcb = sockets[s].pcb
                                     /\ sockets'[s].told = sockets[s].told
    <3>1. CallThen(cb, p, n)
      BY <1>5 DEF n
    <3> QED BY ONLY IInv, p \in Pcb, <2>1, <2>2, <3>1, Called
  <2>4. /\ frame' \in Frames /\ frame'.sock \in 0..Len(sockets)
        /\ frame'.fn = "input" /\ frame'.pcb = p /\ frame'.stage = next
        /\ frame'.cb = "none" \/ frame'.cb = cb
        /\ frame'.cb # "none" => frame'.sock # 0 /\ frame'.sock = c.arg
    BY <1>1, <2>1, <2>3
  <2> QED BY <1>1, <1>2, <1>5, <2>3, <2>4, GoesOn
<1> QED BY <1>3, <1>4, <1>5

LEMMA StaysSame ==
  ASSUME IInv, NEW p \in Pcb, tcp' = tcp
  PROVE  Becomes(tcp, tcp', p, tcp.pcb[p]) /\ SameKind(tcp.pcb[p], tcp.pcb[p])
  BY Typed DEF IInv, Becomes, SameKind, Memory

LEMMA SetBecomes ==
  ASSUME NEW t \in Memory, NEW p \in Pcb, NEW c \in Connection
  PROVE  Becomes(t, [t EXCEPT !.pcb[p] = c], p, c)
<1> DEFINE u == [t EXCEPT !.pcb[p] = c]
<1>1. u.pcb = [t.pcb EXCEPT ![p] = c]
  BY DEF Memory
<1>2. u.active = t.active /\ u.tw = t.tw /\ u.changed = t.changed
  BY DEF Memory
<1>3. u \in Memory
  BY DEF Memory
<1> QED BY <1>1, <1>2, <1>3 DEF Becomes

\* Reading takes x from the window.
Reads(c, d, x) ==
    /\ d.state = c.state /\ d.conn = c.conn /\ d.arg = c.arg /\ d.rxclosed = c.rxclosed
    /\ d.unread = c.unread \ {x} /\ d.flight = c.flight /\ d.acked = c.acked

LEMMA ReadFields ==
  ASSUME IInv, NEW p \in Pcb, NEW x, tcp' = [tcp EXCEPT !.pcb[p].unread = @ \ {x}]
  PROVE  \E c : /\ Becomes(tcp, tcp', p, c) /\ SameKind(c, tcp.pcb[p]) /\ Reads(tcp.pcb[p], c, x)
                /\ c.state = "SYN_RCVD" => c = tcp.pcb[p]
<1> DEFINE k == tcp.pcb[p]
           c == [k EXCEPT !.unread = @ \ {x}]
<1>1. tcp \in Memory /\ k \in Connection
  BY Typed DEF IInv, Memory
<1>2. tcp' = [tcp EXCEPT !.pcb[p] = c]
  OBVIOUS
<1>3. k.state = "SYN_RCVD" => c = k
  BY <1>1 DEF IInv, Fresh, Connection
<1> HIDE DEF k
<1>4. c \in Connection /\ Reads(k, c, x)
  BY <1>1 DEF Connection, Reads
<1>5. SameKind(c, k)
  BY <1>4 DEF SameKind, Reads
<1> HIDE DEF c
<1>6. Becomes(tcp, tcp', p, c)
  <2>1. Becomes(tcp, [tcp EXCEPT !.pcb[p] = c], p, c)
    BY ONLY <1>1, <1>4, p \in Pcb, SetBecomes
  <2> QED BY ONLY <1>2, <2>1
<1> QED BY <1>3, <1>4, <1>5, <1>6 DEF k, Reads

LEMMA SentStep == ASSUME IInv, Sent PROVE IInv'
<1>1. /\ At("sent") /\ tcp' = tcp /\ frame.fn = "input" /\ frame.cb = "none"
      /\ frame.stage = "sent" /\ frame \in Frames
  BY InputFacts DEF Sent
<1>2. PICK p \in Pcb : p = frame.pcb
  BY <1>1, InputFacts
<1>3. \/ sockets' = sockets /\ Then("recv")
      \/ CallThen("sent", p, [frame EXCEPT !.stage = "recv"])
  BY <1>2 DEF Sent
<1>4. frame'.fn = "input" /\ frame'.pcb = p /\ frame'.stage = "recv" /\ frame'.seg = frame.seg
  <2>1. CASE Then("recv")
    BY <1>1, <1>2, <2>1, FrameThen DEF Stages
  <2>2. CASE CallThen("sent", p, [frame EXCEPT !.stage = "recv"])
    <3> DEFINE n == [frame EXCEPT !.stage = "recv"]
    <3>1. n \in Frames /\ n.fn = "input" /\ n.pcb = p /\ n.stage = "recv" /\ n.seg = frame.seg
      BY <1>1, <1>2 DEF Frames, Stages
    <3>2. CallThen("sent", p, n) /\ "sent" \in Callbacks
      BY <2>2 DEF Callbacks
    <3> HIDE DEF n
    <3> QED BY <3>1, <3>2, Called
  <2> QED BY <1>3, <2>1, <2>2
<1>5. Pending(p)' = Pending(p)
  BY <1>1, <1>2, <1>4 DEF Pending
<1>6. tcp.pcb[p].arg # 0 => tcp.pcb[p].unread \subseteq Pending(p)'
  BY <1>5 DEF IInv, Fresh
<1> QED BY <1>1, <1>2, <1>3, <1>6, StaysSame, StageStep

LEMMA InputEndsStep == ASSUME IInv, InputEnds PROVE IInv'
<1>1. At("output") /\ tcp' = tcp /\ sockets' = sockets /\ frame' = NoFrame
  BY DEF InputEnds
<1>2. PICK p \in Pcb : p = frame.pcb
  BY <1>1, InputFacts
<1>3. Pending(p) = {}
  BY <1>1, <1>2, InputFacts DEF Pending
<1>4. tcp.pcb[p].arg # 0 => tcp.pcb[p].unread \subseteq Pending(p)'
  BY <1>3 DEF IInv, Fresh
<1> QED BY <1>1, <1>2, <1>4, StaysSame, StageStep

\* The fields of frame after a callback with which tcp_input goes on to next.
LEMMA CalledFields ==
  ASSUME IInv, frame.fn = "input", NEW p \in Pcb, p = frame.pcb, NEW cb \in Callbacks,
         NEW next \in Stages, CallThen(cb, p, [frame EXCEPT !.stage = next])
  PROVE  /\ frame' \in Frames /\ frame'.sock = tcp.pcb[p].arg
         /\ tcp.pcb[p].arg \in {0} \cup DOMAIN sockets
         /\ frame'.cb = IF tcp.pcb[p].arg = 0 THEN "none" ELSE cb
         /\ frame'.fn = "input" /\ frame'.pcb = p /\ frame'.stage = next /\ frame'.seg = frame.seg
         /\ cb = "err" => sockets' = IF tcp.pcb[p].arg = 0 THEN sockets ELSE Ended(tcp.pcb[p].arg)
<1> DEFINE n == [frame EXCEPT !.stage = next]
<1>1. n \in Frames /\ n.fn = "input" /\ n.pcb = p /\ n.stage = next /\ n.seg = frame.seg
  BY Typed DEF Frames, IInv
<1>2. CallThen(cb, p, n)
  OBVIOUS
<1> HIDE DEF n
<1> QED BY <1>1, <1>2, Called

\* p's connection is freed, and tcp_input returns.
LEMMA FreedStep ==
  ASSUME IInv, NEW p \in Pcb, p = frame.pcb, frame.fn = "input", frame.cb = "none",
         \A s \in DOMAIN sockets : sockets[s].pcb # p,
         tcp' = Free(tcp, p), sockets' = sockets, frame' = NoFrame
  PROVE  IInv'
<1>1. /\ tcp' \in Memory /\ tcp'.pcb = [tcp.pcb EXCEPT ![p] = Freed] /\ Sane(tcp')
  BY Typed, SaneLists, FreeKeepsSane DEF IInv
<1>2. Freed.arg = 0 /\ Freed.state = "FREE"
  BY DEF Freed
<1>3. \A q \in Pcb \ {p} : /\ tcp.pcb[q].arg # 0 => tcp.pcb[q].unread \subseteq Pending(q)'
                           /\ ~ Freeing(q)
  BY NoFrameType DEF IInv, Fresh, Pending, Freeing
<1>4. Attached' /\ Fresh' /\ Told'
  BY <1>1, <1>2, <1>3, FreedType, OneEnds DEF Open
<1>5. TypeOK' /\ ListsSane'
  BY <1>1, Typed, SaneLists, NoFrameType DEF IInv
<1>6. CallbacksInPlace' /\ InputHolds' /\ OthersHold'
  BY NoFrameType DEF CallbacksInPlace, InputHolds, OthersHold
<1> QED BY <1>4, <1>5, <1>6 DEF IInv

LEMMA RecvStep == ASSUME IInv, Recv PROVE IInv'
<1>1. /\ At("recv") /\ frame.fn = "input" /\ frame.cb = "none"
      /\ frame.stage = "recv" /\ frame \in Frames /\ "closed" \in Stages
  BY InputFacts DEF Recv, Stages
<1>2. PICK p \in Pcb : p = frame.pcb
  BY <1>1, InputFacts
<1> DEFINE new == {x \in {"data", "fin"} : frame.seg[x]}
<1>3. tcp.pcb[p].arg # 0 => tcp.pcb[p].unread \subseteq new /\ ~ tcp.pcb[p].rxclosed
  BY <1>1, <1>2 DEF IInv, Fresh, Pending
<1>4. CASE ~ frame.seg.data
  <2>1. tcp' = tcp /\ sockets' = sockets /\ Then("closed")
    BY <1>4 DEF Recv
  <2>2. /\ frame'.fn = "input" /\ frame'.pcb = p /\ frame'.stage = "closed" /\ frame'.cb = "none"
        /\ frame'.seg = frame.seg
    BY <1>1, <1>2, <2>1, FrameThen
  <2>3. tcp.pcb[p].arg # 0 => tcp.pcb[p].unread \subseteq Pending(p)'
    BY <1>3, <1>4, <2>2 DEF Pending
  <2> QED BY <1>1, <1>2, <2>1, <2>3, StaysSame, StageStep
<1>5. CASE frame.seg.data /\ tcp.pcb[p].rxclosed
  <2>1. tcp' = Free(tcp, p) /\ sockets' = sockets /\ frame' = NoFrame
    BY <1>2, <1>5 DEF Recv
  <2>2. \A s \in DOMAIN sockets : sockets[s].pcb # p
    BY <1>3, <1>5, Typed, ConstantsAssumption DEF IInv, Attached
  <2> QED BY <1>1, <1>2, <2>1, <2>2, FreedStep
<1>6. CASE frame.seg.data /\ ~ tcp.pcb[p].rxclosed
  <2>1. /\ tcp' = IF tcp.pcb[p].arg = 0 THEN [tcp EXCEPT !.pcb[p].unread = @ \ {"data"}] ELSE tcp
        /\ CallThen("recv", p, [frame EXCEPT !.stage = "closed"])
    BY <1>2, <1>6 DEF Recv
  <2>2. /\ frame'.fn = "input" /\ frame'.pcb = p /\ frame'.stage = "closed"
        /\ frame'.cb = (IF tcp.pcb[p].arg = 0 THEN "none" ELSE "recv") /\ frame'.seg = frame.seg
    BY <1>1, <1>2, <2>1, CalledFields DEF Callbacks
  <2>3. CASE tcp.pcb[p].arg = 0
    <3>1. PICK c : /\ Becomes(tcp, tcp', p, c) /\ SameKind(c, tcp.pcb[p])
                   /\ Reads(tcp.pcb[p], c, "data") /\ (c.state = "SYN_RCVD" => c = tcp.pcb[p])
      BY <2>1, <2>3, ReadFields
    <3> QED BY <1>1, <1>2, <2>1, <2>3, <3>1, StageStep DEF Reads
  <2>4. CASE tcp.pcb[p].arg # 0
    <3>1. tcp.pcb[p].unread \subseteq Pending(p)'
      BY <1>3, <2>2, <2>4 DEF Pending
    <3> QED BY <1>1, <1>2, <2>1, <2>4, <3>1, StaysSame, StageStep
  <2> QED BY <2>3, <2>4
<1> QED BY <1>4, <1>5, <1>6

LEMMA PeerClosedStep == ASSUME IInv, PeerClosed PROVE IInv'
<1>1. /\ At("closed") /\ frame.fn = "input" /\ frame.cb = "none"
      /\ frame.stage = "closed" /\ frame \in Frames /\ "output" \in Stages
  BY InputFacts DEF PeerClosed, Stages
<1>2. PICK p \in Pcb : p = frame.pcb
  BY <1>1, InputFacts
<1>3. tcp.pcb[p].arg # 0 => tcp.pcb[p].unread \subseteq (IF frame.seg.fin THEN {"fin"} ELSE {})
  BY <1>1, <1>2 DEF IInv, Fresh, Pending
<1>4. CASE ~ frame.seg.fin
  <2>1. tcp' = tcp /\ sockets' = sockets /\ Then("output")
    <3>1. tcp' = [tcp EXCEPT !.pcb[p].unread = @] /\ sockets' = sockets /\ Then("output")
      BY <1>2, <1>4 DEF PeerClosed
    <3>2. [tcp EXCEPT !.pcb[p].unread = @] = tcp
      BY Typed DEF IInv, Memory, Connection
    <3> QED BY <3>1, <3>2
  <2>2. tcp.pcb[p].arg # 0 => tcp.pcb[p].unread \subseteq Pending(p)'
    BY <1>3, <1>4
  <2> QED BY <1>1, <1>2, <2>1, <2>2, StaysSame, StageStep
<1>5. CASE frame.seg.fin
  <2>1. /\ tcp' = [tcp EXCEPT !.pcb[p].unread = @ \ {"fin"}]
        /\ CallThen("closed", p, [frame EXCEPT !.stage = "output"])
    BY <1>2, <1>5 DEF PeerClosed
  <2>2. PICK c : /\ Becomes(tcp, tcp', p, c) /\ SameKind(c, tcp.pcb[p])
                 /\ Reads(tcp.pcb[p], c, "fin") /\ (c.state = "SYN_RCVD" => c = tcp.pcb[p])
    BY <2>1, ReadFields
  <2>3. c.arg # 0 => c.unread \subseteq Pending(p)'
    BY <1>3, <2>2 DEF Reads
  <2> QED BY <1>1, <1>2, <2>1, <2>2, <2>3, StageStep DEF Reads
<1> QED BY <1>4, <1>5

LEMMA FreeConnectionStep == ASSUME IInv, FreeConnection PROVE IInv'
<1>1. /\ At("free") /\ frame.fn = "input" /\ frame.cb = "none" /\ frame.stage = "free"
  BY InputFacts DEF FreeConnection
<1>2. PICK p \in Pcb : p = frame.pcb
  BY <1>1, InputFacts
<1>3. tcp' = Free(tcp, p) /\ sockets' = sockets /\ frame' = NoFrame
  BY <1>2 DEF FreeConnection
<1>4. \A s \in DOMAIN sockets : sockets[s].pcb # p
  BY <1>1, <1>2, Typed, ConstantsAssumption DEF IInv, Attached, InputHolds
<1> QED BY <1>1, <1>2, <1>3, <1>4, FreedStep

LEMMA ResetByPeerStep == ASSUME IInv, ResetByPeer PROVE IInv'
<1>1. /\ At("reset") /\ frame.fn = "input" /\ frame.cb = "none" /\ frame.stage = "reset"
      /\ tcp' = tcp /\ tcp \in Memory /\ sockets \in Seq(Socket)
  BY InputFacts DEF ResetByPeer
<1>2. PICK p \in Pcb : p = frame.pcb
  BY <1>1, InputFacts
<1> DEFINE s == tcp.pcb[p].arg
<1>3. CallThen("err", p, [frame EXCEPT !.stage = "free"])
  BY <1>2 DEF ResetByPeer
<1>4. /\ frame' \in Frames /\ frame'.sock = s /\ s \in {0} \cup DOMAIN sockets
      /\ frame'.cb = IF s = 0 THEN "none" ELSE "err"
      /\ frame'.fn = "input" /\ frame'.pcb = p /\ frame'.stage = "free"
      /\ sockets' = IF s = 0 THEN sockets ELSE Ended(s)
  BY <1>1, <1>2, <1>3, CalledFields DEF Callbacks, Stages
<1>5. /\ s # 0 => sockets[s].pcb = p
      /\ \A q \in Pcb : Pending(q) = {} /\ Pending(q)' = {} /\ ~ Freeing(q)
  BY <1>1, <1>2, <1>4, InputFacts DEF Pending, Freeing
<1> HIDE DEF s
<1>6. /\ sockets' \in Seq(Socket) /\ Len(sockets') = Len(sockets)
      /\ DOMAIN sockets' = DOMAIN sockets
      /\ \A r \in DOMAIN sockets :
           IF r = s THEN sockets'[r].pcb = Nil /\ sockets'[r].told = sockets[r].told + 1
           ELSE sockets'[r] = sockets[r]
  <2>1. CASE s = 0
    BY <1>1, <1>4, <2>1
  <2>2. CASE s # 0
    BY <1>1, <1>4, <2>2, EndedFields
  <2> QED BY <2>1, <2>2
<1>7. Attached'
  <2>1. ASSUME NEW r \in DOMAIN sockets', sockets'[r].pcb # Nil
        PROVE  /\ tcp'.pcb[sockets'[r].pcb].arg = r
               /\ tcp'.pcb[sockets'[r].pcb].state \in {"ESTABLISHED", "CLOSE_WAIT"}
    BY <1>1, <1>6, <2>1 DEF IInv, Attached
  <2>2. ASSUME NEW q \in Pcb, tcp'.pcb[q].arg # 0
        PROVE  \/ sockets'[tcp'.pcb[q].arg].pcb = q
               \/ frame'.fn = "input" /\ frame'.pcb = q /\ frame'.stage = "free"
    <3>1. CASE q = p
      BY <1>4, <3>1
    <3>2. CASE q # p
      <4>1. tcp.pcb[q].arg \in DOMAIN sockets /\ sockets[tcp.pcb[q].arg].pcb = q
        BY <1>1, <1>5, <2>2 DEF IInv, Attached, Fresh, Freeing
      <4> QED BY <1>1, <1>5, <1>6, <3>2, <4>1
    <3> QED BY <3>1, <3>2
  <2>3. ASSUME NEW q \in Pcb, tcp'.pcb[q].arg = 0,
               tcp'.pcb[q].state \in {"ESTABLISHED", "CLOSE_WAIT"}
        PROVE  tcp'.pcb[q].rxclosed
    BY <1>1, <2>3 DEF IInv, Attached
  <2> QED BY <2>1, <2>2, <2>3 DEF Attached
<1>8. Fresh'
  BY <1>1, <1>5, <1>6 DEF IInv, Fresh
<1>9. Told'
  BY <1>5, <1>6, ConstantsAssumption DEF IInv, Told
<1>10. TypeOK' /\ ListsSane'
  <2>1. frame'.sock \in 0..Len(sockets')
    BY <1>1, <1>4, <1>6
  <2> QED BY <1>1, <1>4, <1>6, <2>1, Typed, SaneLists DEF IInv
<1>11. InputHolds'
  <2>1. tcp.pcb[p].state # "FREE"
    BY <1>1, <1>2 DEF At
  <2> QED BY <1>1, <1>4, <1>6, <2>1 DEF InputHolds, s
<1>12. CallbacksInPlace' /\ OthersHold'
  BY <1>4 DEF CallbacksInPlace, OthersHold
<1> QED BY <1>7, <1>8, <1>9, <1>10, <1>11, <1>12 DEF IInv

LEMMA ArriveStep ==
  ASSUME IInv, NEW p \in Pcb, NEW s, Arrive(p, s)
  PROVE  IInv'
<1>1. /\ frame.fn = "none" /\ frame.cb = "none" /\ p \in ToSet(tcp.active) /\ s \in Arriving(p)
      /\ tcp' = ToFront(tcp, p) /\ sockets' = sockets
      /\ frame' = [NoFrame EXCEPT !.fn = "input", !.pcb = p, !.seg = s, !.stage = FirstStage(p, s)]
      /\ tcp \in Memory /\ Sane(tcp) /\ sockets \in Seq(Socket)
  BY Typed, SaneLists DEF Arrive, Running, IInv
<1>2. s \in Segments
  <2>1. Bare("rst") \in Segments /\ Bare("syn") \in Segments /\ Bare("badrst") \in Segments
    BY DEF Bare, Segments
  <2> QED BY <1>1, <2>1 DEF Arriving, Expected
<1>3. FirstStage(p, s) \in {"reset", "sent", "accept", "receive"}
  BY DEF FirstStage
<1>4. /\ frame' \in Frames /\ frame'.fn = "input" /\ frame'.pcb = p /\ frame'.seg = s
      /\ frame'.stage = FirstStage(p, s) /\ frame'.cb = "none" /\ frame'.sock = 0
  BY <1>1, <1>2, <1>3, NoFrameType DEF Frames, Stages
<1>5. /\ tcp'.active = <<p>> \o RemoveFirst(tcp.active, p)
      /\ tcp'.pcb = tcp.pcb /\ tcp'.tw = tcp.tw /\ tcp'.changed = tcp.changed
  BY <1>1 DEF ToFront, Memory
<1>6. /\ tcp'.active \in Seq(Pcb) /\ IsInjective(tcp'.active)
      /\ ToSet(tcp'.active) = ToSet(tcp.active)
  <2> DEFINE rest == RemoveFirst(tcp.active, p)
  <2>1. /\ rest \in Seq(Pcb) /\ IsInjective(rest) /\ ToSet(rest) = ToSet(tcp.active) \ {p}
    BY <1>1, RemoveFirstSet DEF Memory, Sane
  <2> HIDE DEF rest
  <2>2. /\ <<p>> \o rest \in Seq(Pcb) /\ IsInjective(<<p>> \o rest)
        /\ ToSet(<<p>> \o rest) = ToSet(rest) \cup {p}
    BY <2>1, PutFirstSet
  <2> QED BY <1>1, <1>5, <2>1, <2>2 DEF rest
<1>7. tcp' \in Memory
  <2>1. tcp' = [tcp EXCEPT !.active = tcp'.active]
    BY <1>1, <1>5 DEF ToFront, Memory
  <2> QED BY <1>1, <1>6, <2>1 DEF Memory
<1>8. Sane(tcp')
  BY <1>1, <1>5, <1>6 DEF Sane
<1>9. tcp.pcb[p].state \in ActiveStates
  BY <1>1 DEF Sane
<1>10. Attached' /\ Fresh' /\ Told'
  <2>1. \A q \in Pcb : Pending(q) = {} /\ ~ Freeing(q)
    BY <1>1 DEF Pending, Freeing
  <2>2. \A q \in Pcb : tcp.pcb[q].arg # 0 => tcp'.pcb[q].unread \subseteq Pending(q)'
    BY <1>5, <2>1 DEF IInv, Fresh
  <2> QED BY <1>1, <1>5, <2>1, <2>2, NoneEnds
<1>11. TypeOK' /\ ListsSane'
  BY <1>1, <1>4, <1>7, <1>8, Typed, SaneLists
<1>12. CallbacksInPlace' /\ OthersHold'
  BY <1>4 DEF CallbacksInPlace, OthersHold
<1>13. InputHolds'
  <2>1. FirstStage(p, s) = "accept" => tcp.pcb[p].state = "SYN_RCVD"
    BY DEF FirstStage
  <2>2. FirstStage(p, s) \in {"accept", "receive"} => s.kind = "ack"
    BY DEF FirstStage
  <2>3. /\ FirstStage(p, s) = "receive" => tcp.pcb[p].state # "SYN_RCVD"
        /\ s.ack = "data" => tcp.pcb[p].flight = {"data", "fin"}
    BY <1>1 DEF FirstStage, Arriving, Bare, Expected
  <2>6. tcp'.pcb[p].state = tcp.pcb[p].state /\ tcp.pcb[p].state # "FREE"
    BY <1>5, <1>9 DEF ActiveStates
  <2> QED BY <1>3, <1>4, <1>5, <1>9, <2>1, <2>2, <2>3, <2>6 DEF InputHolds
<1> QED BY <1>10, <1>11, <1>12, <1>13 DEF IInv

LEMMA AcceptStep == ASSUME IInv, Accept PROVE IInv'
<1>1. /\ At("accept") /\ frame.fn = "input" /\ frame.cb = "none" /\ frame.stage = "accept"
      /\ tcp \in Memory /\ Sane(tcp) /\ sockets \in Seq(Socket) /\ frame \in Frames
  BY InputFacts DEF Accept
<1>2. PICK p \in Pcb : p = frame.pcb
  BY <1>1, InputFacts
<1>3. PICK s : s = Len(sockets) + 1
  OBVIOUS
<1> DEFINE k == tcp.pcb[p]
           c == [k EXCEPT !.state = "ESTABLISHED", !.arg = s]
           e == [pcb |-> p, told |-> 0, written |-> 0, sent |-> 0]
<1>4. /\ tcp' = [tcp EXCEPT !.pcb[p].state = "ESTABLISHED", !.pcb[p].arg = s]
      /\ sockets' = Append(sockets, e)
      /\ frame' = [frame EXCEPT !.stage = "handshake", !.cb = "accept", !.sock = s]
  BY <1>2, <1>3 DEF Accept
<1>5. /\ k \in Connection /\ k.state = "SYN_RCVD" /\ k.arg = 0 /\ ~ k.rxclosed /\ k.unread = {}
      /\ s \in Nat /\ s # 0
  BY <1>1, <1>2, <1>3 DEF Memory, IInv, InputHolds, Fresh
<1>6. /\ c \in Connection /\ c.state = "ESTABLISHED" /\ c.arg = s /\ ~ c.rxclosed
      /\ c.unread = {} /\ c.conn = k.conn
  <2> HIDE DEF k
  <2> QED BY <1>5 DEF Connection, ActiveStates
<1>7. SameKind(c, k)
  BY <1>5, <1>6 DEF SameKind, ActiveStates
<1>8. Becomes(tcp, tcp', p, c)
  <2>1. tcp'.pcb = [tcp.pcb EXCEPT ![p] = c]
    BY <1>1, <1>4 DEF Memory
  <2>2. tcp'.active = tcp.active /\ tcp'.tw = tcp.tw /\ tcp'.changed = tcp.changed
    BY <1>1, <1>4 DEF Memory
  <2>3. tcp' \in Memory
    <3> HIDE DEF c
    <3>1. tcp' = [tcp EXCEPT !.pcb = tcp'.pcb]
      BY <1>1, <1>4 DEF Memory
    <3>2. tcp'.pcb \in [Pcb -> Connection]
      BY <1>1, <1>6, <2>1 DEF Memory
    <3> QED BY <1>1, <3>1, <3>2 DEF Memory
  <2> QED BY <1>6, <2>1, <2>2, <2>3 DEF Becomes
<1> HIDE DEF k, c
<1>9. /\ tcp' \in Memory /\ Sane(tcp')
      /\ \A q \in Pcb : tcp'.pcb[q] = IF q = p THEN c ELSE tcp.pcb[q]
  BY <1>7, <1>8, PcbMoved DEF k
<1>10. e \in Socket /\ e.pcb = p /\ e.told = 0
  BY ConstantsAssumption DEF Socket
<1> HIDE DEF e
<1>11. /\ sockets' \in Seq(Socket) /\ Len(sockets') = s /\ sockets'[s] = e
       /\ DOMAIN sockets' = DOMAIN sockets \cup {s} /\ s \notin DOMAIN sockets
       /\ \A r \in DOMAIN sockets : sockets'[r] = sockets[r]
  BY <1>1, <1>3, <1>4, <1>10
<1>12. /\ frame' \in Frames /\ frame'.fn = "input" /\ frame'.pcb = p /\ frame'.stage = "handshake"
       /\ frame'.cb = "accept" /\ frame'.sock = s /\ frame'.seg = frame.seg
  BY <1>1, <1>2, <1>4, <1>5 DEF Frames, Stages, Callbacks
<1>13. \A q \in Pcb : Pending(q) = {} /\ Pending(q)' = {} /\ ~ Freeing(q)
  BY <1>1, <1>12 DEF Pending, Freeing
<1>14. Attached'
  <2>1. ASSUME NEW r \in DOMAIN sockets', sockets'[r].pcb # Nil
        PROVE  /\ tcp'.pcb[sockets'[r].pcb].arg = r
               /\ tcp'.pcb[sockets'[r].pcb].state \in {"ESTABLISHED", "CLOSE_WAIT"}
    <3>1. CASE r = s
      BY <1>6, <1>9, <1>10, <1>11, <3>1
    <3>2. CASE r # s
      <4>1. r \in DOMAIN sockets /\ sockets'[r] = sockets[r] /\ sockets[r] \in Socket
        BY <1>1, <1>11, <3>2
      <4>2. sockets[r].pcb \in Pcb
        BY <2>1, <4>1 DEF Socket
      <4> QED BY <1>5, <1>9, <2>1, <4>1, <4>2 DEF IInv, Attached, k
    <3> QED BY <3>1, <3>2
  <2>2. ASSUME NEW q \in Pcb, tcp'.pcb[q].arg # 0
        PROVE  \/ sockets'[tcp'.pcb[q].arg].pcb = q
               \/ frame'.fn = "input" /\ frame'.pcb = q /\ frame'.stage = "free"
    <3>1. CASE q = p
      BY <1>6, <1>9, <1>10, <1>11, <3>1
    <3>2. CASE q # p
      <4>1. tcp.pcb[q].arg \in DOMAIN sockets /\ sockets[tcp.pcb[q].arg].pcb = q
        BY <1>9, <1>13, <2>2, <3>2 DEF IInv, Attached, Fresh, Freeing
      <4> QED BY <1>9, <1>11, <3>2, <4>1
    <3> QED BY <3>1, <3>2
  <2>3. ASSUME NEW q \in Pcb, tcp'.pcb[q].arg = 0,
               tcp'.pcb[q].state \in {"ESTABLISHED", "CLOSE_WAIT"}
        PROVE  tcp'.pcb[q].rxclosed
    BY <1>5, <1>6, <1>9, <2>3 DEF IInv, Attached
  <2> QED BY <2>1, <2>2, <2>3 DEF Attached
<1>15. Fresh'
  <2>1. ASSUME NEW q \in Pcb, q # p
        PROVE  tcp'.pcb[q] = tcp.pcb[q] /\ Pending(q)' = Pending(q)
    BY <1>9, <1>13, <2>1
  <2>2. tcp'.pcb[p] = c
    BY <1>9
  <2> QED BY <1>5, <1>6, <1>11, <2>1, <2>2 DEF IInv, Fresh
<1>16. Told'
  BY <1>10, <1>11, ConstantsAssumption DEF IInv, Told
<1>17. TypeOK' /\ ListsSane'
  <2>1. frame'.sock \in 0..Len(sockets')
    BY <1>5, <1>11, <1>12
  <2> QED BY <1>9, <1>11, <1>12, <2>1, Typed, SaneLists
<1>18. CallbacksInPlace' /\ OthersHold'
  BY <1>5, <1>12 DEF CallbacksInPlace, OthersHold
<1>19. InputHolds'
  <2>1. frame.seg.kind = "ack"
    BY <1>1 DEF IInv, InputHolds
  <2>2. tcp'.pcb[p].state = "ESTABLISHED" /\ tcp'.pcb[p].arg = s
    BY <1>6, <1>9
  <2> QED BY <1>5, <1>12, <2>1, <2>2 DEF InputHolds
<1> QED BY <1>14, <1>15, <1>16, <1>17, <1>18, <1>19 DEF IInv
----------------------------------------------------------------------------
\* A step of another function than tcp_input, which leaves the connections and
\* the sockets as they are.
LEMMA OnlyFrame ==
  ASSUME IInv, frame.fn # "input", tcp' = tcp, sockets' = sockets,
         frame' \in Frames, frame'.fn # "input", frame'.cb = "none",
         frame'.sock \in {0, frame.sock}, OthersHold'
  PROVE  IInv'
<1>1. \A q \in Pcb : Pending(q) = {} /\ Pending(q)' = {} /\ ~ Freeing(q)
  BY DEF Pending, Freeing
<1>2. \A q \in Pcb : tcp.pcb[q].arg # 0 => tcp'.pcb[q].unread \subseteq Pending(q)'
  BY <1>1 DEF IInv, Fresh
<1>3. tcp \in Memory /\ sockets \in Seq(Socket)
  BY Typed DEF IInv
<1>4. Attached' /\ Fresh' /\ Told'
  BY <1>1, <1>2, <1>3, NoneEnds
<1>5. TypeOK' /\ ListsSane'
  <2>1. frame'.sock \in 0..Len(sockets')
    BY Typed DEF IInv
  <2> QED BY <1>3, <2>1, Typed, SaneLists DEF IInv
<1>6. CallbacksInPlace' /\ InputHolds'
  BY DEF CallbacksInPlace, InputHolds
<1> QED BY <1>4, <1>5, <1>6 DEF IInv

LEMMA SynStep == ASSUME IInv, NEW c \in Conn, Syn(c) PROVE IInv'
<1>1. /\ frame.fn = "none" /\ tcp' = tcp /\ sockets' = sockets /\ c \notin Known
      /\ frame' = [NoFrame EXCEPT !.fn = "alloc", !.conn = c]
  BY DEF Syn, Running
<1>2. /\ frame' \in Frames /\ frame'.fn = "alloc" /\ frame'.conn = c
      /\ frame'.cb = "none" /\ frame'.sock = 0
  BY <1>1, NoFrameType DEF Frames
<1>3. OthersHold'
  BY <1>1, <1>2 DEF OthersHold, Known
<1> QED BY <1>1, <1>2, <1>3, OnlyFrame

\* The connection p is freed by a function other than tcp_input, and its socket
\* told.
LEMMA Killed ==
  ASSUME IInv, NEW p \in Pcb, frame.fn \in {"alloc", "slow"}, tcp' \in Memory, Sane(tcp'),
         tcp'.pcb = [tcp.pcb EXCEPT ![p] = Freed],
         NEW next \in Frames, next.fn = frame.fn, next.cb = "none", next.conn = frame.conn,
         next.fn = "slow" => next.stage = "free" /\ next.pcb \in ToSet(tcp'.active) \cup {Nil},
         CallThen("err", p, next)
  PROVE  IInv'
<1> DEFINE s == tcp.pcb[p].arg
<1>1. /\ s \in {0} \cup DOMAIN sockets /\ frame' \in Frames /\ frame'.sock = s
      /\ frame'.cb = IF s = 0 THEN "none" ELSE "err"
      /\ frame'.fn = next.fn /\ frame'.pcb = next.pcb /\ frame'.stage = next.stage
      /\ frame'.conn = next.conn
      /\ sockets' = IF s = 0 THEN sockets ELSE Ended(s)
      /\ sockets \in Seq(Socket) /\ tcp \in Memory
  BY Called, Typed DEF Callbacks, IInv
<1>2. \A q \in Pcb : Pending(q) = {} /\ Pending(q)' = {} /\ ~ Freeing(q)
  BY <1>1 DEF Pending, Freeing
<1>3. \/ sockets' = sockets /\ \A r \in DOMAIN sockets : sockets[r].pcb # p
      \/ \E r \in DOMAIN sockets : sockets[r].pcb = p /\ sockets' = Ended(r)
  <2>1. CASE s = 0
    BY <1>1, <2>1, ConstantsAssumption DEF IInv, Attached
  <2>2. CASE s # 0
    BY <1>1, <1>2, <2>2 DEF IInv, Attached, Freeing
  <2> QED BY <2>1, <2>2
<1>4. Freed.arg = 0 /\ Freed.state = "FREE" /\ Freed.conn = Nil
  BY DEF Freed
<1>5. \A q \in Pcb \ {p} : /\ tcp.pcb[q].arg # 0 => tcp.pcb[q].unread \subseteq Pending(q)'
                           /\ ~ Freeing(q)
  BY <1>2 DEF IInv, Fresh
<1>6. /\ Attached' /\ Fresh' /\ Told'
      /\ sockets' \in Seq(Socket) /\ Len(sockets') = Len(sockets)
  BY <1>3, <1>4, <1>5, FreedType, OneEnds DEF Open
<1> HIDE DEF s
<1>7. TypeOK' /\ ListsSane'
  <2>1. frame'.sock \in 0..Len(sockets')
    BY <1>1, <1>6
  <2> QED BY <1>1, <1>6, <2>1, Typed, SaneLists
<1>8. CallbacksInPlace' /\ InputHolds'
  BY <1>1 DEF CallbacksInPlace, InputHolds
<1>9. OthersHold'
  <2>1. frame.fn = "alloc" => frame.conn \in Conn /\ frame.conn \notin Known'
    <3>1. \A q \in Pcb : tcp'.pcb[q].conn \in {tcp.pcb[q].conn, Nil}
      BY <1>1, <1>4 DEF Memory
    <3> QED BY <3>1, ConstantsAssumption DEF IInv, OthersHold, Known
  <2> QED BY <1>1, <2>1 DEF OthersHold
<1> QED BY <1>6, <1>7, <1>8, <1>9 DEF IInv

LEMMA KillOldestStep == ASSUME IInv, KillOldest PROVE IInv'
<1>1. PICK p \in IF tcp.tw # {} THEN tcp.tw ELSE ToSet(tcp.active) :
        tcp' = Free(tcp, p) /\ CallThen("err", p, frame)
  BY DEF KillOldest
<1>2. /\ tcp \in Memory /\ Sane(tcp) /\ frame \in Frames /\ frame.fn = "alloc" /\ frame.cb = "none"
  BY Typed, SaneLists DEF IInv, KillOldest, Running
<1>3. p \in Pcb
  BY <1>1, <1>2 DEF Sane
<1>4. tcp' \in Memory /\ tcp'.pcb = [tcp.pcb EXCEPT ![p] = Freed] /\ Sane(tcp')
  BY <1>1, <1>2, <1>3, FreeKeepsSane
<1> QED BY <1>1, <1>2, <1>3, <1>4, Killed

LEMMA NewConnectionStep == ASSUME IInv, NewConnection PROVE IInv'
<1> DEFINE c == [Freed EXCEPT !.state = "SYN_RCVD", !.conn = frame.conn]
<1>1. PICK p \in Unused :
        tcp' = [tcp EXCEPT !.pcb[p] = c, !.active = <<p>> \o @, !.changed = TRUE]
  BY DEF NewConnection
<1>2. /\ frame.fn = "alloc" /\ frame.cb = "none" /\ frame' = NoFrame /\ sockets' = sockets
      /\ tcp \in Memory /\ Sane(tcp) /\ sockets \in Seq(Socket)
      /\ p \in Pcb /\ tcp.pcb[p].state = "FREE"
      /\ frame.conn \in Conn /\ frame.conn \notin Known
  BY <1>1, Typed, SaneLists DEF NewConnection, Running, IInv, OthersHold, Unused
<1>3. /\ c \in Connection /\ c.state = "SYN_RCVD" /\ c.conn = frame.conn /\ c.arg = 0
      /\ ~ c.rxclosed /\ c.unread = {} /\ c.flight = {}
  BY <1>2 DEF Freed, Connection, ActiveStates
<1> HIDE DEF c
<1>4. tcp'.pcb = [tcp.pcb EXCEPT ![p] = c]
  BY <1>1, <1>2 DEF Memory
<1>5. tcp'.active = <<p>> \o tcp.active /\ tcp'.tw = tcp.tw /\ tcp'.changed = TRUE
  BY <1>1, <1>2 DEF Memory
<1>6. /\ tcp'.active \in Seq(Pcb) /\ IsInjective(tcp'.active)
      /\ ToSet(tcp'.active) = ToSet(tcp.active) \cup {p}
  <2>1. p \notin ToSet(tcp.active)
    BY <1>2 DEF Sane, ActiveStates
  <2>2. tcp.active \in Seq(Pcb) /\ IsInjective(tcp.active)
    BY <1>2 DEF Memory, Sane
  <2> QED BY <1>2, <1>5, <2>1, <2>2, PutFirstSet
<1>7. tcp' \in Memory
  <2> DEFINE a == <<p>> \o tcp.active
  <2>1. tcp' = [tcp EXCEPT !.pcb[p] = c, !.active = a, !.changed = TRUE]
    BY <1>1, <1>2 DEF Memory
  <2>2. a \in Seq(Pcb)
    BY <1>5, <1>6
  <2> HIDE DEF a
  <2> QED BY <1>2, <1>3, <2>1, <2>2 DEF Memory
<1>8. \A q \in Pcb : tcp'.pcb[q] = IF q = p THEN c ELSE tcp.pcb[q]
  BY <1>2, <1>4 DEF Memory
<1>9. Sane(tcp')
  <2>1. ToSet(tcp'.active) = {q \in Pcb : tcp'.pcb[q].state \in ActiveStates}
    BY <1>2, <1>3, <1>6, <1>8 DEF Sane, ActiveStates
  <2>2. tcp'.tw = {q \in Pcb : tcp'.pcb[q].state = "TIME_WAIT"}
    BY <1>2, <1>3, <1>5, <1>8 DEF Sane
  <2>3. ASSUME NEW q \in Pcb, NEW r \in Pcb, tcp'.pcb[q].state # "FREE",
               tcp'.pcb[r].state # "FREE", tcp'.pcb[q].conn = tcp'.pcb[r].conn
        PROVE  q = r
    <3>1. \A x \in Pcb : tcp.pcb[x].conn # c.conn
      BY <1>2, <1>3 DEF Known
    <3> QED BY <1>2, <1>8, <2>3, <3>1 DEF Sane
  <2> QED BY <1>6, <2>1, <2>2, <2>3 DEF Sane
<1>10. \A q \in Pcb : Pending(q) = {} /\ Pending(q)' = {} /\ ~ Freeing(q)
  BY <1>2, NoFrameType DEF Pending, Freeing
<1>11. Attached'
  <2>1. ASSUME NEW s \in DOMAIN sockets', sockets'[s].pcb # Nil
        PROVE  /\ tcp'.pcb[sockets'[s].pcb].arg = s
               /\ tcp'.pcb[sockets'[s].pcb].state \in {"ESTABLISHED", "CLOSE_WAIT"}
    <3>1. sockets[s] \in Socket /\ sockets[s].pcb # Nil
      BY <1>2, <2>1
    <3>2. sockets[s].pcb \in Pcb
      BY <3>1 DEF Socket
    <3> QED BY <1>2, <1>8, <2>1, <3>2 DEF IInv, Attached
  <2>2. ASSUME NEW q \in Pcb, tcp'.pcb[q].arg # 0
        PROVE  \/ sockets'[tcp'.pcb[q].arg].pcb = q
               \/ frame'.fn = "input" /\ frame'.pcb = q /\ frame'.stage = "free"
    BY <1>2, <1>3, <1>8, <1>10, <2>2 DEF IInv, Attached, Freeing
  <2>3. ASSUME NEW q \in Pcb, tcp'.pcb[q].arg = 0,
               tcp'.pcb[q].state \in {"ESTABLISHED", "CLOSE_WAIT"}
        PROVE  tcp'.pcb[q].rxclosed
    BY <1>3, <1>8, <2>3 DEF IInv, Attached
  <2> QED BY <2>1, <2>2, <2>3 DEF Attached
<1>12. Fresh' /\ Told'
  BY <1>2, <1>3, <1>8, <1>10 DEF IInv, Fresh, Told
<1>13. TypeOK' /\ ListsSane'
  BY <1>2, <1>7, <1>9, NoFrameType, Typed, SaneLists
<1>14. CallbacksInPlace' /\ InputHolds' /\ OthersHold'
  BY <1>2, NoFrameType DEF CallbacksInPlace, InputHolds, OthersHold
<1> QED BY <1>11, <1>12, <1>13, <1>14 DEF IInv

LEMMA FirstListed ==
  ASSUME NEW t \in Memory PROVE First(t) \in (ToSet(t.active) \cup {Nil}) \cap (Pcb \cup {Nil})
<1>1. t.active \in Seq(Pcb)
  BY DEF Memory
<1>2. t.active # <<>> => Head(t.active) = t.active[1] /\ 1 \in DOMAIN t.active
  BY <1>1
<1> QED BY <1>1, <1>2 DEF First, ToSet

\* The next connection of the list is another one.
LEMMA AfterListed ==
  ASSUME tcp \in Memory, Sane(tcp), NEW p
  PROVE  After(p) \in ((ToSet(tcp.active) \ {p}) \cup {Nil}) \cap (Pcb \cup {Nil})
<1> DEFINE a == tcp.active
           i == CHOOSE i \in DOMAIN a : a[i] = p
<1>1. a \in Seq(Pcb) /\ IsInjective(a)
  BY DEF Memory, Sane
<1>2. CASE \E j \in 1..Len(a) - 1 : a[j] = p
  <2>1. PICK j \in 1..Len(a) - 1 : a[j] = p
    BY <1>2
  <2>2. After(p) = a[1 + i]
    BY <1>2 DEF After
  <2>3. j \in DOMAIN a /\ j + 1 \in DOMAIN a /\ j + 1 # j /\ j \in Int
    BY <1>1
  <2>4. i \in DOMAIN a /\ a[i] = p
    BY <2>1, <2>3
  <2> HIDE DEF i, a
  <2>5. i = j
    BY <1>1, <2>1, <2>3, <2>4 DEF IsInjective
  <2>6. a[1 + i] # p
    BY <1>1, <2>1, <2>3, <2>5 DEF IsInjective
  <2>7. a[1 + i] \in ToSet(a) /\ a[1 + i] \in Pcb
    BY <1>1, <2>3, <2>5 DEF ToSet
  <2> QED BY <2>2, <2>6, <2>7 DEF a
<1>3. CASE ~ \E j \in 1..Len(a) - 1 : a[j] = p
  BY <1>3 DEF After
<1> QED BY <1>2, <1>3

LEMMA SlowTimerStep == ASSUME IInv, SlowTimer PROVE IInv'
<1>1. /\ frame.fn = "none" /\ tcp' = tcp /\ sockets' = sockets /\ tcp \in Memory
      /\ frame' = [NoFrame EXCEPT !.fn = "slow", !.pcb = First(tcp), !.stage = "none"]
  BY Typed DEF SlowTimer, Running, IInv
<1>2. First(tcp) \in ToSet(tcp.active) \cup {Nil} /\ First(tcp) \in Pcb \cup {Nil}
  BY <1>1, FirstListed
<1> HIDE DEF First
<1>3. /\ frame' \in Frames /\ frame'.fn = "slow" /\ frame'.pcb = First(tcp)
      /\ frame'.stage = "none" /\ frame'.cb = "none" /\ frame'.sock = 0
  BY <1>1, <1>2, NoFrameType DEF Frames, Stages
<1>4. OthersHold'
  BY <1>1, <1>2, <1>3 DEF OthersHold
<1> QED BY <1>1, <1>3, <1>4, OnlyFrame

LEMMA SlowSteps ==
  ASSUME IInv, SlowSkips \/ SlowKeeps \/ SlowGoesOn
  PROVE  IInv'
<1>1. /\ frame.fn = "slow" /\ frame.cb = "none" /\ tcp' = tcp /\ sockets' = sockets
      /\ tcp \in Memory /\ Sane(tcp) /\ frame \in Frames
  BY Typed, SaneLists DEF SlowSkips, SlowKeeps, SlowGoesOn, Visiting, Running, IInv
<1>2. ASSUME NEW p \in Pcb \cup {Nil}, p \in ToSet(tcp.active) \cup {Nil},
             frame' \in Frames, frame'.fn = "slow", frame'.cb = "none",
             frame'.stage = "none", frame'.pcb = p, frame'.sock = frame.sock
      PROVE  IInv'
  <2>1. OthersHold'
    BY <1>1, <1>2 DEF OthersHold
  <2> QED BY <1>1, <1>2, <2>1, OnlyFrame
<1>3. CASE SlowSkips
  <2>1. PICK p : frame' = [frame EXCEPT !.pcb = After(p)] /\ frame.stage = "none"
    BY <1>3 DEF SlowSkips, Visiting
  <2>2. After(p) \in ToSet(tcp.active) \cup {Nil} /\ After(p) \in Pcb \cup {Nil}
    BY <1>1, AfterListed
  <2>3. PICK n : n = After(p)
    OBVIOUS
  <2> QED BY <1>1, <1>2, <2>1, <2>2, <2>3 DEF Frames
<1>4. CASE SlowKeeps
  <2>1. PICK p \in Pcb : /\ frame' = [frame EXCEPT !.prev = p, !.pcb = After(p), !.stamped = @ \cup {p}]
                         /\ frame.stage = "none"
    BY <1>4 DEF SlowKeeps, Visiting
  <2>2. After(p) \in ToSet(tcp.active) \cup {Nil} /\ After(p) \in Pcb \cup {Nil}
    BY <1>1, AfterListed
  <2>3. PICK n : n = After(p)
    OBVIOUS
  <2>4. PICK m : m = frame.stamped \cup {p}
    OBVIOUS
  <2>5. m \in SUBSET Pcb
    BY <1>1, <2>4 DEF Frames
  <2>6. frame' = [frame EXCEPT !.prev = p, !.pcb = n, !.stamped = m]
    BY <2>1, <2>3, <2>4
  <2> QED BY <1>1, <1>2, <2>1, <2>2, <2>3, <2>5, <2>6 DEF Frames
<1>5. CASE SlowGoesOn
  <2>1. frame' = IF tcp.changed
                 THEN [frame EXCEPT !.pcb = First(tcp), !.prev = Nil, !.stage = "none"]
                 ELSE [frame EXCEPT !.stage = "none"]
    BY <1>5 DEF SlowGoesOn
  <2>2. PICK n : n = First(tcp)
    OBVIOUS
  <2>3. n \in ToSet(tcp.active) \cup {Nil} /\ n \in Pcb \cup {Nil}
    BY <1>1, <2>2, FirstListed
  <2>4. CASE tcp.changed
    BY <1>1, <1>2, <2>1, <2>2, <2>3, <2>4 DEF Frames, Stages
  <2>5. CASE ~ tcp.changed
    <3>1. frame.pcb \in ToSet(tcp.active) \cup {Nil}
      BY <1>1, <2>5 DEF IInv, OthersHold
    <3> QED BY <1>1, <1>2, <2>1, <2>5, <3>1 DEF Frames, Stages
  <2> QED BY <2>4, <2>5
<1> QED BY <1>3, <1>4, <1>5

LEMMA SlowRemovesStep == ASSUME IInv, NEW p \in Pcb, SlowRemoves(p) PROVE IInv'
<1> DEFINE t == Free(tcp, p)
           n == After(p)
           m == frame.stamped \cup {p}
<1>1. /\ frame.fn = "slow" /\ frame.cb = "none" /\ frame.stage = "none"
      /\ tcp' = [t EXCEPT !.changed = FALSE]
      /\ CallThen("err", p, [frame EXCEPT !.pcb = n, !.stage = "free", !.stamped = m])
      /\ tcp \in Memory /\ Sane(tcp) /\ frame \in Frames
  BY Typed, SaneLists DEF SlowRemoves, Visiting, Running, IInv
<1>2. /\ n \in (ToSet(tcp.active) \ {p}) \cup {Nil} /\ n \in Pcb \cup {Nil}
  BY <1>1, AfterListed
<1>3. m \in SUBSET Pcb
  BY <1>1 DEF Frames
<1>4. /\ t \in Memory /\ t.pcb = [tcp.pcb EXCEPT ![p] = Freed]
      /\ ToSet(t.active) = ToSet(tcp.active) \ {p} /\ Sane(t)
  BY <1>1, FreeKeepsSane
<1> HIDE DEF t, n, m
<1>5. /\ tcp' \in Memory /\ tcp'.pcb = t.pcb /\ tcp'.active = t.active /\ tcp'.tw = t.tw
  BY <1>1, <1>4 DEF Memory
<1>6. Sane(tcp')
  BY <1>4, <1>5 DEF Sane
<1> DEFINE next == [frame EXCEPT !.pcb = n, !.stage = "free", !.stamped = m]
<1>7. /\ next \in Frames /\ next.fn = "slow" /\ next.cb = "none" /\ next.conn = frame.conn
      /\ next.stage = "free" /\ next.pcb = n
  BY <1>1, <1>2, <1>3 DEF Frames, Stages
<1>8. CallThen("err", p, next)
  BY <1>1
<1> HIDE DEF next
<1>9. next.pcb \in ToSet(tcp'.active) \cup {Nil}
  BY <1>2, <1>4, <1>5, <1>7
<1> QED BY <1>1, <1>4, <1>5, <1>6, <1>7, <1>8, <1>9, Killed

LEMMA ExpireStep == ASSUME IInv, NEW gone \in SUBSET tcp.tw, Expire(gone) PROVE IInv'
<1>1. /\ frame.fn = "slow" /\ frame.cb = "none" /\ frame' = NoFrame /\ sockets' = sockets
      /\ tcp' = [tcp EXCEPT !.pcb = [p \in Pcb |-> IF p \in gone THEN Freed ELSE tcp.pcb[p]],
                            !.tw = @ \ gone]
      /\ tcp \in Memory /\ Sane(tcp) /\ sockets \in Seq(Socket)
  BY Typed, SaneLists DEF Expire, Running, IInv
<1>2. /\ Freed.state = "FREE" /\ Freed.arg = 0
      /\ \A p \in gone : p \in Pcb /\ tcp.pcb[p].state = "TIME_WAIT"
  BY <1>1 DEF Freed, Sane
<1> DEFINE f == [p \in Pcb |-> IF p \in gone THEN Freed ELSE tcp.pcb[p]]
<1>3. f \in [Pcb -> Connection] /\ \A p \in Pcb : f[p] = IF p \in gone THEN Freed ELSE tcp.pcb[p]
  BY <1>1, FreedType DEF Memory
<1>4. tcp' = [tcp EXCEPT !.pcb = f, !.tw = @ \ gone]
  BY <1>1
<1> HIDE DEF f
<1>5. /\ tcp' \in Memory /\ tcp'.pcb = f /\ tcp'.active = tcp.active /\ tcp'.tw = tcp.tw \ gone
  <2>1. tcp \in Memory /\ tcp.tw \ gone \in SUBSET Pcb
    BY <1>1 DEF Memory
  <2>2. tcp'.pcb = f /\ tcp'.active = tcp.active /\ tcp'.tw = tcp.tw \ gone
    BY ONLY <1>4, <2>1 DEF Memory
  <2>3. tcp' \in Memory
    BY ONLY <1>3, <1>4, <2>1 DEF Memory
  <2> QED BY <2>2, <2>3
<1>6. \A p \in Pcb : tcp'.pcb[p] = IF p \in gone THEN Freed ELSE tcp.pcb[p]
  BY <1>3, <1>5
<1>7. Sane(tcp')
  <2>1. ToSet(tcp'.active) = {q \in Pcb : tcp'.pcb[q].state \in ActiveStates}
    BY <1>1, <1>2, <1>5, <1>6 DEF Sane, ActiveStates
  <2>2. tcp'.tw = {q \in Pcb : tcp'.pcb[q].state = "TIME_WAIT"}
    BY <1>1, <1>2, <1>5, <1>6 DEF Sane
  <2>3. ASSUME NEW q \in Pcb, NEW r \in Pcb, tcp'.pcb[q].state # "FREE",
               tcp'.pcb[r].state # "FREE", tcp'.pcb[q].conn = tcp'.pcb[r].conn
        PROVE  q = r
    BY <1>1, <1>2, <1>6, <2>3 DEF Sane
  <2>4. IsInjective(tcp'.active)
    BY <1>1, <1>5 DEF Sane
  <2> QED BY <2>1, <2>2, <2>3, <2>4 DEF Sane
<1>8. \A q \in Pcb : Pending(q) = {} /\ Pending(q)' = {} /\ ~ Freeing(q)
  BY <1>1, NoFrameType DEF Pending, Freeing
<1>9. Attached'
  <2>1. ASSUME NEW s \in DOMAIN sockets', sockets'[s].pcb # Nil
        PROVE  /\ tcp'.pcb[sockets'[s].pcb].arg = s
               /\ tcp'.pcb[sockets'[s].pcb].state \in {"ESTABLISHED", "CLOSE_WAIT"}
    <3>1. sockets[s] \in Socket /\ sockets[s].pcb # Nil
      BY <1>1, <2>1
    <3>2. sockets[s].pcb \in Pcb
      BY <3>1 DEF Socket
    <3> QED BY <1>1, <1>2, <1>6, <2>1, <3>2 DEF IInv, Attached
  <2>2. ASSUME NEW q \in Pcb, tcp'.pcb[q].arg # 0
        PROVE  \/ sockets'[tcp'.pcb[q].arg].pcb = q
               \/ frame'.fn = "input" /\ frame'.pcb = q /\ frame'.stage = "free"
    BY <1>1, <1>2, <1>6, <1>8, <2>2 DEF IInv, Attached, Freeing
  <2>3. ASSUME NEW q \in Pcb, tcp'.pcb[q].arg = 0,
               tcp'.pcb[q].state \in {"ESTABLISHED", "CLOSE_WAIT"}
        PROVE  tcp'.pcb[q].rxclosed
    BY <1>2, <1>6, <2>3 DEF IInv, Attached
  <2> QED BY <2>1, <2>2, <2>3 DEF Attached
<1>10. Fresh' /\ Told'
  BY <1>1, <1>2, <1>6, <1>8 DEF IInv, Fresh, Told
<1>11. TypeOK' /\ ListsSane'
  BY <1>1, <1>5, <1>7, NoFrameType, Typed, SaneLists
<1>12. CallbacksInPlace' /\ InputHolds' /\ OthersHold'
  BY <1>1, NoFrameType DEF CallbacksInPlace, InputHolds, OthersHold
<1> QED BY <1>9, <1>10, <1>11, <1>12 DEF IInv

----------------------------------------------------------------------------
LEMMA InitIInv == ASSUME Init PROVE IInv /\ Counted
<1>1. /\ tcp = [pcb |-> [p \in Pcb |-> Freed], active |-> <<>>, tw |-> {}, changed |-> FALSE]
      /\ sockets = <<>> /\ frame = NoFrame
  BY DEF Init
<1>2. \A p \in Pcb : tcp.pcb[p] = Freed
  BY <1>1
<1>3. /\ Freed.state = "FREE" /\ Freed.arg = 0
      /\ NoFrame.stage = "none"
  BY DEF Freed, NoFrame
<1>4. tcp \in Memory /\ tcp.active = <<>> /\ tcp.tw = {}
  BY <1>1, FreedType DEF Memory
<1>5. Sane(tcp)
  BY <1>2, <1>3, <1>4 DEF Sane, IsInjective, ToSet, ActiveStates
<1>6. TypeOK /\ ListsSane
  BY <1>1, <1>4, <1>5, NoFrameType, Typed, SaneLists
<1>7. CallbacksInPlace /\ InputHolds /\ OthersHold
  BY <1>1, NoFrameType DEF CallbacksInPlace, InputHolds, OthersHold
<1>8. Attached /\ Told /\ Fresh
  BY <1>1, <1>2, <1>3 DEF Attached, Told, Fresh
<1>9. Counted
  BY <1>1, <1>2, <1>3, NoFrameType DEF Counted
<1> QED BY <1>6, <1>7, <1>8, <1>9 DEF IInv

LEMMA StepIInv ==
  ASSUME Build = "debug", MayCall \subseteq Considerate, IInv, [Next]_vars
  PROVE  IInv'
<1>1. CASE UNCHANGED vars
  BY <1>1 DEF vars, IInv, TypeOK, Attached, ListsSane, Unused, Told, CallbacksInPlace, InputHolds,
              OthersHold, Known, Fresh, Pending
<1>2. CASE Next
  <2>1. ASSUME NEW s \in DOMAIN sockets, Close(s) \/ Reset(s) \/ WriteData(s)
        PROVE  IInv'
    BY <2>1, CloseStep, ResetStep, WriteStep
  <2>2. CASE CallbackReturns
    BY <2>2, CallbackReturnsStep
  <2>3. CASE \E c \in Conn : Syn(c)
    BY <2>3, SynStep
  <2>4. CASE KillOldest \/ NewConnection
    BY <2>4, KillOldestStep, NewConnectionStep
  <2>5. CASE \E p \in Pcb : \E s \in Arriving(p) : Arrive(p, s)
    BY <2>5, ArriveStep
  <2>6. CASE InputStep
    BY <2>6, AcceptStep, HandshakeStep, ReceiveStep, ResetByPeerStep, FreeConnectionStep,
       SentStep, RecvStep, PeerClosedStep, InputEndsStep DEF InputStep
  <2>7. CASE SlowTimer \/ SlowSkips \/ SlowKeeps \/ SlowGoesOn
    BY <2>7, SlowTimerStep, SlowSteps
  <2>8. CASE \E p \in Pcb : SlowRemoves(p)
    BY <2>8, SlowRemovesStep
  <2>9. CASE \E gone \in SUBSET tcp.tw : Expire(gone)
    BY <2>9, ExpireStep
  <2> QED BY <1>2, <2>1, <2>2, <2>3, <2>4, <2>5, <2>6, <2>7, <2>8, <2>9 DEF Next
<1> QED BY <1>1, <1>2

LEMMA Invariance ==
  ASSUME Build = "debug", MayCall \subseteq Considerate
  PROVE  Spec => []IInv
<1>1. Init => IInv
  BY InitIInv
<1>2. IInv /\ [Next]_vars => IInv'
  BY StepIInv
<1> QED BY <1>1, <1>2, PTL DEF Spec

\* Memory, sockets and the function that is running keep their types.
THEOREM TypeCorrect ==
  ASSUME Build = "debug", MayCall \subseteq Considerate
  PROVE  Spec => []TypeOK
<1>1. IInv => TypeOK
  BY DEF IInv
<1> QED BY <1>1, Invariance, PTL

\* A socket that has not ended has an open connection that calls it back, and a
\* connection calls back no other socket; whatever the delegates of other
\* sockets do in a callback, in which function of lwIP.
THEOREM StayTogether ==
  ASSUME Build = "debug", MayCall \subseteq Considerate
  PROVE  Spec => []Attached
<1>1. IInv => Attached
  BY DEF IInv
<1> QED BY <1>1, Invariance, PTL

\* The lists of connections are what tcp_pcbs_sane says of them, also while a
\* callback is running.
THEOREM ListsStaySane ==
  ASSUME Build = "debug", MayCall \subseteq Considerate
  PROVE  Spec => []ListsSane
<1>1. IInv => ListsSane
  BY DEF IInv
<1> QED BY <1>1, Invariance, PTL

\* tcp_input and tcp_slowtmr never go on with a connection that a callback has
\* freed.
THEOREM NoneUsedAfterFree ==
  ASSUME Build = "debug", MayCall \subseteq Considerate
  PROVE  Spec => []NoUseAfterFree
<1>1. IInv => NoUseAfterFree
  BY Typed DEF IInv, NoUseAfterFree, InputHolds, OthersHold, ListsSane, ActiveStates
<1> QED BY <1>1, Invariance, PTL

----------------------------------------------------------------------------
\* A step in which nothing is sent, acknowledged or told.
LEMMA Quiet ==
  ASSUME IInv, Counted, frame'.fn # "input" \/ frame'.stage # "sent",
         \A p \in Pcb : tcp'.pcb[p].arg = 0
                        \/ (/\ tcp'.pcb[p].arg = tcp.pcb[p].arg
                            /\ tcp'.pcb[p].flight \subseteq tcp.pcb[p].flight),
         DOMAIN sockets' = DOMAIN sockets,
         \A s \in DOMAIN sockets : sockets'[s].sent = sockets[s].sent
                                   /\ sockets'[s].written = sockets[s].written
  PROVE  Counted'
<1>1. \A p \in Pcb : Due(p)' => "data" \in tcp'.pcb[p].flight
  BY DEF Due
<1>2. ASSUME NEW p \in Pcb, tcp'.pcb[p].arg # 0
      PROVE  sockets'[tcp'.pcb[p].arg].sent + (IF Due(p)' THEN 1 ELSE 0)
               <= sockets'[tcp'.pcb[p].arg].written
  <2>1. /\ tcp'.pcb[p].arg = tcp.pcb[p].arg /\ tcp.pcb[p].arg \in DOMAIN sockets
        /\ sockets \in Seq(Socket)
    BY <1>2, Typed DEF IInv, Fresh
  <2>2. PICK s : s = tcp.pcb[p].arg
    OBVIOUS
  <2>3. sockets[s] \in Socket /\ sockets'[s].sent = sockets[s].sent /\ sockets'[s].written = sockets[s].written
    BY <2>1, <2>2
  <2>4. Due(p)' => Due(p)
    BY <1>1, <1>2 DEF Due
  <2>5. sockets[s].sent + (IF Due(p) THEN 1 ELSE 0) <= sockets[s].written
    BY <1>2, <2>1, <2>2 DEF Counted
  <2>6. sockets[s].sent \in Nat /\ sockets[s].written \in Nat
    BY <2>3, ConstantsAssumption DEF Socket
  <2>7. sockets[s].sent + (IF Due(p)' THEN 1 ELSE 0) <= sockets[s].written
    BY ONLY <2>4, <2>5, <2>6
  <2> QED BY <2>1, <2>2, <2>3, <2>7
<1>3. \A s \in DOMAIN sockets' : sockets'[s].sent <= sockets'[s].written
  BY DEF Counted
<1> QED BY <1>2, <1>3 DEF Counted

LEMMA EndedQuiet ==
  ASSUME IInv, sockets' = sockets \/ \E s \in DOMAIN sockets : sockets' = Ended(s)
  PROVE  /\ DOMAIN sockets' = DOMAIN sockets
         /\ \A s \in DOMAIN sockets : sockets'[s].sent = sockets[s].sent
                                      /\ sockets'[s].written = sockets[s].written
  BY Typed, EndedFields DEF IInv

\* A callback of another event than TCP_EVENT_SENT.
LEMMA OtherCallback ==
  ASSUME IInv, NEW p \in Pcb, NEW cb \in {"err", "recv", "closed"}, NEW next, CallThen(cb, p, next)
  PROVE  sockets' = sockets \/ \E s \in DOMAIN sockets : sockets' = Ended(s)
  BY DEF CallThen, IInv, Fresh

LEMMA FreeFields ==
  ASSUME IInv, NEW p \in Pcb
  PROVE  /\ Free(tcp, p).pcb = [tcp.pcb EXCEPT ![p] = Freed] /\ Freed.arg = 0
         /\ \A q \in Pcb : Free(tcp, p).pcb[q].arg = 0 \/ Free(tcp, p).pcb[q] = tcp.pcb[q]
<1>1. tcp \in Memory /\ Sane(tcp)
  BY Typed, SaneLists DEF IInv
<1>2. Free(tcp, p).pcb = [tcp.pcb EXCEPT ![p] = Freed]
  BY <1>1, FreeKeepsSane
<1> QED BY <1>1, <1>2 DEF Memory, Freed

LEMMA CallsCounted ==
  ASSUME IInv, Counted, MayCall \subseteq Considerate, Build = "debug",
         NEW s \in DOMAIN sockets, Close(s) \/ Reset(s)
  PROVE  Counted'
<1> DEFINE p == sockets[s].pcb
<1>1. PICK do : MayAct(s, do) /\ sockets' = Ended(s) /\ frame' = frame
  BY DEF Close, Reset
<1>2. /\ p \in Pcb /\ tcp \in Memory /\ Sane(tcp) /\ tcp.pcb[p].state \in Open
      /\ frame.fn # "input" \/ frame.stage # "sent"
  BY <1>1, Callable, Typed, SaneLists DEF IInv
<1>3. \A q \in Pcb : tcp'.pcb[q].arg = 0 \/ tcp'.pcb[q] = tcp.pcb[q]
  <2>1. CASE Reset(s)
    BY <1>2, <2>1, FreeFields DEF Reset
  <2>2. CASE Close(s)
    <3> DEFINE k == [tcp.pcb[p] EXCEPT !.arg = 0]
               t == [tcp EXCEPT !.pcb[p].arg = 0]
    <3>1. tcp' = TcpClose(t, p)
      BY <2>2 DEF Close
    <3>2. tcp.pcb[p] \in Connection
      BY <1>2 DEF Memory
    <3>3. /\ k \in Connection /\ k.arg = 0 /\ k.state = tcp.pcb[p].state /\ k.conn = tcp.pcb[p].conn
      <4> HIDE DEF p
      <4> QED BY <3>2 DEF Connection
    <3>4. t = [tcp EXCEPT !.pcb[p] = k]
      OBVIOUS
    <3>5. SameKind(k, tcp.pcb[p])
      BY <3>3 DEF SameKind
    <3> HIDE DEF t, k, p
    <3>6. t \in Memory /\ t.pcb = [tcp.pcb EXCEPT ![p] = k] /\ Sane(t)
      <4>1. /\ [tcp EXCEPT !.pcb[p] = k] \in Memory
            /\ [tcp EXCEPT !.pcb[p] = k].pcb = [tcp.pcb EXCEPT ![p] = k]
            /\ Sane([tcp EXCEPT !.pcb[p] = k])
        BY ONLY <1>2, <3>3, <3>5, ChangeKeepsSane
      <4> QED BY ONLY <3>4, <4>1
    <3>7. t.pcb[p] = k
      BY <1>2, <3>6 DEF Memory
    <3>8. PICK c \in Connection : tcp'.pcb = [t.pcb EXCEPT ![p] = c] /\ c.arg \in {k.arg, 0}
      BY <1>2, <3>1, <3>3, <3>6, <3>7, CloseOfOpen
    <3> QED BY <1>2, <3>3, <3>6, <3>8 DEF Memory
  <2> QED BY <2>1, <2>2
<1> QED BY <1>1, <1>2, <1>3, EndedQuiet, Quiet

LEMMA WriteCounted ==
  ASSUME IInv, Counted, MayCall \subseteq Considerate, NEW s \in DOMAIN sockets, WriteData(s)
  PROVE  Counted'
<1>1. PICK p : p = sockets[s].pcb
  OBVIOUS
<1> DEFINE e == [sockets[s] EXCEPT !.written = @ + 1]
<1>2. /\ MayAct(s, "write") /\ frame' = frame
      /\ tcp' = [tcp EXCEPT !.pcb[p].flight = {"data"}] /\ sockets' = [sockets EXCEPT ![s] = e]
  BY <1>1 DEF WriteData
<1>3. /\ p \in Pcb /\ tcp.pcb[p].arg = s /\ tcp \in Memory /\ sockets \in Seq(Socket)
      /\ frame.fn # "input" \/ frame.stage # "sent"
  BY <1>1, <1>2, Callable, Typed DEF IInv
<1>4. /\ \A q \in Pcb : tcp'.pcb[q].arg = tcp.pcb[q].arg
      /\ \A q \in Pcb : q # p => tcp'.pcb[q] = tcp.pcb[q]
  BY <1>2, <1>3 DEF Memory, Connection
<1>5. e.sent = sockets[s].sent /\ e.written = sockets[s].written + 1 /\ sockets[s] \in Socket
  <2>1. sockets[s] \in Socket
    BY <1>3
  <2> QED BY <2>1 DEF Socket
<1> HIDE DEF e
<1>6. /\ DOMAIN sockets' = DOMAIN sockets /\ sockets'[s] = e
      /\ \A r \in DOMAIN sockets : r # s => sockets'[r] = sockets[r]
  BY <1>2, <1>3
<1>7. sockets[s].sent \in Nat /\ sockets[s].written \in Nat /\ sockets[s].sent <= sockets[s].written
  BY <1>5, ConstantsAssumption DEF Socket, Counted
<1>8. ASSUME NEW q \in Pcb, tcp'.pcb[q].arg # 0
      PROVE  sockets'[tcp'.pcb[q].arg].sent + (IF Due(q)' THEN 1 ELSE 0)
               <= sockets'[tcp'.pcb[q].arg].written
  <2>1. CASE tcp.pcb[q].arg = s
    <3>1. sockets'[s].sent + 1 <= sockets'[s].written /\ sockets'[s].sent <= sockets'[s].written
      BY <1>5, <1>6, <1>7
    <3> QED BY <1>4, <1>5, <1>6, <1>7, <2>1, <3>1
  <2>2. CASE tcp.pcb[q].arg # s
    <3>1. tcp'.pcb[q] = tcp.pcb[q] /\ tcp.pcb[q].arg \in DOMAIN sockets
      BY <1>3, <1>4, <1>8, <2>2 DEF IInv, Fresh
    <3>2. Due(q)' <=> Due(q)
      BY <1>2, <3>1 DEF Due
    <3> QED BY <1>6, <1>8, <2>2, <3>1, <3>2 DEF Counted
  <2> QED BY <2>1, <2>2
<1>9. \A r \in DOMAIN sockets' : sockets'[r].sent <= sockets'[r].written
  BY <1>5, <1>6, <1>7 DEF Counted
<1> QED BY <1>2, <1>3, <1>8, <1>9 DEF Counted

LEMMA CallbackReturnsCounted == ASSUME IInv, Counted, CallbackReturns PROVE Counted'
<1>1. /\ frame.cb # "none" /\ sockets' = sockets /\ frame \in Frames
      /\ frame' = [frame EXCEPT !.cb = "none", !.sock = 0]
      /\ frame.cb = "recv" => frame.pcb \in Pcb
  BY Typed DEF CallbackReturns, IInv, CallbacksInPlace, InputHolds
<1>2. frame'.fn # "input" \/ frame'.stage # "sent"
  BY <1>1 DEF IInv, CallbacksInPlace, Frames, Callbacks
<1>3. CASE tcp' = tcp
  BY <1>1, <1>2, <1>3, Quiet
<1>4. CASE tcp' # tcp
  <2>1. PICK p \in Pcb : p = frame.pcb
    BY <1>1, <1>4 DEF CallbackReturns
  <2>2. tcp' = [tcp EXCEPT !.pcb[p].unread = @ \ {"data"}]
    BY <1>4, <2>1 DEF CallbackReturns
  <2>3. PICK c : Becomes(tcp, tcp', p, c) /\ SameKind(c, tcp.pcb[p]) /\ Reads(tcp.pcb[p], c, "data")
    BY <2>2, ReadFields
  <2>4. \A q \in Pcb : tcp'.pcb[q] = IF q = p THEN c ELSE tcp.pcb[q]
    BY <2>3, PcbMoved
  <2>5. \A q \in Pcb : tcp'.pcb[q].arg = tcp.pcb[q].arg /\ tcp'.pcb[q].flight = tcp.pcb[q].flight
    BY <2>3, <2>4 DEF Reads
  <2> QED BY <1>1, <1>2, <2>5, Quiet
<1> QED BY <1>3, <1>4

LEMMA ArriveCounted ==
  ASSUME IInv, Counted, Stray = FALSE, NEW p \in Pcb, NEW s, Arrive(p, s)
  PROVE  Counted'
<1>1. /\ s \in Arriving(p) /\ tcp' = ToFront(tcp, p) /\ sockets' = sockets /\ tcp \in Memory
      /\ frame' = [NoFrame EXCEPT !.fn = "input", !.pcb = p, !.seg = s, !.stage = FirstStage(p, s)]
  BY Typed DEF Arrive, IInv
<1>2. s.kind \in {"ack", "rst"}
  BY <1>1 DEF Arriving, Expected, Bare
<1>3. FirstStage(p, s) # "sent"
  BY <1>2 DEF FirstStage
<1>4. frame'.stage = FirstStage(p, s)
  BY <1>1, NoFrameType DEF Frames
<1>5. tcp'.pcb = tcp.pcb
  BY <1>1 DEF ToFront, Memory
<1> QED BY <1>1, <1>3, <1>4, <1>5, Quiet

LEMMA AcceptCounted == ASSUME IInv, Counted, Accept PROVE Counted'
<1>1. /\ At("accept") /\ frame.fn = "input" /\ frame.stage = "accept"
      /\ tcp \in Memory /\ sockets \in Seq(Socket) /\ frame \in Frames
  BY InputFacts DEF Accept
<1>2. PICK p \in Pcb : p = frame.pcb
  BY <1>1, InputFacts
<1>3. PICK s : s = Len(sockets) + 1
  OBVIOUS
<1> DEFINE e == [pcb |-> p, told |-> 0, written |-> 0, sent |-> 0]
<1>4. /\ tcp' = [tcp EXCEPT !.pcb[p].state = "ESTABLISHED", !.pcb[p].arg = s]
      /\ sockets' = Append(sockets, e)
      /\ frame' = [frame EXCEPT !.stage = "handshake", !.cb = "accept", !.sock = s]
  BY <1>2, <1>3 DEF Accept
<1>5. tcp.pcb[p].flight = {} /\ tcp.pcb[p] \in Connection
  BY <1>1, <1>2 DEF IInv, InputHolds, Fresh, Memory
<1>6. /\ tcp'.pcb[p].arg = s /\ tcp'.pcb[p].flight = {}
      /\ \A q \in Pcb : q # p => tcp'.pcb[q] = tcp.pcb[q]
  BY <1>1, <1>4, <1>5 DEF Memory, Connection
<1>7. e.sent = 0 /\ e.written = 0
  OBVIOUS
<1> HIDE DEF e
<1>8. /\ sockets'[s] = e /\ DOMAIN sockets' = DOMAIN sockets \cup {s} /\ s \notin DOMAIN sockets
      /\ \A r \in DOMAIN sockets : sockets'[r] = sockets[r]
  BY <1>1, <1>3, <1>4
<1>9. frame'.stage = "handshake"
  BY <1>1, <1>4 DEF Frames
<1>10. ASSUME NEW q \in Pcb, tcp'.pcb[q].arg # 0
       PROVE  sockets'[tcp'.pcb[q].arg].sent + (IF Due(q)' THEN 1 ELSE 0)
                <= sockets'[tcp'.pcb[q].arg].written
  <2>1. Due(q)' <=> "data" \in tcp'.pcb[q].flight
    BY <1>9 DEF Due
  <2>2. CASE q = p
    BY <1>6, <1>7, <1>8, <2>1, <2>2
  <2>3. CASE q # p
    <3>1. tcp'.pcb[q] = tcp.pcb[q] /\ tcp.pcb[q].arg \in DOMAIN sockets
      BY <1>6, <1>10, <2>3 DEF IInv, Fresh
    <3>2. Due(q)' <=> Due(q)
      BY <1>1, <2>1, <3>1 DEF Due
    <3> QED BY <1>8, <1>10, <3>1, <3>2 DEF Counted
  <2> QED BY <2>2, <2>3
<1>11. \A r \in DOMAIN sockets' : sockets'[r].sent <= sockets'[r].written
  BY <1>7, <1>8 DEF Counted
<1> QED BY <1>9, <1>10, <1>11 DEF Counted

LEMMA ResultCounted ==
  ASSUME IInv, Counted, NEW stage \in {"handshake", "receive"}, At(stage), sockets' = sockets,
         NEW p \in Pcb, NEW d, Result(p, d), Then("sent") \/ Then("free")
  PROVE  Counted'
<1>1. /\ frame.fn = "input" /\ frame.stage = stage /\ p = frame.pcb /\ frame \in Frames
  BY InputFacts DEF Result
<1>2. frame'.fn = "input" /\ frame'.pcb = p
  BY <1>1, FrameThen DEF Stages
<1>3. /\ \A q \in Pcb : tcp'.pcb[q] = IF q = p THEN d ELSE tcp.pcb[q]
      /\ d.arg = tcp.pcb[p].arg /\ d.flight \subseteq tcp.pcb[p].flight
      /\ d.acked => "data" \in tcp.pcb[p].flight /\ "data" \notin d.flight
  BY DEF Result
<1>4. ASSUME NEW q \in Pcb, tcp'.pcb[q].arg # 0
      PROVE  sockets'[tcp'.pcb[q].arg].sent + (IF Due(q)' THEN 1 ELSE 0)
               <= sockets'[tcp'.pcb[q].arg].written
  <2>1. tcp'.pcb[q].arg = tcp.pcb[q].arg /\ tcp.pcb[q].arg \in DOMAIN sockets
    BY <1>3, <1>4 DEF IInv, Fresh
  <2>2. Due(q)' => Due(q)
    BY <1>1, <1>2, <1>3 DEF Due
  <2>3. PICK s \in DOMAIN sockets : s = tcp.pcb[q].arg
    BY <2>1
  <2>4. sockets[s].sent + (IF Due(q) THEN 1 ELSE 0) <= sockets[s].written
    BY <1>4, <2>1, <2>3 DEF Counted
  <2>5. sockets[s] \in Socket
    BY Typed DEF IInv
  <2>6. sockets[s].sent \in Nat /\ sockets[s].written \in Nat
    BY <2>5, ConstantsAssumption DEF Socket
  <2>7. sockets[s].sent + (IF Due(q)' THEN 1 ELSE 0) <= sockets[s].written
    BY ONLY <2>2, <2>4, <2>6
  <2> QED BY <2>1, <2>3, <2>7
<1>5. tcp'.pcb[p].acked => "data" \notin tcp'.pcb[p].flight
  BY <1>3
<1> QED BY <1>2, <1>4, <1>5 DEF Counted

LEMMA SentCounted == ASSUME IInv, Counted, Sent PROVE Counted'
<1>1. /\ At("sent") /\ tcp' = tcp /\ frame.fn = "input" /\ frame.cb = "none"
      /\ frame.stage = "sent" /\ frame \in Frames /\ sockets \in Seq(Socket)
  BY InputFacts DEF Sent
<1>2. PICK p \in Pcb : p = frame.pcb
  BY <1>1, InputFacts
<1>3. CASE sockets' = sockets /\ frame'.stage # "sent"
  BY <1>1, <1>3, Quiet
<1>4. CASE Then("recv") /\ sockets' = sockets
  BY <1>1, <1>3, <1>4, FrameThen DEF Stages
<1>5. CASE tcp.pcb[p].acked /\ CallThen("sent", p, [frame EXCEPT !.stage = "recv"])
  <2>1. frame'.stage = "recv" /\ tcp.pcb[p].arg \in {0} \cup DOMAIN sockets
    BY <1>1, <1>2, <1>5, CalledFields DEF Callbacks, Stages
  <2>2. CASE tcp.pcb[p].arg = 0
    BY <1>3, <1>5, <2>1, <2>2 DEF CallThen
  <2>3. CASE tcp.pcb[p].arg # 0
    <3>1. PICK s \in DOMAIN sockets : s = tcp.pcb[p].arg
      BY <2>1, <2>3
    <3> DEFINE e == [sockets[s] EXCEPT !.sent = @ + 1]
    <3>2. sockets' = [sockets EXCEPT ![s] = e] /\ sockets[s] \in Socket
      BY <1>1, <1>5, <2>3, <3>1 DEF CallThen
    <3>3. e.sent = sockets[s].sent + 1 /\ e.written = sockets[s].written
      BY <3>2 DEF Socket
    <3> HIDE DEF e
    <3>4. /\ DOMAIN sockets' = DOMAIN sockets /\ sockets'[s] = e
          /\ \A r \in DOMAIN sockets : r # s => sockets'[r] = sockets[r]
      BY <1>1, <3>2
    <3>5. sockets[s].sent \in Nat /\ sockets[s].written \in Nat
      BY <3>2, ConstantsAssumption DEF Socket
    <3>6. sockets[s].sent + 1 <= sockets[s].written /\ "data" \notin tcp.pcb[p].flight
      BY <1>1, <1>2, <1>5, <2>3, <3>1 DEF Counted, Due
    <3>7. ASSUME NEW q \in Pcb, tcp.pcb[q].arg = s
          PROVE  q = p
      BY <1>1, <1>2, <2>3, <3>1, <3>7 DEF IInv, Attached
    <3>8. ASSUME NEW q \in Pcb, tcp'.pcb[q].arg # 0
          PROVE  sockets'[tcp'.pcb[q].arg].sent + (IF Due(q)' THEN 1 ELSE 0)
                   <= sockets'[tcp'.pcb[q].arg].written
      <4>1. Due(q)' <=> "data" \in tcp.pcb[q].flight
        BY <1>1, <2>1 DEF Due
      <4>2. CASE q = p
        <5>1. tcp'.pcb[q].arg = s /\ ~ Due(q)'
          BY <1>1, <3>1, <3>6, <4>1, <4>2
        <5> QED BY <3>3, <3>4, <3>5, <3>6, <5>1
      <4>3. CASE q # p
        <5>1. tcp.pcb[q].arg \in DOMAIN sockets /\ tcp.pcb[q].arg # s
          BY <1>1, <3>7, <3>8, <4>3 DEF IInv, Fresh
        <5>2. Due(q)' <=> Due(q)
          BY <1>2, <4>1, <4>3 DEF Due
        <5>3. sockets[tcp.pcb[q].arg].sent + (IF Due(q) THEN 1 ELSE 0)
                <= sockets[tcp.pcb[q].arg].written
          BY <1>1, <3>8 DEF Counted
        <5> QED BY <1>1, <3>4, <5>1, <5>2, <5>3
      <4> QED BY <4>2, <4>3
    <3>9. \A r \in DOMAIN sockets' : sockets'[r].sent <= sockets'[r].written
      BY <3>3, <3>4, <3>5, <3>6 DEF Counted
    <3> QED BY <2>1, <3>8, <3>9 DEF Counted
  <2> QED BY <2>2, <2>3
<1> QED BY <1>2, <1>4, <1>5 DEF Sent

\* The other steps of tcp_input.
LEMMA InputCounted ==
  ASSUME IInv, Counted, ResetByPeer \/ FreeConnection \/ Recv \/ PeerClosed \/ InputEnds
  PROVE  Counted'
<1>1. PICK stage \in {"reset", "free", "recv", "closed", "output"} : At(stage)
  BY DEF ResetByPeer, FreeConnection, Recv, PeerClosed, InputEnds
<1>2. PICK p \in Pcb : p = frame.pcb
  BY <1>1, InputFacts
<1>3. frame.fn = "input" /\ frame.stage = stage /\ frame \in Frames /\ tcp \in Memory
  BY <1>1, InputFacts
<1>4. /\ \/ sockets' = sockets /\ frame' = NoFrame
         \/ sockets' = sockets /\ \E next \in {"closed", "output"} : Then(next)
         \/ CallThen("err", p, [frame EXCEPT !.stage = "free"])
         \/ CallThen("recv", p, [frame EXCEPT !.stage = "closed"])
         \/ CallThen("closed", p, [frame EXCEPT !.stage = "output"])
      /\ \/ tcp' = tcp
         \/ tcp' = Free(tcp, p)
         \/ \E x \in {"data", "fin"} : tcp' = [tcp EXCEPT !.pcb[p].unread = @ \ {x}]
         \/ tcp' = [tcp EXCEPT !.pcb[p].unread = @]
  BY <1>2 DEF ResetByPeer, FreeConnection, Recv, PeerClosed, InputEnds
<1>5. /\ frame'.fn # "input" \/ frame'.stage # "sent"
      /\ sockets' = sockets \/ \E s \in DOMAIN sockets : sockets' = Ended(s)
  <2>1. CASE sockets' = sockets /\ frame' = NoFrame
    BY <2>1, NoFrameType
  <2>2. CASE sockets' = sockets /\ \E next \in {"closed", "output"} : Then(next)
    BY <1>3, <2>2, FrameThen DEF Stages
  <2>3. ASSUME NEW cb \in {"err", "recv", "closed"}, NEW next \in {"free", "closed", "output"},
               CallThen(cb, p, [frame EXCEPT !.stage = next])
        PROVE  <1>5
    <3>1. cb \in Callbacks /\ next \in Stages
      BY DEF Callbacks, Stages
    <3>2. frame'.stage = next
      BY <1>2, <1>3, <2>3, <3>1, CalledFields
    <3> QED BY <2>3, <3>2, OtherCallback
  <2> QED BY <1>4, <2>1, <2>2, <2>3
<1>6. \A q \in Pcb : tcp'.pcb[q].arg = 0
                     \/ (/\ tcp'.pcb[q].arg = tcp.pcb[q].arg
                         /\ tcp'.pcb[q].flight \subseteq tcp.pcb[q].flight)
  <2>1. CASE tcp' = tcp
    BY <2>1
  <2>2. CASE tcp' = Free(tcp, p)
    BY <2>2, FreeFields
  <2>3. ASSUME NEW x, tcp' = [tcp EXCEPT !.pcb[p].unread = @ \ {x}]
        PROVE  <1>6
    <3>1. PICK c : Becomes(tcp, tcp', p, c) /\ SameKind(c, tcp.pcb[p]) /\ Reads(tcp.pcb[p], c, x)
      BY <2>3, ReadFields
    <3>2. \A q \in Pcb : tcp'.pcb[q] = IF q = p THEN c ELSE tcp.pcb[q]
      BY <3>1, PcbMoved
    <3> QED BY <3>1, <3>2 DEF Reads
  <2>4. CASE tcp' = [tcp EXCEPT !.pcb[p].unread = @]
    <3>1. [tcp EXCEPT !.pcb[p].unread = @] = tcp
      BY <1>3 DEF Memory, Connection
    <3> QED BY <2>4, <3>1
  <2> QED BY <1>4, <2>1, <2>2, <2>3, <2>4
<1> QED BY <1>5, <1>6, EndedQuiet, Quiet

(* Taking tcp_active_pcbs_changed back leaves the connections alone.         *)
LEMMA QuietMemory ==
  ASSUME NEW t \in Memory
  PROVE  [t EXCEPT !.changed = FALSE].pcb = t.pcb
  BY DEF Memory

\* tcp_alloc and tcp_slowtmr.
LEMMA OthersCounted ==
  ASSUME IInv, Counted,
         \/ \E c \in Conn : Syn(c)
         \/ KillOldest \/ NewConnection
         \/ SlowTimer \/ SlowSkips \/ SlowKeeps \/ SlowGoesOn
         \/ \E p \in Pcb : SlowRemoves(p)
         \/ \E gone \in SUBSET tcp.tw : Expire(gone)
  PROVE  Counted'
<1>1. tcp \in Memory /\ Sane(tcp) /\ frame \in Frames /\ Freed.arg = 0
  BY Typed, SaneLists DEF IInv, Freed
<1>2. CASE (\E c \in Conn : Syn(c)) \/ SlowTimer \/ SlowSkips \/ SlowKeeps \/ SlowGoesOn
  <2>1. frame'.fn # "input"
    <3>1. CASE \E c \in Conn : Syn(c)
      BY <3>1, NoFrameType DEF Syn, Frames
    <3>2. CASE SlowTimer
      BY <3>2, NoFrameType DEF SlowTimer, Frames
    <3>3. CASE SlowSkips \/ SlowKeeps
      BY <1>1, <3>3 DEF SlowSkips, SlowKeeps, Visiting, Running, Frames
    <3>4. CASE SlowGoesOn
      BY <1>1, <3>4 DEF SlowGoesOn, Running, Frames
    <3> QED BY <1>2, <3>1, <3>2, <3>3, <3>4
  <2>2. tcp' = tcp /\ sockets' = sockets
    BY <1>2 DEF Syn, SlowTimer, SlowSkips, SlowKeeps, SlowGoesOn
  <2> QED BY <2>1, <2>2, Quiet
<1>3. CASE KillOldest
  <2>1. PICK p \in IF tcp.tw # {} THEN tcp.tw ELSE ToSet(tcp.active) :
          tcp' = Free(tcp, p) /\ CallThen("err", p, frame)
    BY <1>3 DEF KillOldest
  <2>2. p \in Pcb /\ frame.fn = "alloc"
    BY <1>1, <1>3, <2>1 DEF Sane, KillOldest, Running
  <2>3. frame'.fn = "alloc"
    BY <1>1, <2>1, <2>2, Called DEF Callbacks
  <2> QED BY <2>1, <2>2, <2>3, FreeFields, OtherCallback, EndedQuiet, Quiet
<1>4. CASE NewConnection
  <2> DEFINE c == [Freed EXCEPT !.state = "SYN_RCVD", !.conn = frame.conn]
  <2>1. PICK p \in Unused :
          tcp' = [tcp EXCEPT !.pcb[p] = c, !.active = <<p>> \o @, !.changed = TRUE]
    BY <1>4 DEF NewConnection
  <2>2. c.arg = 0
    BY DEF Freed
  <2> HIDE DEF c
  <2>3. p \in Pcb
    BY DEF Unused
  <2>4. \A q \in Pcb : tcp'.pcb[q] = IF q = p THEN c ELSE tcp.pcb[q]
    BY <1>1, <2>1, <2>3 DEF Memory
  <2>5. sockets' = sockets /\ frame'.fn # "input"
    BY <1>4, NoFrameType DEF NewConnection
  <2> QED BY <2>2, <2>4, <2>5, Quiet
<1>5. ASSUME NEW p \in Pcb, SlowRemoves(p)
      PROVE  Counted'
  <2>1. PICK n \in Pcb \cup {Nil}, m \in SUBSET Pcb :
          CallThen("err", p, [frame EXCEPT !.pcb = n, !.stage = "free", !.stamped = m])
    <3>1. After(p) \in Pcb \cup {Nil}
      BY <1>1, AfterListed
    <3>2. frame.stamped \cup {p} \in SUBSET Pcb
      BY <1>1 DEF Frames
    <3> HIDE DEF After
    <3> QED BY <1>5, <3>1, <3>2 DEF SlowRemoves
  <2> DEFINE next == [frame EXCEPT !.pcb = n, !.stage = "free", !.stamped = m]
  <2>2. frame.fn = "slow"
    BY <1>5 DEF SlowRemoves, Visiting, Running
  <2>3. next \in Frames /\ next.fn = "slow"
    BY <1>1, <2>2 DEF Frames, Stages
  <2>4. CallThen("err", p, next)
    BY <2>1
  <2> HIDE DEF next
  <2>5. frame'.fn = "slow"
    BY <2>3, <2>4, Called DEF Callbacks
  <2>6. tcp'.pcb = Free(tcp, p).pcb
    <3>1. tcp' = [Free(tcp, p) EXCEPT !.changed = FALSE]
      BY <1>5 DEF SlowRemoves
    <3>2. Free(tcp, p) \in Memory
      BY <1>1, FreeKeepsSane
    <3>3. PICK t : t = Free(tcp, p)
      OBVIOUS
    <3>4. t \in Memory /\ tcp' = [t EXCEPT !.changed = FALSE]
      BY ONLY <3>1, <3>2, <3>3
    <3>5. [t EXCEPT !.changed = FALSE].pcb = t.pcb
      BY <3>4, QuietMemory
    <3> QED BY ONLY <3>3, <3>4, <3>5
  <2>7. /\ DOMAIN sockets' = DOMAIN sockets
        /\ \A s \in DOMAIN sockets : sockets'[s].sent = sockets[s].sent
                                     /\ sockets'[s].written = sockets[s].written
    <3>1. sockets' = sockets \/ \E s \in DOMAIN sockets : sockets' = Ended(s)
      BY <2>4, OtherCallback
    <3> QED BY <3>1, EndedQuiet
  <2>8. \A q \in Pcb : tcp'.pcb[q].arg = 0 \/ tcp'.pcb[q] = tcp.pcb[q]
    <3>1. \A q \in Pcb : Free(tcp, p).pcb[q].arg = 0 \/ Free(tcp, p).pcb[q] = tcp.pcb[q]
      BY FreeFields
    <3> QED BY ONLY <2>6, <3>1
  <2>9. frame'.fn # "input"
    BY <2>5
  <2> QED BY <2>7, <2>8, <2>9, Quiet
<1>6. ASSUME NEW gone \in SUBSET tcp.tw, Expire(gone)
      PROVE  Counted'
  <2>1. /\ tcp' = [tcp EXCEPT !.pcb = [p \in Pcb |-> IF p \in gone THEN Freed ELSE tcp.pcb[p]],
                              !.tw = @ \ gone]
        /\ frame' = NoFrame /\ sockets' = sockets
    BY <1>6 DEF Expire
  <2>2. \A q \in Pcb : tcp'.pcb[q] = IF q \in gone THEN Freed ELSE tcp.pcb[q]
    BY <1>1, <2>1 DEF Memory
  <2> QED BY <1>1, <2>1, <2>2, NoFrameType, Quiet
<1> QED BY <1>2, <1>3, <1>4, <1>5, <1>6

LEMMA StepCounted ==
  ASSUME Build = "debug", MayCall \subseteq Considerate, Stray = FALSE, IInv, Counted, [Next]_vars
  PROVE  Counted'
<1>1. CASE UNCHANGED vars
  BY <1>1 DEF vars, Counted, Due
<1>2. CASE Next
  <2>1. ASSUME NEW s \in DOMAIN sockets, Close(s) \/ Reset(s) \/ WriteData(s)
        PROVE  Counted'
    BY <2>1, CallsCounted, WriteCounted
  <2>2. CASE CallbackReturns
    BY <2>2, CallbackReturnsCounted
  <2>3. CASE \E p \in Pcb : \E s \in Arriving(p) : Arrive(p, s)
    BY <2>3, ArriveCounted
  <2>4. CASE InputStep
    <3>1. CASE Accept
      BY <3>1, AcceptCounted
    <3>2. CASE Handshake
      BY <3>2, HandshakeResult, ResultCounted DEF Handshake
    <3>3. CASE Receive
      <4>1. At("receive") /\ sockets' = sockets /\ (Then("sent") \/ Then("free"))
        BY <3>3 DEF Receive
      <4> QED BY <3>3, <4>1, ReceiveResult, ResultCounted
    <3>4. CASE Sent
      BY <3>4, SentCounted
    <3>5. CASE ResetByPeer \/ FreeConnection \/ Recv \/ PeerClosed \/ InputEnds
      BY <3>5, InputCounted
    <3> QED BY <2>4, <3>1, <3>2, <3>3, <3>4, <3>5 DEF InputStep
  <2>5. CASE \/ \E c \in Conn : Syn(c)
             \/ KillOldest \/ NewConnection
             \/ SlowTimer \/ SlowSkips \/ SlowKeeps \/ SlowGoesOn
             \/ \E p \in Pcb : SlowRemoves(p)
             \/ \E gone \in SUBSET tcp.tw : Expire(gone)
    BY <2>5, OthersCounted
  <2> QED BY <1>2, <2>1, <2>2, <2>3, <2>4, <2>5 DEF Next
<1> QED BY <1>1, <1>2

\* The delegate hears of the end of a socket once, and of received data no more
\* often than it has written any, when no segment comes out of place: a stray
\* SYN makes lwIP report the last ACK once more.
THEOREM ToldExactlyOnce ==
  ASSUME Build = "debug", MayCall \subseteq Considerate, Stray = FALSE
  PROVE  Spec => []ToldOnce
<1>1. Init => IInv /\ Counted
  BY InitIInv
<1>2. (IInv /\ Counted) /\ [Next]_vars => (IInv /\ Counted)'
  BY StepIInv, StepCounted
<1>3. IInv /\ Counted => ToldOnce
  BY DEF IInv, Told, Counted, ToldOnce
<1> QED BY <1>1, <1>2, <1>3, PTL DEF Spec
=============================================================================
