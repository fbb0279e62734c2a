------------------------------- MODULE Timers -------------------------------
(***************************************************************************)
(* The timers of the lwIP stack that tun2socks runs (NO_SYS = 1): the list *)
(* next_timeout, in which an entry holds the time after its predecessor,   *)
(* sys_check_timeouts, which runs what has expired, and the TCP timer,     *)
(* which keeps itself going as long as there are connections.              *)
(*                                                                         *)
(* The stack runs on one queue, so a call is one step; only a handler is   *)
(* open to what the application does from its callbacks, and lasts from    *)
(* RunHandler to HandlerReturns.  The clock stands still meanwhile.  It    *)
(* wraps at ClockSize, 2^32 in the code.                                   *)
(***************************************************************************)
EXTENDS Naturals, Sequences, FiniteSets

CONSTANTS
    Tcp,          \* tcpip_tcp_timer
    Periodic,     \* handlers that set themselves again, as ip_reass_timer
    OneShot,      \* handlers that do not
    Interval,     \* of Tcp and of each periodic handler
    Delays,       \* of one-shot timers
    ClockSize,
    MaxGap,       \* bound: time between two calls of sys_check_timeouts
    MaxTimeouts,  \* bound: entries of the list when a one-shot timer is set
    Sleeps,       \* whether the device may sleep
    Nil

Handler == {Tcp} \cup Periodic \cup OneShot

ASSUME ConstantsAssumption ==
    /\ Tcp \notin Periodic \cup OneShot
    /\ Periodic \cap OneShot = {} /\ IsFiniteSet(Periodic)
    /\ Interval \in [{Tcp} \cup Periodic -> Nat \ {0}]
    /\ Delays \subseteq Nat \ {0}
    /\ ClockSize \in Nat /\ MaxGap \in Nat /\ MaxGap < ClockSize
    /\ MaxTimeouts \in Nat
    /\ Sleeps \in BOOLEAN
    /\ Nil \notin Handler

VARIABLES
    now,     \* sys_now
    last,    \* timeouts_last_time
    list,    \* next_timeout
    active,  \* tcpip_tcp_timer_active
    pcbs,    \* whether tcp_active_pcbs or tcp_tw_pcbs has any
    diff,    \* of sys_check_timeouts while it loops, else Nil
    running  \* the handler that has been called, or Nil

vars == <<now, last, list, active, pcbs, diff, running>>

Timeout == [h : Handler, time : Nat]

TypeOK ==
    /\ now \in 0..ClockSize - 1
    /\ last \in 0..ClockSize - 1
    /\ list \in Seq(Timeout)
    /\ active \in BOOLEAN
    /\ pcbs \in BOOLEAN
    /\ diff \in Nat \cup {Nil}
    /\ running \in Handler \cup {Nil}

\* The application and its callbacks can call the stack.
Callable == diff = Nil \/ running # Nil
----------------------------------------------------------------------------
Due(l, i) ==
    LET sum[j \in 0..Len(l)] == IF j = 0 THEN 0 ELSE sum[j - 1] + l[j].time
    IN sum[i]

\* Where sys_timeout's loop stops: after i entries.
Place(l, ms) ==
    CHOOSE i \in 0..Len(l) :
      /\ Due(l, i) <= ms
      /\ i < Len(l) => Due(l, i + 1) > ms

\* A slip: the entry after the new one keeps its time.
SysTimeoutUnadjusted(l, ms, h) ==
    LET i == Place(l, ms)
    IN SubSeq(l, 1, i) \o <<[h |-> h, time |-> ms - Due(l, i)]>>
         \o SubSeq(l, i + 1, Len(l))

SysTimeout(l, ms, h) ==
    LET i == Place(l, ms)
        t == [h |-> h, time |-> ms - Due(l, i)]
        rest == [j \in 1..Len(l) - i |->
                   IF j = 1 THEN [l[i + 1] EXCEPT !.time = @ - t.time] ELSE l[i + j]]
    IN SubSeq(l, 1, i) \o <<t>> \o rest

SysUntimeout(l, h) ==
    LET i == CHOOSE i \in DOMAIN l : l[i].h = h /\ \A j \in 1..i - 1 : l[j].h # h
        rest == [j \in 1..Len(l) - i |->
                   IF j = 1 THEN [l[i + 1] EXCEPT !.time = @ + l[i].time] ELSE l[i + j]]
    IN SubSeq(l, 1, i - 1) \o rest

\* tcp_timer_needed, for the value pcbs has after TCP_REG.
TcpTimerNeeded ==
    IF ~ active /\ pcbs'
    THEN active' = TRUE /\ list' = SysTimeout(list, Interval[Tcp], Tcp)
    ELSE UNCHANGED <<active, list>>

----------------------------------------------------------------------------
\* The application, at any time or from a callback of a handler.
SetOneShot ==
    /\ Callable
    /\ Len(list) < MaxTimeouts
    /\ \E h \in OneShot, ms \in Delays : list' = SysTimeout(list, ms, h)
    /\ UNCHANGED <<now, last, active, pcbs, diff, running>>

CancelOneShot ==
    /\ Callable
    /\ \E h \in OneShot :
         /\ \E i \in DOMAIN list : list[i].h = h
         /\ list' = SysUntimeout(list, h)
    /\ UNCHANGED <<now, last, active, pcbs, diff, running>>

\* TCP_REG of a connection; TCP_RMV of the last one, which sets no timer.
RegisterPcb ==
    /\ Callable
    /\ pcbs' = TRUE
    /\ TcpTimerNeeded
    /\ UNCHANGED <<now, last, diff, running>>

RemoveLastPcb ==
    /\ Callable /\ pcbs
    /\ pcbs' = FALSE
    /\ UNCHANGED <<now, last, list, active, diff, running>>

\* A slip: the time of the check is kept although nothing has expired.
CheckAndStamp ==
    /\ diff = Nil
    /\ list # <<>>
    /\ diff' = (now + ClockSize - last) % ClockSize
    /\ last' = now
    /\ UNCHANGED <<now, list, active, pcbs, running>>

\* The handler of TSIPStack's timer source: sys_check_timeouts, up to its loop.
CheckTimeouts ==
    /\ diff = Nil
    /\ list # <<>>
    /\ diff' = (now + ClockSize - last) % ClockSize
    /\ UNCHANGED <<now, last, list, active, pcbs, running>>

Expired == list # <<>> /\ Head(list).time <= diff

\* An expired entry leaves the list and its handler is called.
RunHandler ==
    /\ diff # Nil /\ running = Nil
    /\ Expired
    /\ last' = now
    /\ diff' = diff - Head(list).time
    /\ running' = Head(list).h
    /\ list' = Tail(list)
    /\ UNCHANGED <<now, active, pcbs>>

\* A slip: the timer goes on, but nobody is told when it stops.
TcpTimerStays ==
    /\ running = Tcp
    /\ list' = IF pcbs THEN SysTimeout(list, Interval[Tcp], Tcp) ELSE list
    /\ UNCHANGED active

\* The end of tcpip_tcp_timer, once tcp_tmr is done.
TcpTimer ==
    /\ running = Tcp
    /\ IF pcbs
       THEN list' = SysTimeout(list, Interval[Tcp], Tcp) /\ UNCHANGED active
       ELSE active' = FALSE /\ UNCHANGED list

OtherTimer ==
    /\ running \in Periodic \cup OneShot
    /\ list' = IF running \in Periodic
               THEN SysTimeout(list, Interval[running], running) ELSE list
    /\ UNCHANGED active

HandlerReturns ==
    /\ TcpTimer \/ OtherTimer
    /\ running' = Nil
    /\ UNCHANGED <<now, last, pcbs, diff>>

EndCheck ==
    /\ diff # Nil /\ running = Nil
    /\ ~ Expired
    /\ diff' = Nil
    /\ UNCHANGED <<now, last, list, active, pcbs, running>>

\* sys_restart_timeouts, when the device has slept.
RestartTimeouts ==
    /\ Sleeps
    /\ diff = Nil
    /\ last' = now
    /\ UNCHANGED <<now, list, active, pcbs, diff, running>>

\* External: a millisecond of the clock.
Tick ==
    /\ diff = Nil
    /\ (now + ClockSize - last) % ClockSize < MaxGap \/ list = <<>>
    /\ now' = (now + 1) % ClockSize
    /\ UNCHANGED <<last, list, active, pcbs, diff, running>>
----------------------------------------------------------------------------
\* sys_timeouts_init sets the periodic timers of what is compiled in, which
\* wait in the order of their intervals.
Init ==
    /\ now \in 0..ClockSize - 1 /\ last = now
    /\ \E hs \in [1..Cardinality(Periodic) -> Periodic] :
         /\ \A i, j \in DOMAIN hs : i < j => hs[i] # hs[j] /\ Interval[hs[i]] <= Interval[hs[j]]
         /\ list = [i \in DOMAIN hs |->
                      [h |-> hs[i], time |-> IF i = 1 THEN Interval[hs[i]]
                                             ELSE Interval[hs[i]] - Interval[hs[i - 1]]]]
    /\ active = FALSE /\ pcbs = FALSE
    /\ diff = Nil /\ running = Nil

Next ==
    \/ SetOneShot \/ CancelOneShot \/ RegisterPcb \/ RemoveLastPcb
    \/ CheckTimeouts \/ RunHandler \/ HandlerReturns \/ EndCheck
    \/ RestartTimeouts \/ Tick

Spec == Init /\ [][Next]_vars

\* The clock runs and what has begun goes on.  Nothing is assumed of the timer
\* source: TSIPStack asks for a first firing at distantFuture, which is never.
Fairness == SF_vars(Tick) /\ WF_vars(EndCheck) /\ WF_vars(RunHandler) /\ WF_vars(HandlerReturns)

FairSpec == Spec /\ Fairness
----------------------------------------------------------------------------
\* However timers are set, cancelled and run in between, also from handlers
\* and across a wrap of the clock, the list of differences is a list of
\* alarms: each keeps its time, and they go off in order.
AlarmList == [i \in DOMAIN list |-> [h |-> list[i].h, due |-> Due(list, i)]]

Abs == INSTANCE Alarms WITH alarms <- AlarmList

ImplementsAlarms == Abs!Spec

\* There is one TCP timer when tcpip_tcp_timer_active says so, in the list or
\* in its handler, and none otherwise; while there are connections there is
\* one.  Connections come and go inside the handler too, when the flag still
\* says that the timer is on (timers.c:83-91, 104).
OneTcpTimer ==
    /\ pcbs => active
    /\ Cardinality({i \in DOMAIN list : list[i].h = Tcp}) + (IF running = Tcp THEN 1 ELSE 0)
         = IF active THEN 1 ELSE 0

\* If the timer source keeps firing, however rarely and irregularly, and the
\* device does not fall asleep again and again, then the TCP timer that is on
\* ticks and the periodic ones go on for ever, whatever else is set and
\* cancelled: "There is a timer running internally" (TSIPStack.swift:31).
TimersGoOff ==
    \/ <>[][~ CheckTimeouts]_vars
    \/ []<><<RestartTimeouts>>_vars
    \/ /\ active ~> running = Tcp
       /\ \A h \in Periodic : []<>(running = h)
=============================================================================
