-------------------------- MODULE ExtensionProofs --------------------------
(***************************************************************************)
(* The parts of the extension's process that stand beside the TCP of lwIP: *)
(* PacketTunnel, for any number of networks, configurations and changes of *)
(* the path, the UDP test pair, for any number of clients, and the timers, *)
(* for any handlers, intervals and delays and lists of any length.         *)
(***************************************************************************)
EXTENDS PacketTunnel, UdpEcho, Timers, SequenceLemmas, FiniteSetTheorems

\* started, the observer and the listener come and go together, and they are
\* there exactly while the system holds the tunnel for up.
Together ==
    /\ started <=> tunnel = "up"
    /\ listening = started /\ observing = started

\* Restarts and connections belong to a tunnel that has started once, so the
\* first settings to be applied are those of the start.
AfterStart ==
    /\ (timers > 0 \/ calls["restart"] > 0) => started
    /\ connections # {} => started
    /\ calls["start"] = IF tunnel = "starting" THEN 1 ELSE 0

\* A running tunnel has a configuration and rules made from one.
Configured == tunnel # "down" => saved \in Conf /\ rules \in Conf

TunnelInv == TunnelTypeOK /\ Together /\ AfterStart /\ Configured /\ NoCrash /\ OneConfiguration

\* No call is under way.
LEMMA NoCalls ==
    ASSUME NEW f, f = [c \in Call |-> 0]
    PROVE  f \in [Call -> Nat] /\ f["start"] = 0 /\ f["restart"] = 0
BY DEF Call

\* What an end of the process leaves.
LEMMA ExitKeeps ==
    ASSUME TunnelInv, NEW how \in {"success", "failure", "error", "taken"}, Exit(how)
    PROVE  TunnelInv'
<1> USE TunnelConstants
<1>1. TunnelTypeOK'
  BY DEF TunnelInv, TunnelTypeOK, Exit, Path, Call, Connection
<1>2. (Together /\ AfterStart)'
  <2>1. calls'["start"] = 0 /\ calls'["restart"] = 0
    BY NoCalls DEF Exit
  <2>2. Together'
    BY DEF Exit, Together
  <2>3. AfterStart'
    BY <2>1 DEF Exit, AfterStart
  <2> QED
    BY <2>2, <2>3
<1>3. (Configured /\ NoCrash /\ OneConfiguration)'
  BY DEF Exit, Configured, NoCrash, OneConfiguration
<1> QED
  BY <1>1, <1>2, <1>3 DEF TunnelInv

\* A call more or a call less changes no other count.
LEMMA OneCall ==
    ASSUME TunnelTypeOK, NEW who \in Call, NEW n \in Nat,
           calls' = [calls EXCEPT ![who] = n]
    PROVE  /\ calls' \in [Call -> Nat]
           /\ calls'[who] = n
           /\ \A other \in Call \ {who} : calls'[other] = calls[other]
BY DEF TunnelTypeOK, Call

\* What observeValue() leaves has the type of a path and of a count.
LEMMA ObserveType ==
    ASSUME TunnelTypeOK, NEW path \in Path, Observed(path)
    PROVE  lastPath' \in Path /\ timers' \in Nat
BY DEF TunnelTypeOK, Observed, Observe, Path

LEMMA Initially == TunnelInit => TunnelInv
<1> USE TunnelConstants
<1> SUFFICES ASSUME TunnelInit PROVE TunnelInv
  OBVIOUS
<1>1. TunnelTypeOK
  <2>1. calls \in [Call -> Nat] /\ timers \in Nat /\ changes \in 0..MaxChanges
    BY NoCalls DEF TunnelInit
  <2> QED
    BY <2>1 DEF TunnelInit, TunnelTypeOK, Path
<1>2. Together /\ AfterStart
  <2>1. calls["start"] = 0 /\ calls["restart"] = 0
    BY NoCalls DEF TunnelInit
  <2>2. Together
    BY DEF TunnelInit, Together
  <2>3. AfterStart
    BY <2>1 DEF TunnelInit, AfterStart
  <2> QED
    BY <2>2, <2>3
<1>3. Configured /\ NoCrash /\ OneConfiguration
  BY DEF TunnelInit, Configured, NoCrash, OneConfiguration
<1> QED
  BY <1>1, <1>2, <1>3 DEF TunnelInv

\* Settings that are applied: the proxy listens, the first time because it
\* was started, later because it was started anew.
LEMMA AppliedKeeps ==
    ASSUME TunnelInv, NEW who \in Call, SettingsApplied(who)
    PROVE  TunnelInv'
<1> USE TunnelConstants
<1>1. calls[who] \in Nat /\ calls[who] > 0 /\ calls[who] - 1 \in Nat
  BY DEF TunnelInv, TunnelTypeOK, SettingsApplied, Call
<1>2. /\ calls' \in [Call -> Nat]
      /\ calls'[who] = calls[who] - 1
      /\ \A other \in Call \ {who} : calls'[other] = calls[other]
  BY <1>1, OneCall DEF TunnelInv, SettingsApplied
<1>3. CASE started
  <2>1. who = "restart" /\ tunnel = "up"
    BY <1>1, <1>3 DEF TunnelInv, Together, AfterStart, Call
  <2>2. StopAndStart /\ tunnel' = tunnel
    BY <1>3, <2>1 DEF SettingsApplied
  <2>3. TunnelTypeOK'
    BY <1>2, <2>2 DEF TunnelInv, TunnelTypeOK, SettingsApplied, StopAndStart
  <2>4. (Together /\ AfterStart)'
    BY <1>2, <1>3, <2>1, <2>2 DEF TunnelInv, Together, AfterStart, SettingsApplied, StopAndStart, Call
  <2>5. (Configured /\ NoCrash /\ OneConfiguration)'
    BY <2>2 DEF TunnelInv, Configured, NoCrash, OneConfiguration, SettingsApplied, StopAndStart
  <2> QED
    BY <2>3, <2>4, <2>5 DEF TunnelInv
<1>4. CASE ~ started
  <2>1. who = "start" /\ calls["restart"] = 0 /\ tunnel = "starting" /\ connections = {}
    BY <1>1, <1>4 DEF TunnelInv, TunnelTypeOK, AfterStart, Call
  <2>2. FirstStart /\ tunnel' = "up"
    BY <1>4, <2>1 DEF SettingsApplied
  <2>3. lastPath' \in Path /\ timers' \in Nat
    BY <2>2, ObserveType DEF TunnelInv, TunnelTypeOK, FirstStart
  <2>4. TunnelTypeOK'
    BY <1>2, <2>2, <2>3 DEF TunnelInv, TunnelTypeOK, SettingsApplied, FirstStart
  <2>5. calls'["start"] = 0
    BY <1>2, <2>1 DEF TunnelInv, AfterStart
  <2>6. (Together /\ AfterStart)'
    BY <2>2, <2>5 DEF Together, AfterStart, FirstStart
  <2>7. (Configured /\ NoCrash /\ OneConfiguration)'
    BY <2>1, <2>2 DEF TunnelInv, Configured, NoCrash, OneConfiguration, SettingsApplied, FirstStart
  <2> QED
    BY <2>4, <2>6, <2>7 DEF TunnelInv
<1> QED
  BY <1>3, <1>4

LEMMA StepKeeps == TunnelInv /\ [TunnelNext]_tunnelVars => TunnelInv'
<1> USE TunnelConstants
<1> SUFFICES ASSUME TunnelInv, [TunnelNext]_tunnelVars PROVE TunnelInv'
  OBVIOUS
<1>1. CASE StartTunnel
  <2>1. /\ calls' \in [Call -> Nat]
        /\ calls'["start"] = 1
        /\ calls'["restart"] = calls["restart"]
    BY <1>1, OneCall DEF TunnelInv, TunnelTypeOK, AfterStart, StartTunnel, ReadConfAndApply, Call
  <2>2. connections = {} /\ ~ started /\ calls["restart"] = 0
    BY <1>1 DEF TunnelInv, TunnelTypeOK, Together, AfterStart, StartTunnel, Call
  <2>3. TunnelTypeOK'
    BY <1>1, <2>1 DEF TunnelInv, TunnelTypeOK, StartTunnel, ReadConfAndApply, provider
  <2>4. (Together /\ AfterStart)'
    BY <1>1, <2>1, <2>2 DEF TunnelInv, Together, AfterStart, StartTunnel, provider
  <2>5. (Configured /\ NoCrash /\ OneConfiguration)'
    BY <1>1, <2>2 DEF TunnelInv, TunnelTypeOK, Configured, NoCrash, OneConfiguration,
       StartTunnel, ReadConfAndApply, provider
  <2> QED
    BY <2>3, <2>4, <2>5 DEF TunnelInv
<1>2. CASE StartWithoutConf
  BY <1>2, ExitKeeps DEF StartWithoutConf
<1>3. CASE StopTunnel
  BY <1>3, ExitKeeps DEF StopTunnel
<1>4. CASE StartFailed
  BY <1>4, ExitKeeps DEF StartFailed
<1>5. CASE Restart
  <2>1. calls["restart"] \in Nat /\ calls["restart"] + 1 \in Nat
    BY DEF TunnelInv, TunnelTypeOK, Call
  <2>2. /\ calls' \in [Call -> Nat]
        /\ calls'["restart"] = calls["restart"] + 1
        /\ calls'["start"] = calls["start"]
    BY <1>5, <2>1, OneCall DEF TunnelInv, Restart, ReadConfAndApply, Call
  <2>3. started /\ tunnel = "up" /\ saved \in Conf
    BY <1>5 DEF TunnelInv, Together, AfterStart, Configured, Restart
  <2>4. TunnelTypeOK'
    BY <1>5, <2>2 DEF TunnelInv, TunnelTypeOK, Restart, ReadConfAndApply
  <2>5. (Together /\ AfterStart)'
    BY <1>5, <2>2, <2>3 DEF TunnelInv, Together, AfterStart, Restart
  <2>6. (Configured /\ NoCrash /\ OneConfiguration)'
    BY <1>5, <2>1, <2>2, <2>3 DEF TunnelInv, Configured, NoCrash, OneConfiguration,
       Restart, ReadConfAndApply
  <2> QED
    BY <2>4, <2>5, <2>6 DEF TunnelInv
<1>6. CASE RestartFailed
  <2>1. calls["restart"] \in Nat /\ calls["restart"] > 0 /\ calls["restart"] - 1 \in Nat
    BY <1>6 DEF TunnelInv, TunnelTypeOK, RestartFailed, Call
  <2>2. /\ calls' \in [Call -> Nat]
        /\ calls'["start"] = calls["start"]
    BY <1>6, <2>1, OneCall DEF TunnelInv, RestartFailed, Call
  <2>3. TunnelTypeOK'
    BY <1>6, <2>2 DEF TunnelInv, TunnelTypeOK, RestartFailed, provider
  <2>4. (Together /\ AfterStart)'
    BY <1>6, <2>1, <2>2 DEF TunnelInv, Together, AfterStart, RestartFailed, provider
  <2>5. (Configured /\ NoCrash /\ OneConfiguration)'
    BY <1>6 DEF TunnelInv, Configured, NoCrash, OneConfiguration, RestartFailed
  <2> QED
    BY <2>3, <2>4, <2>5 DEF TunnelInv
<1>7. ASSUME NEW who \in Call, SettingsApplied(who)
      PROVE  TunnelInv'
  BY <1>7, AppliedKeeps
<1>8. ASSUME NEW who \in Call, ProxyCannotStart(who)
      PROVE  TunnelInv'
  <2>1. Exit("taken")
    BY <1>8 DEF TunnelInv, Together, ProxyCannotStart
  <2> QED
    BY <2>1, ExitKeeps
<1>9. ASSUME NEW path \in Network \cup {NoWay}, PathChanges(path)
      PROVE  TunnelInv'
  <2>1. lastPath' \in Path /\ timers' \in Nat
    BY <1>9, ObserveType DEF TunnelInv, TunnelTypeOK, PathChanges, Path
  <2>2. started \/ (lastPath' = lastPath /\ timers' = timers)
    BY <1>9 DEF TunnelInv, Together, PathChanges
  <2>3. TunnelTypeOK'
    BY <1>9, <2>1 DEF TunnelInv, TunnelTypeOK, PathChanges, Path
  <2>4. (Together /\ AfterStart)'
    BY <1>9, <2>2 DEF TunnelInv, Together, AfterStart, PathChanges
  <2>5. (Configured /\ NoCrash /\ OneConfiguration)'
    BY <1>9 DEF TunnelInv, Configured, NoCrash, OneConfiguration, PathChanges
  <2> QED
    BY <2>3, <2>4, <2>5 DEF TunnelInv
<1>10. ASSUME NEW conf \in Conf, Saved(conf)
       PROVE  TunnelInv'
  BY <1>10 DEF TunnelInv, TunnelTypeOK, Together, AfterStart, Configured, NoCrash, OneConfiguration,
     Saved, provider
<1>11. CASE Open
  <2>1. rules \in Conf /\ defaultPath \in Network /\ started
    BY <1>11 DEF TunnelInv, Configured, Together, Open
  <2>2. TunnelTypeOK'
    BY <1>11, <2>1 DEF TunnelInv, TunnelTypeOK, Connection, Open
  <2>3. (Together /\ AfterStart)'
    BY <1>11, <2>1 DEF TunnelInv, Together, AfterStart, Open
  <2>4. (Configured /\ NoCrash /\ OneConfiguration)'
    BY <1>11 DEF TunnelInv, Configured, NoCrash, OneConfiguration, Open
  <2> QED
    BY <2>2, <2>3, <2>4 DEF TunnelInv
<1>12. ASSUME NEW c \in connections, Close(c)
       PROVE  TunnelInv'
  BY <1>12 DEF TunnelInv, TunnelTypeOK, Together, AfterStart, Configured, NoCrash, OneConfiguration, Close
<1>13. CASE UNCHANGED tunnelVars
  BY <1>13 DEF TunnelInv, TunnelTypeOK, Together, AfterStart, Configured, NoCrash, OneConfiguration,
     tunnelVars, provider
<1> QED
  BY <1>1, <1>2, <1>3, <1>4, <1>5, <1>6, <1>7, <1>8, <1>9, <1>10, <1>11, <1>12, <1>13 DEF TunnelNext

\* The inductive invariant holds in every reachable state.
THEOREM Invariant == TunnelSpec => []TunnelInv
BY Initially, StepKeeps, PTL DEF TunnelSpec

\* The variables keep their types, whatever fails and however often the
\* network changes.
THEOREM TypeCorrect == TunnelSpec => []TunnelTypeOK
<1>1. TunnelInv => TunnelTypeOK
  BY DEF TunnelInv
<1> QED
  BY <1>1, Invariant, PTL

\* While the tunnel is up somebody listens on the proxy's port.
THEOREM AlwaysServes == TunnelSpec => []ProxyServes
<1>1. TunnelInv => ProxyServes
  BY DEF TunnelInv, Together, ProxyServes
<1> QED
  BY <1>1, Invariant, PTL

\* The provider never starts a second proxy beside its own.
THEOREM NeverCrashes == TunnelSpec => []NoCrash
<1>1. TunnelInv => NoCrash
  BY DEF TunnelInv
<1> QED
  BY <1>1, Invariant, PTL

\* No connection outlives the rules it was made under by more than the restart
\* that replaced them, or by the first one whose settings apply.
THEOREM OneServer == TunnelSpec => []OneConfiguration
<1>1. TunnelInv => OneConfiguration
  BY DEF TunnelInv
<1> QED
  BY <1>1, Invariant, PTL
----------------------------------------------------------------------------
(***************************************************************************)
(* The UDP test pair that lies beside the provider in the same target:     *)
(* client and server stay in step for any number of clients, whatever is   *)
(* lost and whenever the server fails.                                     *)
(***************************************************************************)
EchoInv == EchoTypeOK /\ InStep

LEMMA EchoInitially == EchoInit => EchoInv
BY EchoConstants DEF EchoInit, EchoInv, EchoTypeOK, InStep, UnderWay, Datagram

\* A new question is the only datagram of a client that was not waiting; an
\* answer replaces the question it answers; all else only takes away.
LEMMA EchoStep == EchoInv /\ [EchoNext]_echo => EchoInv'
<1> SUFFICES ASSUME EchoInv, [EchoNext]_echo PROVE EchoInv'
  OBVIOUS
<1> USE EchoConstants DEF EchoInv, EchoTypeOK, InStep, UnderWay, Datagram
<1>1. ASSUME NEW c \in Client, Ask(c) PROVE EchoInv'
  BY <1>1 DEF Ask
<1>2. ASSUME NEW c \in Client, TakeAnswer(c) PROVE EchoInv'
  <2>. PICK d \in net : d.client = c /\ net' = net \ {d}
    BY <1>2 DEF TakeAnswer
  <2>1. EchoTypeOK'
    <3>. (count[c] + 1) % Numbers \in 0..(Numbers - 1)
      OBVIOUS
    <3>. QED  BY <1>2 DEF TakeAnswer
  <2>2. \A e \in UnderWay' : e \in UnderWay /\ e.client # c
    BY <1>2 DEF TakeAnswer
  <2>. QED  BY <1>2, <2>1, <2>2 DEF TakeAnswer
<1>3. CASE ServerStart
  BY <1>3 DEF ServerStart
<1>4. CASE Receive
  BY <1>4 DEF Receive
<1>5. CASE ReceiveFails
  BY <1>5 DEF ReceiveFails
<1>6. CASE Reply
  <2>. DEFINE answer == [serving EXCEPT !.kind = "answer"]
  <2>1. /\ serving \in Datagram /\ answer \in Datagram
        /\ answer.client = serving.client /\ answer.n = serving.n
    BY <1>6 DEF Reply
  <2>2. UnderWay' = (UnderWay \ {serving}) \cup {answer}
    BY <1>6 DEF Reply
  <2>. QED  BY <1>6, <2>1, <2>2 DEF Reply
<1>7. CASE Lose
  BY <1>7 DEF Lose
<1>8. CASE UNCHANGED echo
  BY <1>8 DEF echo
<1>. QED  BY <1>1, <1>2, <1>3, <1>4, <1>5, <1>6, <1>7, <1>8 DEF EchoNext

\* In every reachable state what is under way for a client is one datagram,
\* with the number the client waits at (udp_client.c:34-46, udp_server.c:33-51).
THEOREM StaysInStep == EchoSpec => [](EchoTypeOK /\ InStep)
<1>1. EchoInv => EchoTypeOK /\ InStep
  BY DEF EchoInv
<1>. QED  BY EchoInitially, EchoStep, <1>1, PTL DEF EchoSpec
----------------------------------------------------------------------------
(***************************************************************************)
(* The timers: the list of differences implements a set of alarms, and     *)
(* there is one TCP timer.                                                 *)
(*                                                                         *)
(* What is due when is a sum over the list, which is defined by recursion. *)
(* That the sums exist, and what follows from an equation for each entry,  *)
(* is shown by taking the least number for which it would fail.            *)
(***************************************************************************)
\* The function that sums up the list, up to entry n.
Sums(l, n) == [0..n -> Nat]
IsSum(l, n, s) ==
    /\ s \in Sums(l, n)
    /\ s[0] = 0
    /\ \A i \in 1..n : s[i] = s[i - 1] + l[i].time

LEMMA TimeIsNat ==
  ASSUME NEW l \in Seq(Timeout), NEW i \in 1..Len(l)
  PROVE  l[i] \in Timeout /\ l[i].h \in Handler /\ l[i].time \in Nat
<1>1. l[i] \in Timeout
  OBVIOUS
<1> QED BY <1>1 DEF Timeout

LEMMA SumsExist ==
  ASSUME NEW l \in Seq(Timeout)
  PROVE  \E s : IsSum(l, Len(l), s)
<1> DEFINE T == {n \in 0..Len(l) : \E s : IsSum(l, n, s)}
<1>1. 0 \in T
  <2>1. IsSum(l, 0, [j \in 0..0 |-> 0])
    BY DEF IsSum, Sums
  <2> QED BY <2>1
<1>2. ASSUME NEW n \in 0..Len(l), n < Len(l), n \in T PROVE n + 1 \in T
  <2>1. PICK s : IsSum(l, n, s)
    BY <1>2
  <2> DEFINE t == [j \in 0..n + 1 |-> IF j = n + 1 THEN s[n] + l[n + 1].time ELSE s[j]]
  <2>2. n + 1 \in 1..Len(l) /\ l[n + 1].time \in Nat
    <3>1. n + 1 \in 1..Len(l)
      BY <1>2
    <3> QED BY <3>1, TimeIsNat
  <2>3. \A j \in 0..n : s[j] \in Nat
    BY <2>1 DEF IsSum, Sums
  <2>4. t \in Sums(l, n + 1)
    BY <2>2, <2>3 DEF Sums
  <2>5. t[0] = 0
    BY <2>1 DEF IsSum
  <2>6. ASSUME NEW i \in 1..n + 1 PROVE t[i] = t[i - 1] + l[i].time
    BY <2>1 DEF IsSum
  <2>7. IsSum(l, n + 1, t)
    BY <2>4, <2>5, <2>6 DEF IsSum
  <2> QED BY <2>2, <2>7
<1>3. Len(l) \in Nat
  OBVIOUS
<1> HIDE DEF T
<1>4. 0..Len(l) \subseteq T
  BY <1>1, <1>2, <1>3, UpTo
<1>5. Len(l) \in T
  BY <1>3, <1>4
<1> QED BY <1>5 DEF T

\* When what is due is defined by recursion it satisfies its equations.
LEMMA DueEquations ==
  ASSUME NEW l \in Seq(Timeout)
  PROVE  /\ \A i \in 0..Len(l) : Due(l, i) \in Nat
         /\ Due(l, 0) = 0
         /\ \A i \in 1..Len(l) : Due(l, i) = Due(l, i - 1) + l[i].time
<1> DEFINE IsRec(s) == s = [j \in 0..Len(l) |-> IF j = 0 THEN 0 ELSE s[j - 1] + l[j].time]
           sum == CHOOSE s : IsRec(s)
<1>0. Len(l) \in Nat
  OBVIOUS
<1>1. PICK r : IsSum(l, Len(l), r)
  BY SumsExist
<1>2. IsRec(r)
  BY <1>1, <1>0 DEF IsSum, Sums
<1> HIDE DEF IsRec
<1>3. IsRec(sum)
  BY <1>2
<1> HIDE DEF sum
<1>4. \A i \in 0..Len(l) : Due(l, i) = sum[i]
  BY DEF Due, sum, IsRec
<1>5. /\ sum[0] = 0
      /\ \A i \in 1..Len(l) : sum[i] = sum[i - 1] + l[i].time
  BY <1>3, <1>0 DEF IsRec
<1>6. \A i \in 0..Len(l) : sum[i] \in Nat
  <2> DEFINE T == {i \in 0..Len(l) : sum[i] \in Nat}
  <2>1. 0 \in T
    BY <1>0, <1>5
  <2>2. \A i \in 0..Len(l) : i < Len(l) /\ i \in T => i + 1 \in T
    <3> SUFFICES ASSUME NEW i \in 0..Len(l), i < Len(l), sum[i] \in Nat
                 PROVE  sum[i + 1] \in Nat
      BY <1>0
    <3>1. i + 1 \in 1..Len(l) /\ (i + 1) - 1 = i
      BY <1>0
    <3>2. l[i + 1].time \in Nat
      BY <3>1, TimeIsNat
    <3> QED BY <1>5, <3>1, <3>2
  <2> HIDE DEF T
  <2>3. 0..Len(l) \subseteq T
    BY <1>0, <2>1, <2>2, UpTo
  <2> QED BY <2>3 DEF T
<1>7. \A i \in 1..Len(l) : i \in 0..Len(l) /\ i - 1 \in 0..Len(l)
  BY <1>0
<1>8. 0 \in 0..Len(l)
  BY <1>0
<1>9. \A i \in 0..Len(l) : Due(l, i) \in Nat
  BY <1>4, <1>6
<1>10. Due(l, 0) = 0
  BY <1>4, <1>5, <1>8
<1>11. \A i \in 1..Len(l) : Due(l, i) = Due(l, i - 1) + l[i].time
  BY <1>4, <1>5, <1>7
<1> QED BY <1>9, <1>10, <1>11

\* Entries that wait as long are as far apart in one list as in another.
LEMMA SameDifferences ==
  ASSUME NEW l \in Seq(Timeout), NEW n \in Seq(Timeout),
         NEW i \in 0..Len(l), NEW k \in 0..Len(n), NEW m \in Nat,
         i + m <= Len(l), k + m <= Len(n),
         \A j \in 1..m : n[k + j].time = l[i + j].time
  PROVE  \A j \in 0..m : Due(n, k + j) + Due(l, i) = Due(l, i + j) + Due(n, k)
<1> DEFINE T == {j \in 0..m : Due(n, k + j) + Due(l, i) = Due(l, i + j) + Due(n, k)}
<1>1. Due(l, i) \in Nat /\ Due(n, k) \in Nat /\ i \in Nat /\ k \in Nat
  BY DueEquations
<1>2. 0 \in T
  BY <1>1
<1>3. ASSUME NEW j \in 0..m, j < m, j \in T PROVE j + 1 \in T
  <2>1. /\ j + 1 \in 1..m /\ i + (j + 1) \in 1..Len(l) /\ k + (j + 1) \in 1..Len(n)
        /\ (i + (j + 1)) - 1 = i + j /\ (k + (j + 1)) - 1 = k + j
        /\ i + j \in 0..Len(l) /\ k + j \in 0..Len(n)
    BY <1>1, <1>3
  <2>2. Due(l, i + (j + 1)) = Due(l, i + j) + l[i + (j + 1)].time
    BY <2>1, DueEquations
  <2>3. Due(n, k + (j + 1)) = Due(n, k + j) + n[k + (j + 1)].time
    BY <2>1, DueEquations
  <2>4. n[k + (j + 1)].time = l[i + (j + 1)].time /\ l[i + (j + 1)].time \in Nat
    BY <2>1, TimeIsNat
  <2>5. Due(l, i + j) \in Nat /\ Due(n, k + j) \in Nat
    BY <2>1, DueEquations
  <2>6. Due(n, k + j) + Due(l, i) = Due(l, i + j) + Due(n, k)
    BY <1>3
  <2>7. Due(n, k + (j + 1)) + Due(l, i) = Due(l, i + (j + 1)) + Due(n, k)
    <3>1. (Due(n, k + j) + l[i + (j + 1)].time) + Due(l, i)
            = (Due(l, i + j) + l[i + (j + 1)].time) + Due(n, k)
      <4> DEFINE a == Due(n, k + j)
                 b == Due(l, i)
                 c == Due(l, i + j)
                 d == Due(n, k)
                 t == l[i + (j + 1)].time
      <4>1. a \in Nat /\ b \in Nat /\ c \in Nat /\ d \in Nat /\ t \in Nat /\ a + b = c + d
        BY <1>1, <2>4, <2>5, <2>6
      <4> HIDE DEF a, b, c, d, t
      <4>2. (a + t) + b = (c + t) + d
        BY <4>1
      <4> QED BY <4>2 DEF a, b, c, d, t
    <3> QED BY <2>2, <2>3, <2>4, <3>1, Zenon
  <2> QED BY <2>1, <2>7
<1> HIDE DEF T
<1>4. 0..m \subseteq T
  BY <1>2, <1>3, UpTo
<1> QED BY <1>4 DEF T

\* A later entry is due no earlier.
LEMMA DueGrows ==
  ASSUME NEW l \in Seq(Timeout), NEW i \in 0..Len(l), NEW j \in 0..Len(l), i <= j
  PROVE  Due(l, i) <= Due(l, j)
<1> DEFINE T == {d \in 0..Len(l) - i : Due(l, i) <= Due(l, i + d)}
<1>1. Due(l, i) \in Nat /\ i \in Nat /\ Len(l) - i \in Nat /\ j - i \in 0..Len(l) - i
  BY DueEquations
<1>2. 0 \in T
  BY <1>1
<1>3. ASSUME NEW d \in 0..Len(l) - i, d < Len(l) - i, d \in T PROVE d + 1 \in T
  <2>1. /\ i + (d + 1) \in 1..Len(l) /\ (i + (d + 1)) - 1 = i + d /\ i + d \in 0..Len(l)
        /\ d + 1 \in 0..Len(l) - i
    BY <1>1, <1>3
  <2>2. Due(l, i + (d + 1)) = Due(l, i + d) + l[i + (d + 1)].time
    BY <2>1, DueEquations
  <2>3. l[i + (d + 1)].time \in Nat /\ Due(l, i + d) \in Nat
    BY <2>1, DueEquations, TimeIsNat
  <2>4. Due(l, i) <= Due(l, i + d)
    BY <1>3
  <2>5. Due(l, i) <= Due(l, i + (d + 1))
    <3>1. \A a, b, t \in Nat : a <= b => a <= b + t
      OBVIOUS
    <3> QED BY <1>1, <2>2, <2>3, <2>4, <3>1, Zenon
  <2> QED BY <2>1, <2>5
<1> HIDE DEF T
<1>4. 0..Len(l) - i \subseteq T
  BY <1>1, <1>2, <1>3, UpTo
<1>5. j - i \in T /\ i + (j - i) = j
  BY <1>1, <1>4
<1> QED BY <1>5 DEF T

\* sys_timeout's loop stops.
LEMMA PlaceExists ==
  ASSUME NEW l \in Seq(Timeout), NEW ms \in Nat
  PROVE  /\ Place(l, ms) \in 0..Len(l)
         /\ Due(l, Place(l, ms)) <= ms
         /\ Place(l, ms) < Len(l) => Due(l, Place(l, ms) + 1) > ms
<1> DEFINE Stop(i) == Due(l, i) <= ms /\ (i < Len(l) => Due(l, i + 1) > ms)
<1>1. \E i \in 0..Len(l) : Stop(i)
  <2> SUFFICES ASSUME \A i \in 0..Len(l) : ~ Stop(i) PROVE FALSE
    OBVIOUS
  <2> DEFINE T == {i \in 0..Len(l) : Due(l, i) <= ms}
  <2>1. 0 \in T /\ Len(l) \in Nat
    BY DueEquations
  <2>2. ASSUME NEW i \in 0..Len(l), i < Len(l), i \in T PROVE i + 1 \in T
    <3>1. i + 1 \in 0..Len(l)
      BY <2>2
    <3>2. ~ (Due(l, i + 1) > ms)
      BY <2>2
    <3>3. Due(l, i + 1) \in Nat
      BY <3>1, DueEquations
    <3> QED BY <3>1, <3>2, <3>3
  <2> HIDE DEF T
  <2>3. 0..Len(l) \subseteq T
    BY <2>1, <2>2, UpTo
  <2>4. Len(l) \in T /\ ~ (Len(l) < Len(l)) /\ Len(l) \in 0..Len(l)
    BY <2>1, <2>3
  <2> QED BY <2>4 DEF T
<1> QED BY <1>1 DEF Place

\* sys_timeout puts its entry behind those that are due no later, gives it the
\* time that is left, and takes that from its successor's: nothing else is due
\* at another time than before.
Behind(l, ms, i) ==
    /\ i \in 0..Len(l)
    /\ Due(l, i) <= ms
    /\ i < Len(l) => Due(l, i + 1) > ms

LEMMA SetEntries ==
  ASSUME NEW l \in Seq(Timeout), NEW ms \in Nat, NEW h \in Handler
  PROVE  LET n == SysTimeout(l, ms, h)
             i == Place(l, ms)
         IN /\ Behind(l, ms, i)
            /\ n \in Seq(Timeout) /\ Len(n) = Len(l) + 1
            /\ \A j \in 1..i : n[j] = l[j]
            /\ n[i + 1] = [h |-> h, time |-> ms - Due(l, i)]
            /\ \A j \in i + 1..Len(l) : n[j + 1].h = l[j].h
            /\ i < Len(l) => n[i + 2].time = Due(l, i + 1) - ms
            /\ \A j \in i + 2..Len(l) : n[j + 1].time = l[j].time
<1> DEFINE i == Place(l, ms)
           t == [h |-> h, time |-> ms - Due(l, i)]
           rest == [j \in 1..Len(l) - i |->
                      IF j = 1 THEN [l[i + 1] EXCEPT !.time = @ - t.time] ELSE l[i + j]]
           before == SubSeq(l, 1, i)
<1>1. Behind(l, ms, i) /\ i \in 0..Len(l) /\ Len(l) \in Nat
  BY PlaceExists DEF Behind
<1>2. Due(l, i) \in Nat /\ Due(l, i) <= ms
  BY <1>1, DueEquations DEF Behind
<1> HIDE DEF i
<1>3. t \in Timeout
  BY <1>2 DEF Timeout
<1>4. ASSUME i < Len(l)
      PROVE  /\ l[i + 1] \in Timeout /\ l[i + 1].time - t.time \in Nat
             /\ l[i + 1].time - t.time = Due(l, i + 1) - ms
  <2>1. i + 1 \in 1..Len(l) /\ (i + 1) - 1 = i /\ i + 1 \in 0..Len(l)
    BY <1>1, <1>4
  <2>2. Due(l, i + 1) = Due(l, i) + l[i + 1].time /\ l[i + 1].time \in Nat
    BY <2>1, DueEquations, TimeIsNat
  <2>3. Due(l, i + 1) > ms /\ Due(l, i + 1) \in Nat
    BY <1>1, <1>4, <2>1, DueEquations DEF Behind
  <2>4. t.time = ms - Due(l, i)
    OBVIOUS
  <2>5. \A a, b, c \in Nat : b <= ms /\ a > ms /\ a = b + c
           => c - (ms - b) \in Nat /\ c - (ms - b) = a - ms
    OBVIOUS
  <2> QED BY <1>2, <2>1, <2>2, <2>3, <2>4, <2>5, TimeIsNat
<1>5. ASSUME NEW j \in 1..Len(l) - i
      PROVE  /\ rest[j] \in Timeout
             /\ rest[j].h = l[i + j].h
             /\ j = 1 => rest[j].time = Due(l, i + 1) - ms
             /\ j # 1 => rest[j].time = l[i + j].time
  <2>1. i < Len(l) /\ i + j \in 1..Len(l)
    BY <1>1
  <2>2. CASE j = 1
    <3>1. rest[j] = [l[i + 1] EXCEPT !.time = l[i + 1].time - t.time]
      BY <2>2
    <3> HIDE DEF rest, t
    <3> QED BY <1>4, <2>1, <2>2, <3>1 DEF Timeout
  <2>3. CASE j # 1
    BY <2>1, <2>3, TimeIsNat
  <2> QED BY <2>2, <2>3
<1>6. /\ rest \in Seq(Timeout) /\ Len(rest) = Len(l) - i
  <2>1. Len(l) - i \in Nat
    BY <1>1
  <2>2. rest \in [1..Len(l) - i -> Timeout]
    BY <1>5
  <2> HIDE DEF rest
  <2> QED BY <2>1, <2>2
<1>7. before \in Seq(Timeout) /\ Len(before) = i /\ \A j \in 1..i : before[j] = l[j]
  BY <1>1
<1>8. <<t>> \in Seq(Timeout) /\ Len(<<t>>) = 1 /\ <<t>>[1] = t
  BY <1>3
<1> HIDE DEF before, rest, t
<1> DEFINE first == before \o <<t>>
           n == first \o rest
<1>9. /\ first \in Seq(Timeout) /\ Len(first) = i + 1
      /\ \A j \in 1..i : first[j] = l[j]
      /\ first[i + 1] = t
  BY <1>1, <1>7, <1>8
<1> HIDE DEF first
<1>10. /\ n \in Seq(Timeout) /\ Len(n) = Len(l) + 1
       /\ \A j \in 1..i + 1 : n[j] = first[j]
       /\ \A j \in 1..Len(l) - i : n[(i + 1) + j] = rest[j]
  BY <1>1, <1>6, <1>9, ConcatProperties
<1> HIDE DEF n
<1>11. \A j \in i + 1..Len(l) : n[j + 1] = rest[j - i] /\ j - i \in 1..Len(l) - i /\ i + (j - i) = j
  <2> SUFFICES ASSUME NEW j \in i + 1..Len(l)
               PROVE  n[j + 1] = rest[j - i] /\ j - i \in 1..Len(l) - i /\ i + (j - i) = j
    OBVIOUS
  <2>1. j - i \in 1..Len(l) - i /\ i + (j - i) = j /\ (i + 1) + (j - i) = j + 1
    BY <1>1
  <2> QED BY <1>10, <2>1
<1>12. \A j \in i + 1..Len(l) : n[j + 1].h = l[j].h
  BY <1>5, <1>11
<1>13. i < Len(l) => n[i + 2].time = Due(l, i + 1) - ms
  <2> SUFFICES ASSUME i < Len(l) PROVE n[i + 2].time = Due(l, i + 1) - ms
    OBVIOUS
  <2>1. i + 1 \in i + 1..Len(l) /\ (i + 1) + 1 = i + 2 /\ (i + 1) - i = 1
    BY <1>1
  <2>2. n[i + 2] = rest[1] /\ 1 \in 1..Len(l) - i
    BY <1>11, <2>1
  <2> QED BY <1>5, <2>2
<1>14. \A j \in i + 2..Len(l) : n[j + 1].time = l[j].time
  <2> SUFFICES ASSUME NEW j \in i + 2..Len(l) PROVE n[j + 1].time = l[j].time
    OBVIOUS
  <2>1. j \in i + 1..Len(l) /\ j - i # 1
    BY <1>1
  <2> QED BY <1>5, <1>11, <2>1
<1>15. n = SysTimeout(l, ms, h)
  BY DEF SysTimeout, n, first, before, rest, t, i
<1>16. n[i + 1] = t /\ \A j \in 1..i : n[j] = l[j]
  BY <1>1, <1>9, <1>10
<1> QED BY <1>1, <1>10, <1>12, <1>13, <1>14, <1>15, <1>16 DEF t, i

LEMMA SetDues ==
  ASSUME NEW l \in Seq(Timeout), NEW ms \in Nat, NEW h \in Handler
  PROVE  LET n == SysTimeout(l, ms, h)
             i == Place(l, ms)
         IN /\ \A j \in 1..i : Due(n, j) = Due(l, j)
            /\ Due(n, i + 1) = ms
            /\ \A j \in i + 1..Len(l) : Due(n, j + 1) = Due(l, j)
<1> DEFINE n == SysTimeout(l, ms, h)
           i == Place(l, ms)
<1>1. /\ i \in 0..Len(l) /\ Due(l, i) <= ms
      /\ i < Len(l) => Due(l, i + 1) > ms
      /\ n \in Seq(Timeout) /\ Len(n) = Len(l) + 1
      /\ \A j \in 1..i : n[j] = l[j]
      /\ n[i + 1] = [h |-> h, time |-> ms - Due(l, i)]
      /\ i < Len(l) => n[i + 2].time = Due(l, i + 1) - ms
      /\ \A j \in i + 2..Len(l) : n[j + 1].time = l[j].time
  BY SetEntries DEF Behind
<1>2. Len(l) \in Nat /\ Due(l, i) \in Nat /\ Due(l, 0) = 0 /\ Due(n, 0) = 0
  BY <1>1, DueEquations
<1> HIDE DEF n, i
<1>3. \A j \in 0..i : Due(n, j) = Due(l, j)
  <2>1. \A j \in 1..i : n[0 + j].time = l[0 + j].time
    BY <1>1
  <2>2. \A j \in 0..i : Due(n, 0 + j) + Due(l, 0) = Due(l, 0 + j) + Due(n, 0)
    <3>1. 0 \in 0..Len(l) /\ 0 \in 0..Len(n) /\ i \in Nat /\ 0 + i <= Len(l) /\ 0 + i <= Len(n)
      BY <1>1, <1>2
    <3> QED BY <1>1, <2>1, <3>1, SameDifferences
  <2> SUFFICES ASSUME NEW j \in 0..i PROVE Due(n, j) = Due(l, j)
    OBVIOUS
  <2>3. Due(n, j) \in Nat /\ Due(l, j) \in Nat
    <3>1. j \in 0..Len(n) /\ j \in 0..Len(l)
      BY <1>1, <1>2
    <3> QED BY <1>1, <3>1, DueEquations
  <2>4. 0 + j = j
    BY <1>1
  <2>5. Due(n, j) + 0 = Due(l, j) + 0
    BY <1>2, <2>2, <2>4
  <2> QED BY <2>3, <2>5
<1>4. Due(n, i + 1) = ms
  <2>1. i + 1 \in 1..Len(n) /\ (i + 1) - 1 = i /\ i \in 0..i
    BY <1>1, <1>2
  <2>2. Due(n, i + 1) = Due(n, i) + n[i + 1].time
    BY <1>1, <2>1, DueEquations
  <2>3. n[i + 1].time = ms - Due(l, i)
    BY <1>1
  <2> QED BY <1>2, <1>3, <2>1, <2>2, <2>3
<1>5. ASSUME NEW j \in i + 1..Len(l) PROVE Due(n, j + 1) = Due(l, j)
  <2> DEFINE m == Len(l) - (i + 1)
  <2>1. /\ i < Len(l) /\ m \in Nat /\ j - (i + 1) \in 0..m
        /\ i + 1 \in 0..Len(l) /\ i + 2 \in 0..Len(n)
        /\ (i + 1) + m <= Len(l) /\ (i + 2) + m <= Len(n)
        /\ (i + 1) + (j - (i + 1)) = j /\ (i + 2) + (j - (i + 1)) = j + 1
        /\ i + 2 \in 1..Len(n) /\ (i + 2) - 1 = i + 1
    BY <1>1, <1>2, <1>5
  <2>2. Due(n, i + 2) = Due(l, i + 1)
    <3>1. Due(n, i + 2) = Due(n, i + 1) + n[i + 2].time
      BY <1>1, <2>1, DueEquations
    <3>2. Due(l, i + 1) \in Nat
      BY <2>1, DueEquations
    <3> QED BY <1>1, <1>4, <2>1, <3>1, <3>2
  <2>3. \A k \in 1..m : n[(i + 2) + k].time = l[(i + 1) + k].time
    <3> SUFFICES ASSUME NEW k \in 1..m PROVE n[(i + 2) + k].time = l[(i + 1) + k].time
      OBVIOUS
    <3>1. (i + 1) + k \in i + 2..Len(l) /\ (i + 2) + k = ((i + 1) + k) + 1
      BY <1>1, <1>2
    <3> QED BY <1>1, <3>1
  <2>4. Due(n, j + 1) + Due(l, i + 1) = Due(l, j) + Due(n, i + 2)
    <3> HIDE DEF m
    <3>1. \A d \in 0..m : Due(n, (i + 2) + d) + Due(l, i + 1) = Due(l, (i + 1) + d) + Due(n, i + 2)
      BY <1>1, <2>1, <2>3, SameDifferences
    <3> QED BY <2>1, <3>1
  <2>5. Due(n, j + 1) \in Nat /\ Due(l, j) \in Nat /\ Due(l, i + 1) \in Nat
    <3>1. j + 1 \in 0..Len(n) /\ j \in 0..Len(l)
      BY <1>1, <1>2
    <3> QED BY <1>1, <2>1, <3>1, DueEquations
  <2>6. \A a, b, c \in Nat : a + c = b + c => a = b
    OBVIOUS
  <2> QED BY <2>2, <2>4, <2>5, <2>6
<1>6. \A j \in 1..i : Due(n, j) = Due(l, j)
  BY <1>1, <1>3
<1> QED BY <1>4, <1>5, <1>6 DEF n, i

\* sys_untimeout takes the first entry of a handler out and gives its time to
\* its successor.
FirstOf(l, h) == CHOOSE i \in DOMAIN l : l[i].h = h /\ \A j \in 1..i - 1 : l[j].h # h

LEMMA FirstExists ==
  ASSUME NEW l \in Seq(Timeout), NEW h, \E i \in DOMAIN l : l[i].h = h
  PROVE  /\ FirstOf(l, h) \in 1..Len(l)
         /\ l[FirstOf(l, h)].h = h
         /\ \A j \in 1..FirstOf(l, h) - 1 : l[j].h # h
<1> DEFINE T == {i \in DOMAIN l : l[i].h = h}
<1>1. DOMAIN l = 1..Len(l) /\ Len(l) \in Nat /\ T \in SUBSET Nat /\ T # {}
  OBVIOUS
<1>2. PICK x \in T : \A y \in T : x <= y
  BY <1>1, LeastNat
<1>3. \A j \in 1..x - 1 : l[j].h # h
  <2> SUFFICES ASSUME NEW j \in 1..x - 1 PROVE l[j].h # h
    OBVIOUS
  <2>1. j \in DOMAIN l /\ ~ (x <= j)
    BY <1>1
  <2> QED BY <1>2, <2>1
<1> QED BY <1>1, <1>2, <1>3 DEF FirstOf

LEMMA CancelEntries ==
  ASSUME NEW l \in Seq(Timeout), NEW h, \E i \in DOMAIN l : l[i].h = h
  PROVE  LET n == SysUntimeout(l, h)
             i == FirstOf(l, h)
         IN /\ n \in Seq(Timeout) /\ Len(n) = Len(l) - 1
            /\ \A j \in 1..i - 1 : n[j] = l[j]
            /\ \A j \in i..Len(l) - 1 : n[j].h = l[j + 1].h
            /\ i < Len(l) => n[i].time = l[i + 1].time + l[i].time
            /\ \A j \in i + 1..Len(l) - 1 : n[j].time = l[j + 1].time
<1> DEFINE i == FirstOf(l, h)
           rest == [j \in 1..Len(l) - i |->
                      IF j = 1 THEN [l[i + 1] EXCEPT !.time = @ + l[i].time] ELSE l[i + j]]
           before == SubSeq(l, 1, i - 1)
<1>1. i \in 1..Len(l) /\ Len(l) \in Nat
  BY FirstExists
<1> HIDE DEF i
<1>2. ASSUME NEW j \in 1..Len(l) - i
      PROVE  /\ rest[j] \in Timeout
             /\ rest[j].h = l[i + j].h
             /\ j = 1 => rest[j].time = l[i + 1].time + l[i].time
             /\ j # 1 => rest[j].time = l[i + j].time
  <2>1. i + j \in 1..Len(l) /\ i + 1 \in 1..Len(l)
    BY <1>1
  <2>2. l[i].time \in Nat /\ l[i + 1].time \in Nat /\ l[i + 1] \in Timeout
    BY <1>1, <2>1, TimeIsNat
  <2>3. CASE j = 1
    <3>1. rest[j] = [l[i + 1] EXCEPT !.time = l[i + 1].time + l[i].time]
      BY <2>3
    <3>2. l[i + 1].time + l[i].time \in Nat
      BY <2>2
    <3>3. i + j = i + 1
      BY <2>3
    <3> HIDE DEF rest
    <3> QED BY <2>2, <2>3, <3>1, <3>2, <3>3 DEF Timeout
  <2>4. CASE j # 1
    BY <2>1, <2>4, TimeIsNat
  <2> QED BY <2>3, <2>4
<1>3. /\ rest \in Seq(Timeout) /\ Len(rest) = Len(l) - i
  <2>1. Len(l) - i \in Nat
    BY <1>1
  <2>2. rest \in [1..Len(l) - i -> Timeout]
    BY <1>2
  <2> HIDE DEF rest
  <2> QED BY <2>1, <2>2
<1>4. before \in Seq(Timeout) /\ Len(before) = i - 1 /\ \A j \in 1..i - 1 : before[j] = l[j]
  BY <1>1
<1> HIDE DEF before, rest
<1> DEFINE n == before \o rest
<1>5. /\ n \in Seq(Timeout) /\ Len(n) = Len(l) - 1
      /\ \A j \in 1..i - 1 : n[j] = l[j]
      /\ \A j \in 1..Len(l) - i : n[(i - 1) + j] = rest[j]
  <2>1. /\ n \in Seq(Timeout) /\ Len(n) = Len(before) + Len(rest)
        /\ \A j \in 1..Len(before) + Len(rest) :
             n[j] = IF j <= Len(before) THEN before[j] ELSE rest[j - Len(before)]
    BY <1>3, <1>4, ConcatProperties
  <2>2. Len(before) + Len(rest) = Len(l) - 1
    BY <1>1, <1>3, <1>4
  <2> HIDE DEF n
  <2>3. \A j \in 1..i - 1 : n[j] = l[j]
    <3> SUFFICES ASSUME NEW j \in 1..i - 1 PROVE n[j] = l[j]
      OBVIOUS
    <3>1. j \in 1..Len(before) + Len(rest) /\ j <= Len(before)
      BY <1>1, <1>3, <1>4
    <3> QED BY <1>4, <2>1, <3>1
  <2>4. \A j \in 1..Len(l) - i : n[(i - 1) + j] = rest[j]
    <3> SUFFICES ASSUME NEW j \in 1..Len(l) - i PROVE n[(i - 1) + j] = rest[j]
      OBVIOUS
    <3>1. /\ (i - 1) + j \in 1..Len(before) + Len(rest) /\ ~ ((i - 1) + j <= Len(before))
          /\ ((i - 1) + j) - Len(before) = j
      BY <1>1, <1>3, <1>4
    <3> QED BY <2>1, <3>1
  <2> QED BY <2>1, <2>2, <2>3, <2>4
<1> HIDE DEF n
<1>6. \A j \in i..Len(l) - 1 : /\ n[j] = rest[j - i + 1] /\ j - i + 1 \in 1..Len(l) - i
                               /\ i + (j - i + 1) = j + 1
  <2> SUFFICES ASSUME NEW j \in i..Len(l) - 1
               PROVE  /\ n[j] = rest[j - i + 1] /\ j - i + 1 \in 1..Len(l) - i
                      /\ i + (j - i + 1) = j + 1
    OBVIOUS
  <2>1. /\ j - i + 1 \in 1..Len(l) - i /\ i + (j - i + 1) = j + 1
        /\ (i - 1) + (j - i + 1) = j
    BY <1>1
  <2> QED BY <1>5, <2>1
<1>7. \A j \in i..Len(l) - 1 : n[j].h = l[j + 1].h
  BY <1>2, <1>6
<1>8. i < Len(l) => n[i].time = l[i + 1].time + l[i].time
  <2> SUFFICES ASSUME i < Len(l) PROVE n[i].time = l[i + 1].time + l[i].time
    OBVIOUS
  <2>1. i \in i..Len(l) - 1 /\ i - i + 1 = 1
    BY <1>1
  <2> QED BY <1>2, <1>6, <2>1
<1>9. \A j \in i + 1..Len(l) - 1 : n[j].time = l[j + 1].time
  <2> SUFFICES ASSUME NEW j \in i + 1..Len(l) - 1 PROVE n[j].time = l[j + 1].time
    OBVIOUS
  <2>1. j \in i..Len(l) - 1 /\ j - i + 1 # 1
    BY <1>1
  <2> QED BY <1>2, <1>6, <2>1
<1>10. n = SysUntimeout(l, h)
  BY DEF SysUntimeout, n, before, rest, i, FirstOf
<1> QED BY <1>5, <1>7, <1>8, <1>9, <1>10 DEF i

LEMMA CancelDues ==
  ASSUME NEW l \in Seq(Timeout), NEW h, \E i \in DOMAIN l : l[i].h = h
  PROVE  LET n == SysUntimeout(l, h)
             i == FirstOf(l, h)
         IN /\ \A j \in 1..i - 1 : Due(n, j) = Due(l, j)
            /\ \A j \in i..Len(l) - 1 : Due(n, j) = Due(l, j + 1)
<1> DEFINE n == SysUntimeout(l, h)
           i == FirstOf(l, h)
<1>1. /\ i \in 1..Len(l)
      /\ n \in Seq(Timeout) /\ Len(n) = Len(l) - 1
      /\ \A j \in 1..i - 1 : n[j] = l[j]
      /\ i < Len(l) => n[i].time = l[i + 1].time + l[i].time
      /\ \A j \in i + 1..Len(l) - 1 : n[j].time = l[j + 1].time
  BY FirstExists, CancelEntries
<1> HIDE DEF n, i
<1>2. /\ Len(l) \in Nat /\ Due(l, 0) = 0 /\ Due(n, 0) = 0
      /\ \A j \in 0..Len(l) : Due(l, j) \in Nat
      /\ \A j \in 0..Len(l) - 1 : Due(n, j) \in Nat
  BY <1>1, DueEquations
<1>3. \A j \in 0..i - 1 : Due(n, j) = Due(l, j)
  <2>1. \A j \in 1..i - 1 : n[0 + j].time = l[0 + j].time
    BY <1>1
  <2>2. \A j \in 0..i - 1 : Due(n, 0 + j) + Due(l, 0) = Due(l, 0 + j) + Due(n, 0)
    <3>1. /\ 0 \in 0..Len(l) /\ 0 \in 0..Len(n) /\ i - 1 \in Nat
          /\ 0 + (i - 1) <= Len(l) /\ 0 + (i - 1) <= Len(n)
      BY <1>1, <1>2
    <3> QED BY <1>1, <2>1, <3>1, SameDifferences
  <2> SUFFICES ASSUME NEW j \in 0..i - 1 PROVE Due(n, j) = Due(l, j)
    OBVIOUS
  <2>3. Due(n, j) \in Nat /\ Due(l, j) \in Nat /\ 0 + j = j
    BY <1>1, <1>2
  <2>4. Due(n, j) + 0 = Due(l, j) + 0
    BY <1>2, <2>2, <2>3
  <2> QED BY <2>3, <2>4
<1>4. ASSUME NEW j \in i..Len(l) - 1 PROVE Due(n, j) = Due(l, j + 1)
  <2> DEFINE m == Len(l) - 1 - i
  <2>1. /\ i < Len(l) /\ m \in Nat /\ j - i \in 0..m
        /\ i + 1 \in 0..Len(l) /\ i \in 0..Len(n)
        /\ (i + 1) + m <= Len(l) /\ i + m <= Len(n)
        /\ i + (j - i) = j /\ (i + 1) + (j - i) = j + 1
        /\ i \in 1..Len(n) /\ i + 1 \in 1..Len(l) /\ (i + 1) - 1 = i /\ i - 1 \in 0..Len(l)
    BY <1>1, <1>2, <1>4
  <2>2. Due(n, i) = Due(l, i + 1)
    <3>1. Due(n, i) = Due(n, i - 1) + n[i].time
      BY <1>1, <2>1, DueEquations
    <3>2. Due(l, i) = Due(l, i - 1) + l[i].time
      BY <1>1, DueEquations
    <3>3. Due(l, i + 1) = Due(l, i) + l[i + 1].time
      BY <2>1, DueEquations
    <3>4. n[i].time = l[i + 1].time + l[i].time /\ l[i + 1].time \in Nat /\ l[i].time \in Nat
      BY <1>1, <2>1, TimeIsNat
    <3>5. Due(n, i - 1) = Due(l, i - 1) /\ Due(l, i - 1) \in Nat
      BY <1>1, <1>2, <1>3, <2>1
    <3>6. \A a, b, c \in Nat : a + (b + c) = (a + c) + b
      OBVIOUS
    <3> QED BY <3>1, <3>2, <3>3, <3>4, <3>5, <3>6
  <2>3. \A k \in 1..m : n[i + k].time = l[(i + 1) + k].time
    <3> SUFFICES ASSUME NEW k \in 1..m PROVE n[i + k].time = l[(i + 1) + k].time
      OBVIOUS
    <3>1. i + k \in i + 1..Len(l) - 1 /\ (i + 1) + k = (i + k) + 1
      BY <1>1, <1>2
    <3> QED BY <1>1, <3>1
  <2>4. Due(n, j) + Due(l, i + 1) = Due(l, j + 1) + Due(n, i)
    <3> HIDE DEF m
    <3>1. \A d \in 0..m : Due(n, i + d) + Due(l, i + 1) = Due(l, (i + 1) + d) + Due(n, i)
      BY <1>1, <2>1, <2>3, SameDifferences
    <3> QED BY <2>1, <3>1
  <2>5. Due(n, j) \in Nat /\ Due(l, j + 1) \in Nat /\ Due(l, i + 1) \in Nat
    <3>1. j \in 0..Len(l) - 1 /\ j + 1 \in 0..Len(l)
      <4>1. i \in Nat /\ Len(l) \in Nat
        BY <1>1, <2>1
      <4> QED BY <1>4, <4>1
    <3> QED BY <1>2, <2>1, <3>1
  <2>6. \A a, b, c \in Nat : a + c = b + c => a = b
    OBVIOUS
  <2> QED BY <2>2, <2>4, <2>5, <2>6
<1>5. \A j \in 1..i - 1 : Due(n, j) = Due(l, j)
  BY <1>1, <1>3
<1> QED BY <1>4, <1>5 DEF n, i

\* When the head goes off the others have waited as long as it has.
LEMMA TailDues ==
  ASSUME NEW l \in Seq(Timeout), l # <<>>
  PROVE  /\ Tail(l) \in Seq(Timeout) /\ Len(Tail(l)) = Len(l) - 1
         /\ \A j \in 1..Len(l) - 1 : /\ Tail(l)[j] = l[j + 1]
                                     /\ Due(Tail(l), j) = Due(l, j + 1) - Due(l, 1)
<1> DEFINE n == Tail(l)
<1>1. /\ n \in Seq(Timeout) /\ Len(n) = Len(l) - 1 /\ Len(l) \in Nat \ {0}
      /\ \A j \in 1..Len(l) - 1 : n[j] = l[j + 1]
  OBVIOUS
<1> HIDE DEF n
<1> DEFINE m == Len(l) - 1
           one == 1
           none == 0
<1>2. /\ one \in 0..Len(l) /\ none \in 0..Len(n) /\ m \in Nat
      /\ one + m <= Len(l) /\ none + m <= Len(n)
  BY <1>1
<1>3. \A j \in 1..m : n[none + j].time = l[one + j].time
  BY <1>1
<1>4. \A j \in 0..m : Due(n, none + j) + Due(l, one) = Due(l, one + j) + Due(n, none)
  <2>1. n \in Seq(Timeout)
    BY <1>1
  <2> HIDE DEF m, one, none
  <2> QED BY <1>2, <1>3, <2>1, SameDifferences
<1>5. ASSUME NEW j \in 1..m PROVE Due(n, j) = Due(l, j + 1) - Due(l, 1)
  <2>1. j \in 0..m /\ 0 + j = j /\ 1 + j = j + 1 /\ j \in 0..Len(n) /\ j + 1 \in 0..Len(l)
    BY <1>1
  <2>2. Due(n, j) \in Nat /\ Due(l, 1) \in Nat /\ Due(l, j + 1) \in Nat /\ Due(n, 0) = 0
    BY <1>1, <1>2, <2>1, DueEquations
  <2>3. Due(n, j) + Due(l, 1) = Due(l, j + 1) + Due(n, 0)
    BY <1>4, <2>1
  <2>4. \A a, b, c \in Nat : a + b = c + 0 => a = c - b
    OBVIOUS
  <2> QED BY <2>2, <2>3, <2>4
<1> QED BY <1>1, <1>5 DEF n
-----------------------------------------------------------------------------
\* The refinement mapping, of any list.
View(l) == [i \in DOMAIN l |-> [h |-> l[i].h, due |-> Due(l, i)]]

LEMMA ViewEntries ==
  ASSUME NEW l \in Seq(Timeout)
  PROVE  /\ View(l) \in Seq(Abs!Alarm) /\ Len(View(l)) = Len(l)
         /\ DOMAIN View(l) = 1..Len(l)
         /\ \A i \in 1..Len(l) : View(l)[i] = [h |-> l[i].h, due |-> Due(l, i)]
<1>1. Len(l) \in Nat /\ DOMAIN l = 1..Len(l)
  OBVIOUS
<1>2. ASSUME NEW i \in 1..Len(l) PROVE [h |-> l[i].h, due |-> Due(l, i)] \in Abs!Alarm
  <2>1. l[i].h \in Handler /\ Due(l, i) \in Nat
    <3>1. i \in 0..Len(l)
      BY <1>1
    <3> QED BY <3>1, TimeIsNat, DueEquations
  <2> QED BY <2>1 DEF Abs!Alarm
<1>3. View(l) \in [1..Len(l) -> Abs!Alarm]
  BY <1>1, <1>2 DEF View
<1>4. \A i \in 1..Len(l) : View(l)[i] = [h |-> l[i].h, due |-> Due(l, i)]
  BY <1>1 DEF View
<1> QED BY <1>1, <1>3, <1>4

\* Two sequences are equal that have the same entries.
LEMMA SameEntries ==
  ASSUME NEW S, NEW s \in Seq(S), NEW t \in Seq(S), Len(s) = Len(t),
         \A i \in 1..Len(s) : s[i] = t[i]
  PROVE  s = t
  OBVIOUS

\* What Set, Cancel and GoOff of Alarms say of two lists of alarms.
OneIsSet(a, b) ==
    \E i \in 1..Len(a) + 1 :
      /\ Len(b) = Len(a) + 1
      /\ b[i] \in Abs!Alarm
      /\ RemoveAt(b, i) = a
      /\ \A j \in 1..i - 1 : a[j].due <= b[i].due
      /\ i <= Len(a) => a[i].due > b[i].due

OneIsCancelled(a, b) ==
    \E i \in DOMAIN a :
      /\ \A j \in 1..i - 1 : a[j].h # a[i].h
      /\ b = RemoveAt(a, i)

FirstGoesOff(a, b) ==
    /\ a # <<>>
    /\ b = [i \in 1..Len(a) - 1 |-> [a[i + 1] EXCEPT !.due = @ - a[1].due]]

LEMMA SetIsSet ==
  ASSUME NEW l \in Seq(Timeout), NEW ms \in Nat, NEW h \in Handler
  PROVE  OneIsSet(View(l), View(SysTimeout(l, ms, h)))
<1> DEFINE n == SysTimeout(l, ms, h)
           k == Place(l, ms)
           a == View(l)
           b == View(n)
           i == k + 1
<1>1. /\ k \in 0..Len(l) /\ Due(l, k) <= ms /\ (k < Len(l) => Due(l, k + 1) > ms)
      /\ n \in Seq(Timeout) /\ Len(n) = Len(l) + 1
      /\ \A j \in 1..k : n[j] = l[j]
      /\ n[k + 1].h = h
      /\ \A j \in k + 1..Len(l) : n[j + 1].h = l[j].h
  <2>1. /\ Behind(l, ms, k)
        /\ n \in Seq(Timeout) /\ Len(n) = Len(l) + 1
        /\ \A j \in 1..k : n[j] = l[j]
        /\ n[k + 1] = [h |-> h, time |-> ms - Due(l, k)]
        /\ \A j \in k + 1..Len(l) : n[j + 1].h = l[j].h
    BY SetEntries
  <2>2. n[k + 1].h = h
    BY <2>1
  <2> HIDE DEF n, k
  <2> QED BY <2>1, <2>2 DEF Behind
<1>2. /\ \A j \in 1..k : Due(n, j) = Due(l, j)
      /\ Due(n, k + 1) = ms
      /\ \A j \in k + 1..Len(l) : Due(n, j + 1) = Due(l, j)
  BY SetDues
<1> HIDE DEF n, k
<1>3. /\ a \in Seq(Abs!Alarm) /\ Len(a) = Len(l)
      /\ \A j \in 1..Len(l) : a[j] = [h |-> l[j].h, due |-> Due(l, j)]
  BY ViewEntries
<1>4. /\ b \in Seq(Abs!Alarm) /\ Len(b) = Len(l) + 1
      /\ \A j \in 1..Len(l) + 1 : b[j] = [h |-> n[j].h, due |-> Due(n, j)]
  BY <1>1, ViewEntries
<1> HIDE DEF a, b
<1>5. i \in 1..Len(l) + 1 /\ Len(l) \in Nat /\ i \in DOMAIN b
  BY <1>1, <1>4
<1>6. b[i] \in Abs!Alarm /\ b[i].due = ms
  BY <1>2, <1>4, <1>5
<1>7. RemoveAt(b, i) = a
  <2>1. /\ RemoveAt(b, i) \in Seq(Abs!Alarm) /\ Len(RemoveAt(b, i)) = Len(l)
        /\ \A j \in 1..Len(l) : RemoveAt(b, i)[j] = IF j < i THEN b[j] ELSE b[j + 1]
    <3>1. /\ RemoveAt(b, i) \in Seq(Abs!Alarm) /\ Len(RemoveAt(b, i)) = Len(b) - 1
          /\ \A j \in 1..Len(b) - 1 : RemoveAt(b, i)[j] = IF j < i THEN b[j] ELSE b[j + 1]
      BY <1>4, <1>5, RemoveAtEntries
    <3>2. Len(b) - 1 = Len(l)
      BY <1>4, <1>5
    <3> QED BY <3>1, <3>2
  <2>2. ASSUME NEW j \in 1..Len(l) PROVE RemoveAt(b, i)[j] = a[j]
    <3>1. CASE j < i
      <4>1. j \in 1..k /\ j \in 1..Len(l) + 1
        BY <1>1, <1>5, <3>1
      <4>2. RemoveAt(b, i)[j] = b[j]
        BY <2>1, <3>1
      <4>3. b[j] = [h |-> n[j].h, due |-> Due(n, j)]
        BY <1>4, <4>1
      <4>4. n[j].h = l[j].h /\ Due(n, j) = Due(l, j)
        BY <1>1, <1>2, <4>1
      <4>5. a[j] = [h |-> l[j].h, due |-> Due(l, j)]
        BY <1>3
      <4> QED BY <4>2, <4>3, <4>4, <4>5
    <3>2. CASE ~ (j < i)
      <4>1. j \in k + 1..Len(l) /\ j + 1 \in 1..Len(l) + 1
        BY <1>1, <1>5, <3>2
      <4>2. RemoveAt(b, i)[j] = b[j + 1]
        BY <2>1, <3>2
      <4>3. b[j + 1] = [h |-> n[j + 1].h, due |-> Due(n, j + 1)]
        BY <1>4, <4>1
      <4>4. n[j + 1].h = l[j].h /\ Due(n, j + 1) = Due(l, j)
        BY <1>1, <1>2, <4>1
      <4>5. a[j] = [h |-> l[j].h, due |-> Due(l, j)]
        BY <1>3
      <4> QED BY <4>2, <4>3, <4>4, <4>5
    <3> QED BY <3>1, <3>2
  <2> QED BY <1>3, <2>1, <2>2, SameEntries
<1>8. ASSUME NEW j \in 1..i - 1 PROVE a[j].due <= b[i].due
  <2>1. j \in 1..Len(l) /\ j \in 0..Len(l) /\ k \in 0..Len(l) /\ j <= k
    BY <1>1, <1>5
  <2>2. Due(l, j) <= Due(l, k) /\ Due(l, j) \in Nat /\ Due(l, k) \in Nat
    BY <2>1, DueGrows, DueEquations
  <2>3. a[j].due = Due(l, j)
    <3>1. a[j] = [h |-> l[j].h, due |-> Due(l, j)]
      BY <1>3, <2>1
    <3> QED BY <3>1
  <2> QED BY <1>1, <1>6, <2>2, <2>3
<1>9. i <= Len(a) => a[i].due > b[i].due
  <2> SUFFICES ASSUME i <= Len(a) PROVE a[i].due > b[i].due
    OBVIOUS
  <2>1. i \in 1..Len(l) /\ k < Len(l)
    BY <1>1, <1>3, <1>5
  <2>2. a[i].due = Due(l, k + 1)
    <3>1. a[i] = [h |-> l[i].h, due |-> Due(l, i)]
      BY <1>3, <2>1
    <3> QED BY <3>1
  <2> QED BY <1>1, <1>6, <2>1, <2>2
<1>10. i \in 1..Len(a) + 1 /\ Len(b) = Len(a) + 1
  BY <1>3, <1>4, <1>5
<1>11. \E x \in 1..Len(a) + 1 :
              /\ Len(b) = Len(a) + 1
              /\ b[x] \in Abs!Alarm
              /\ RemoveAt(b, x) = a
              /\ \A j \in 1..x - 1 : a[j].due <= b[x].due
              /\ x <= Len(a) => a[x].due > b[x].due
  <2> HIDE DEF i
  <2> QED BY <1>6, <1>7, <1>8, <1>9, <1>10
<1> QED BY <1>11 DEF OneIsSet, a, b, n

LEMMA CancelIsCancel ==
  ASSUME NEW l \in Seq(Timeout), NEW h, \E i \in DOMAIN l : l[i].h = h
  PROVE  OneIsCancelled(View(l), View(SysUntimeout(l, h)))
<1> DEFINE n == SysUntimeout(l, h)
           a == View(l)
           b == View(n)
           i == FirstOf(l, h)
<1>1. /\ i \in 1..Len(l) /\ l[i].h = h /\ \A j \in 1..i - 1 : l[j].h # h
      /\ n \in Seq(Timeout) /\ Len(n) = Len(l) - 1
      /\ \A j \in 1..i - 1 : n[j] = l[j]
      /\ \A j \in i..Len(l) - 1 : n[j].h = l[j + 1].h
  BY FirstExists, CancelEntries
<1>2. /\ \A j \in 1..i - 1 : Due(n, j) = Due(l, j)
      /\ \A j \in i..Len(l) - 1 : Due(n, j) = Due(l, j + 1)
  BY CancelDues
<1> HIDE DEF n, i
<1>3. /\ a \in Seq(Abs!Alarm) /\ Len(a) = Len(l) /\ DOMAIN a = 1..Len(l) /\ Len(l) \in Nat
      /\ \A j \in 1..Len(l) : a[j] = [h |-> l[j].h, due |-> Due(l, j)]
  BY ViewEntries
<1>4. /\ b \in Seq(Abs!Alarm) /\ Len(b) = Len(l) - 1
      /\ \A j \in 1..Len(l) - 1 : b[j] = [h |-> n[j].h, due |-> Due(n, j)]
  BY <1>1, ViewEntries
<1> HIDE DEF a, b
<1>5. i \in DOMAIN a
  BY <1>1, <1>3
<1>6. /\ RemoveAt(a, i) \in Seq(Abs!Alarm) /\ Len(RemoveAt(a, i)) = Len(l) - 1
      /\ \A j \in 1..Len(l) - 1 : RemoveAt(a, i)[j] = IF j < i THEN a[j] ELSE a[j + 1]
  <2>1. /\ RemoveAt(a, i) \in Seq(Abs!Alarm) /\ Len(RemoveAt(a, i)) = Len(a) - 1
        /\ \A j \in 1..Len(a) - 1 : RemoveAt(a, i)[j] = IF j < i THEN a[j] ELSE a[j + 1]
    BY <1>3, <1>5, RemoveAtEntries
  <2> QED BY <1>3, <2>1
<1>7. ASSUME NEW j \in 1..Len(l) - 1 PROVE b[j] = RemoveAt(a, i)[j]
  <2>1. CASE j < i
    <3>1. j \in 1..i - 1 /\ j \in 1..Len(l)
      BY <1>1, <1>3, <2>1
    <3>2. n[j].h = l[j].h /\ Due(n, j) = Due(l, j)
      BY <1>1, <1>2, <3>1
    <3>3. RemoveAt(a, i)[j] = [h |-> l[j].h, due |-> Due(l, j)]
      BY <1>3, <1>6, <2>1, <3>1
    <3> QED BY <1>4, <3>2, <3>3
  <2>2. CASE ~ (j < i)
    <3>1. j \in i..Len(l) - 1 /\ j + 1 \in 1..Len(l)
      BY <1>1, <1>3, <2>2
    <3>2. n[j].h = l[j + 1].h /\ Due(n, j) = Due(l, j + 1)
      BY <1>1, <1>2, <3>1
    <3>3. RemoveAt(a, i)[j] = [h |-> l[j + 1].h, due |-> Due(l, j + 1)]
      BY <1>3, <1>6, <2>2, <3>1
    <3> QED BY <1>4, <3>2, <3>3
  <2> QED BY <2>1, <2>2
<1>8. b = RemoveAt(a, i)
  BY <1>4, <1>6, <1>7, SameEntries
<1>9. ASSUME NEW j \in 1..i - 1 PROVE a[j].h # a[i].h
  <2>1. j \in 1..Len(l)
    BY <1>1, <1>3
  <2>2. a[j] = [h |-> l[j].h, due |-> Due(l, j)] /\ a[i] = [h |-> l[i].h, due |-> Due(l, i)]
    BY <1>1, <1>3, <2>1
  <2> QED BY <1>1, <2>2
<1> QED BY <1>5, <1>8, <1>9 DEF OneIsCancelled, a, b, n

LEMMA GoOffIsGoOff ==
  ASSUME NEW l \in Seq(Timeout), l # <<>>
  PROVE  FirstGoesOff(View(l), View(Tail(l)))
<1> DEFINE n == Tail(l)
           a == View(l)
           b == View(n)
<1>1. /\ n \in Seq(Timeout) /\ Len(n) = Len(l) - 1
      /\ \A j \in 1..Len(l) - 1 : n[j] = l[j + 1] /\ Due(n, j) = Due(l, j + 1) - Due(l, 1)
  BY TailDues
<1>2. Len(l) \in Nat \ {0}
  OBVIOUS
<1> HIDE DEF n
<1>3. /\ a \in Seq(Abs!Alarm) /\ Len(a) = Len(l)
      /\ \A j \in 1..Len(l) : a[j] = [h |-> l[j].h, due |-> Due(l, j)]
  BY ViewEntries
<1>4. b = [j \in 1..Len(l) - 1 |-> [h |-> n[j].h, due |-> Due(n, j)]]
  <2>1. DOMAIN n = 1..Len(l) - 1
    BY <1>1
  <2> QED BY <2>1 DEF View
<1> HIDE DEF a, b
<1>5. ASSUME NEW j \in 1..Len(a) - 1
      PROVE  [a[j + 1] EXCEPT !.due = @ - a[1].due] = [h |-> n[j].h, due |-> Due(n, j)]
  <2>1. j \in 1..Len(l) - 1 /\ j + 1 \in 1..Len(l) /\ 1 \in 1..Len(l)
    BY <1>2, <1>3
  <2>2. a[j + 1] = [h |-> l[j + 1].h, due |-> Due(l, j + 1)]
    BY <1>3, <2>1
  <2>3. a[1] = [h |-> l[1].h, due |-> Due(l, 1)]
    BY <1>3, <2>1
  <2>4. n[j] = l[j + 1] /\ Due(n, j) = Due(l, j + 1) - Due(l, 1)
    BY <1>1, <2>1
  <2>5. [a[j + 1] EXCEPT !.due = @ - a[1].due] = [h |-> l[j + 1].h, due |-> Due(l, j + 1) - Due(l, 1)]
    BY <2>2, <2>3
  <2> QED BY <2>4, <2>5
<1>6. a # <<>>
  BY <1>2, <1>3
<1>7. b = [i \in 1..Len(a) - 1 |-> [a[i + 1] EXCEPT !.due = @ - a[1].due]]
  BY <1>3, <1>4, <1>5
<1> QED BY <1>6, <1>7 DEF FirstGoesOff, a, b, n
-----------------------------------------------------------------------------
\* How many TCP timers there are in a list: none, or one.
NoTcp(l) == \A i \in DOMAIN l : l[i].h # Tcp
SoleTcp(l) == \E i \in DOMAIN l : l[i].h = Tcp /\ \A j \in DOMAIN l : l[j].h = Tcp => j = i

LEMMA SetTcp ==
  ASSUME NEW l \in Seq(Timeout), NEW ms \in Nat, NEW h \in Handler
  PROVE  LET n == SysTimeout(l, ms, h)
         IN /\ h = Tcp /\ NoTcp(l) => SoleTcp(n)
            /\ h # Tcp /\ NoTcp(l) => NoTcp(n)
            /\ h # Tcp /\ SoleTcp(l) => SoleTcp(n)
<1> DEFINE n == SysTimeout(l, ms, h)
           k == Place(l, ms)
<1>1. /\ k \in 0..Len(l) /\ Len(l) \in Nat /\ DOMAIN l = 1..Len(l)
      /\ Len(n) = Len(l) + 1 /\ DOMAIN n = 1..Len(l) + 1
      /\ \A j \in 1..k : n[j].h = l[j].h
      /\ n[k + 1].h = h
      /\ \A j \in k + 1..Len(l) : n[j + 1].h = l[j].h
  <2>1. /\ Behind(l, ms, k)
        /\ n \in Seq(Timeout) /\ Len(n) = Len(l) + 1
        /\ \A j \in 1..k : n[j] = l[j]
        /\ n[k + 1] = [h |-> h, time |-> ms - Due(l, k)]
        /\ \A j \in k + 1..Len(l) : n[j + 1].h = l[j].h
    BY SetEntries
  <2>2. n[k + 1].h = h
    BY <2>1
  <2> HIDE DEF n, k
  <2> QED BY <2>1, <2>2 DEF Behind
<1> HIDE DEF n, k
\* Every entry of n but the new one is one of l.
<1>2. ASSUME NEW x \in DOMAIN n
      PROVE  \/ x = k + 1
             \/ x \in 1..k /\ n[x].h = l[x].h /\ x \in DOMAIN l
             \/ x \in k + 2..Len(l) + 1 /\ n[x].h = l[x - 1].h /\ x - 1 \in DOMAIN l
  <2>1. CASE x \in 1..k
    BY <1>1, <2>1
  <2>2. CASE x \in k + 2..Len(l) + 1
    <3>1. x - 1 \in k + 1..Len(l) /\ (x - 1) + 1 = x
      BY <1>1, <2>2
    <3> QED BY <1>1, <2>2, <3>1
  <2> QED BY <1>1, <2>1, <2>2
<1>3. k + 1 \in DOMAIN n
  BY <1>1
<1>4. ASSUME h = Tcp, NoTcp(l) PROVE SoleTcp(n)
  <2>1. \A x \in DOMAIN n : n[x].h = Tcp => x = k + 1
    BY <1>2, <1>4 DEF NoTcp
  <2> QED BY <1>1, <1>3, <1>4, <2>1 DEF SoleTcp
<1>5. ASSUME h # Tcp, NoTcp(l) PROVE NoTcp(n)
  BY <1>1, <1>2, <1>5 DEF NoTcp
<1>6. ASSUME h # Tcp, SoleTcp(l) PROVE SoleTcp(n)
  <2>1. PICK i \in DOMAIN l : l[i].h = Tcp /\ \A j \in DOMAIN l : l[j].h = Tcp => j = i
    BY <1>6 DEF SoleTcp
  <2>2. i \in 1..Len(l)
    BY <1>1
  <2>3. CASE i <= k
    <3>1. i \in 1..k /\ i \in DOMAIN n
      BY <1>1, <2>2, <2>3
    <3>2. ASSUME NEW x \in DOMAIN n, n[x].h = Tcp PROVE x = i
      <4>1. x # k + 1
        BY <1>1, <1>6, <3>2
      <4>2. ~ (x \in k + 2..Len(l) + 1 /\ x - 1 = i)
        BY <1>1, <2>2, <2>3
      <4> QED BY <1>2, <2>1, <3>2, <4>1, <4>2
    <3> QED BY <1>1, <2>1, <3>1, <3>2 DEF SoleTcp
  <2>4. CASE ~ (i <= k)
    <3>1. i \in k + 1..Len(l) /\ i + 1 \in DOMAIN n
      BY <1>1, <2>2, <2>4
    <3>2. ASSUME NEW x \in DOMAIN n, n[x].h = Tcp PROVE x = i + 1
      <4>1. x # k + 1
        BY <1>1, <1>6, <3>2
      <4>2. ~ (x \in 1..k /\ x = i)
        BY <1>1, <2>2, <2>4
      <4>3. x \in k + 2..Len(l) + 1 /\ x - 1 = i
        BY <1>2, <2>1, <3>2, <4>1, <4>2
      <4> QED BY <1>1, <2>2, <4>3
    <3>3. n[i + 1].h = Tcp
      BY <1>1, <2>1, <3>1
    <3> QED BY <3>1, <3>2, <3>3 DEF SoleTcp
  <2> QED BY <2>3, <2>4
<1> QED BY <1>4, <1>5, <1>6 DEF n

LEMMA CancelTcp ==
  ASSUME NEW l \in Seq(Timeout), NEW h, h # Tcp, \E i \in DOMAIN l : l[i].h = h
  PROVE  LET n == SysUntimeout(l, h)
         IN /\ NoTcp(l) => NoTcp(n)
            /\ SoleTcp(l) => SoleTcp(n)
<1> DEFINE n == SysUntimeout(l, h)
           k == FirstOf(l, h)
<1>1. /\ k \in 1..Len(l) /\ Len(l) \in Nat /\ DOMAIN l = 1..Len(l) /\ l[k].h = h
      /\ DOMAIN n = 1..Len(l) - 1
      /\ \A j \in 1..k - 1 : n[j] = l[j]
      /\ \A j \in k..Len(l) - 1 : n[j].h = l[j + 1].h
  BY FirstExists, CancelEntries
<1> HIDE DEF n, k
<1>2. ASSUME NEW x \in DOMAIN n
      PROVE  \/ x \in 1..k - 1 /\ n[x].h = l[x].h /\ x \in DOMAIN l
             \/ x \in k..Len(l) - 1 /\ n[x].h = l[x + 1].h /\ x + 1 \in DOMAIN l
  <2>1. CASE x \in 1..k - 1
    BY <1>1, <2>1
  <2>2. CASE x \in k..Len(l) - 1
    BY <1>1, <2>2
  <2> QED BY <1>1, <2>1, <2>2
<1>3. ASSUME NoTcp(l) PROVE NoTcp(n)
  BY <1>2, <1>3 DEF NoTcp
<1>4. ASSUME SoleTcp(l) PROVE SoleTcp(n)
  <2>1. PICK i \in DOMAIN l : l[i].h = Tcp /\ \A j \in DOMAIN l : l[j].h = Tcp => j = i
    BY <1>4 DEF SoleTcp
  <2>2. i \in 1..Len(l) /\ i # k
    BY <1>1, <2>1
  <2>3. CASE i < k
    <3>1. i \in 1..k - 1 /\ i \in DOMAIN n
      BY <1>1, <2>2, <2>3
    <3>2. ASSUME NEW x \in DOMAIN n, n[x].h = Tcp PROVE x = i
      <4>1. ~ (x \in k..Len(l) - 1 /\ x + 1 = i)
        BY <1>1, <2>2, <2>3
      <4> QED BY <1>2, <2>1, <3>2, <4>1
    <3> QED BY <1>1, <2>1, <3>1, <3>2 DEF SoleTcp
  <2>4. CASE ~ (i < k)
    <3>1. i - 1 \in k..Len(l) - 1 /\ i - 1 \in DOMAIN n /\ (i - 1) + 1 = i
      BY <1>1, <2>2, <2>4
    <3>2. ASSUME NEW x \in DOMAIN n, n[x].h = Tcp PROVE x = i - 1
      <4>1. ~ (x \in 1..k - 1 /\ x = i)
        BY <1>1, <2>2, <2>4
      <4>2. x \in k..Len(l) - 1 /\ x + 1 = i
        BY <1>2, <2>1, <3>2, <4>1
      <4> QED BY <1>1, <2>2, <4>2
    <3>3. n[i - 1].h = Tcp
      BY <1>1, <2>1, <3>1
    <3> QED BY <3>1, <3>2, <3>3 DEF SoleTcp
  <2> QED BY <2>3, <2>4
<1> QED BY <1>3, <1>4 DEF n

LEMMA TailTcp ==
  ASSUME NEW l \in Seq(Timeout), l # <<>>
  PROVE  /\ NoTcp(l) => NoTcp(Tail(l)) /\ Head(l).h # Tcp
         /\ SoleTcp(l) => IF Head(l).h = Tcp THEN NoTcp(Tail(l)) ELSE SoleTcp(Tail(l))
<1>1. /\ Len(l) \in Nat \ {0} /\ DOMAIN l = 1..Len(l) /\ Head(l) = l[1]
      /\ DOMAIN Tail(l) = 1..Len(l) - 1
      /\ \A j \in 1..Len(l) - 1 : Tail(l)[j] = l[j + 1] /\ j + 1 \in DOMAIN l
  OBVIOUS
<1>2. ASSUME NoTcp(l) PROVE NoTcp(Tail(l)) /\ Head(l).h # Tcp
  BY <1>1, <1>2 DEF NoTcp
<1>3. ASSUME SoleTcp(l)
      PROVE  IF Head(l).h = Tcp THEN NoTcp(Tail(l)) ELSE SoleTcp(Tail(l))
  <2>1. PICK i \in DOMAIN l : l[i].h = Tcp /\ \A j \in DOMAIN l : l[j].h = Tcp => j = i
    BY <1>3 DEF SoleTcp
  <2>2. i \in 1..Len(l)
    BY <1>1
  <2>3. CASE i = 1
    <3>1. ASSUME NEW x \in 1..Len(l) - 1 PROVE Tail(l)[x].h # Tcp
      <4>1. x + 1 # 1
        BY <1>1
      <4> QED BY <1>1, <2>1, <2>3, <4>1
    <3> QED BY <1>1, <2>1, <2>3, <3>1 DEF NoTcp
  <2>4. CASE i # 1
    <3>1. i - 1 \in 1..Len(l) - 1 /\ (i - 1) + 1 = i /\ 1 \in DOMAIN l
      BY <1>1, <2>2, <2>4
    <3>2. Head(l).h # Tcp
      BY <1>1, <2>1, <2>4, <3>1
    <3>3. ASSUME NEW x \in 1..Len(l) - 1, Tail(l)[x].h = Tcp PROVE x = i - 1
      <4>1. x + 1 = i
        BY <1>1, <2>1, <3>3
      <4> QED BY <4>1, <1>1
    <3>4. Tail(l)[i - 1].h = Tcp
      BY <1>1, <2>1, <3>1
    <3>5. SoleTcp(Tail(l))
      BY <1>1, <3>1, <3>3, <3>4 DEF SoleTcp
    <3> QED BY <3>2, <3>5
  <2> QED BY <2>3, <2>4
<1> QED BY <1>2, <1>3

\* The inductive invariant.  OneTcpTimer is inductive with the types, since
\* what cancels timers cannot cancel this one; said without counting.
IInv ==
    /\ TypeOK
    /\ pcbs => active
    /\ IF active /\ running # Tcp THEN SoleTcp(list) ELSE NoTcp(list)
    /\ running = Tcp => active

LEMMA OneIsSole ==
  ASSUME IInv
  PROVE  OneTcpTimer
<1> DEFINE T == {i \in DOMAIN list : list[i].h = Tcp}
<1>1. NoTcp(list) => T = {}
  BY DEF NoTcp
<1>2. SoleTcp(list) => \E i : T = {i}
  BY DEF SoleTcp
<1> HIDE DEF T
<1>3. NoTcp(list) => Cardinality(T) = 0
  BY <1>1, FS_EmptySet
<1>4. SoleTcp(list) => Cardinality(T) = 1
  BY <1>2, FS_Singleton
<1>5. active \in BOOLEAN /\ (pcbs => active)
  BY DEF IInv, TypeOK
<1>6. CASE running = Tcp
  <2>1. Cardinality(T) = 0 /\ active
    BY <1>3, <1>6 DEF IInv
  <2> QED BY <1>5, <1>6, <2>1 DEF OneTcpTimer, T
<1>7. CASE running # Tcp
  <2>1. Cardinality(T) = IF active THEN 1 ELSE 0
    BY <1>3, <1>4, <1>7 DEF IInv
  <2> QED BY <1>5, <1>7, <2>1 DEF OneTcpTimer, T
<1> QED BY <1>6, <1>7

LEMMA IntervalIsNat ==
  ASSUME NEW h \in {Tcp} \cup Periodic
  PROVE  Interval[h] \in Nat /\ h \in Handler
  BY ConstantsAssumption DEF Handler

LEMMA InitInv == Init => IInv
<1> SUFFICES ASSUME Init PROVE IInv
  OBVIOUS
<1>1. PICK hs \in [1..Cardinality(Periodic) -> Periodic] :
         /\ \A i, j \in DOMAIN hs : i < j => hs[i] # hs[j] /\ Interval[hs[i]] <= Interval[hs[j]]
         /\ list = [i \in DOMAIN hs |->
                      [h |-> hs[i], time |-> IF i = 1 THEN Interval[hs[i]]
                                             ELSE Interval[hs[i]] - Interval[hs[i - 1]]]]
  BY DEF Init
<1> DEFINE c == Cardinality(Periodic)
<1>2. c \in Nat /\ DOMAIN hs = 1..c /\ DOMAIN list = 1..c
  BY <1>1, ConstantsAssumption, FS_CardinalityType
<1>3. ASSUME NEW i \in 1..c PROVE list[i] \in Timeout /\ list[i].h # Tcp
  <2>1. hs[i] \in Periodic /\ hs[i] # Tcp /\ Interval[hs[i]] \in Nat /\ hs[i] \in Handler
    BY <1>1, ConstantsAssumption, IntervalIsNat
  <2>2. CASE i = 1
    <3>1. list[i] = [h |-> hs[i], time |-> Interval[hs[i]]]
      BY <1>1, <1>2, <2>2
    <3> QED BY <2>1, <3>1 DEF Timeout
  <2>3. CASE i # 1
    <3>1. i - 1 \in 1..c /\ i - 1 < i
      BY <1>2, <2>3
    <3>2. Interval[hs[i - 1]] <= Interval[hs[i]] /\ Interval[hs[i - 1]] \in Nat
      <4>1. hs[i - 1] \in Periodic
        BY <1>1, <3>1
      <4> QED BY <1>1, <1>2, <3>1, <4>1, IntervalIsNat
    <3>3. list[i] = [h |-> hs[i], time |-> Interval[hs[i]] - Interval[hs[i - 1]]]
      BY <1>1, <1>2, <2>3
    <3>4. Interval[hs[i]] - Interval[hs[i - 1]] \in Nat
      BY <2>1, <3>2
    <3> QED BY <2>1, <3>3, <3>4 DEF Timeout
  <2> QED BY <2>2, <2>3
<1>4. list \in Seq(Timeout)
  <2>1. list \in [1..c -> Timeout]
    BY <1>1, <1>2, <1>3
  <2> QED BY <1>2, <2>1
<1>5. NoTcp(list)
  BY <1>2, <1>3 DEF NoTcp
<1>6. Nil # Tcp
  BY ConstantsAssumption DEF Handler
<1> QED BY <1>4, <1>5, <1>6 DEF Init, IInv, TypeOK

\* Where the list of a step is a set, cancelled or shortened one.
LEMMA SetTyped ==
  ASSUME NEW l \in Seq(Timeout), NEW ms \in Nat, NEW h \in Handler
  PROVE  SysTimeout(l, ms, h) \in Seq(Timeout)
  BY SetEntries

LEMMA ElapsedIsNat ==
  ASSUME TypeOK
  PROVE  (now + ClockSize - last) % ClockSize \in Nat /\ (now + 1) % ClockSize \in 0..ClockSize - 1
<1>1. ClockSize \in Nat \ {0}
  BY ConstantsAssumption
<1>2. now \in Nat /\ now + ClockSize - last \in Int
  BY <1>1 DEF TypeOK
<1>3. \A x \in Int : x % ClockSize \in 0..ClockSize - 1
  BY <1>1
<1> QED BY <1>1, <1>2, <1>3

LEMMA StepInv == IInv /\ [Next]_vars => IInv'
<1> SUFFICES ASSUME IInv, [Next]_vars PROVE IInv'
  OBVIOUS
<1>0. TypeOK /\ list \in Seq(Timeout)
  BY DEF IInv, TypeOK
<1>1. CASE SetOneShot
  <2>1. PICK h \in OneShot, ms \in Delays : list' = SysTimeout(list, ms, h)
    BY <1>1 DEF SetOneShot
  <2>2. h \in Handler /\ h # Tcp /\ ms \in Nat
    BY ConstantsAssumption DEF Handler
  <2>3. list' \in Seq(Timeout)
    BY <1>0, <2>1, <2>2, SetTyped
  <2>4. (NoTcp(list) => NoTcp(list')) /\ (SoleTcp(list) => SoleTcp(list'))
    BY <1>0, <2>1, <2>2, SetTcp
  <2> QED BY <1>1, <2>3, <2>4 DEF SetOneShot, IInv, TypeOK, NoTcp, SoleTcp
<1>2. CASE CancelOneShot
  <2>1. PICK h \in OneShot : /\ \E i \in DOMAIN list : list[i].h = h
                             /\ list' = SysUntimeout(list, h)
    BY <1>2 DEF CancelOneShot
  <2>2. h # Tcp
    BY ConstantsAssumption
  <2>3. list' \in Seq(Timeout)
    BY <1>0, <2>1, CancelEntries
  <2>4. (NoTcp(list) => NoTcp(list')) /\ (SoleTcp(list) => SoleTcp(list'))
    BY <1>0, <2>1, <2>2, CancelTcp
  <2> QED BY <1>2, <2>3, <2>4 DEF CancelOneShot, IInv, TypeOK, NoTcp, SoleTcp
<1>3. CASE RegisterPcb
  <2>1. CASE ~ active
    <3>1. list' = SysTimeout(list, Interval[Tcp], Tcp) /\ active' = TRUE
      BY <1>3, <2>1 DEF RegisterPcb, TcpTimerNeeded
    <3>2. Interval[Tcp] \in Nat /\ Tcp \in Handler
      BY IntervalIsNat
    <3>3. NoTcp(list) /\ running # Tcp
      BY <2>1 DEF IInv
    <3>4. list' \in Seq(Timeout)
      BY <1>0, <3>1, <3>2, SetTyped
    <3>5. SoleTcp(list')
      BY <1>0, <3>1, <3>2, <3>3, SetTcp
    <3> QED BY <1>3, <3>1, <3>3, <3>4, <3>5 DEF RegisterPcb, IInv, TypeOK, SoleTcp
  <2>2. CASE active
    BY <1>3, <2>2 DEF RegisterPcb, TcpTimerNeeded, IInv, TypeOK, NoTcp, SoleTcp
  <2> QED BY <2>1, <2>2
<1>4. CASE RemoveLastPcb
  BY <1>4 DEF RemoveLastPcb, IInv, TypeOK, NoTcp, SoleTcp
<1>5. CASE CheckTimeouts
  BY <1>0, <1>5, ElapsedIsNat DEF CheckTimeouts, IInv, TypeOK, NoTcp, SoleTcp
<1>6. CASE RunHandler
  <2>1. list # <<>> /\ list' = Tail(list) /\ running' = Head(list).h /\ running = Nil
    BY <1>6 DEF RunHandler, Expired
  <2>2. Tail(list) \in Seq(Timeout)
    BY <1>0, <2>1
  <2>3. Head(list).h \in Handler /\ Head(list).time \in Nat
    <3>1. Head(list) = list[1] /\ 1 \in 1..Len(list)
      BY <1>0, <2>1
    <3> QED BY <1>0, <3>1, TimeIsNat
  <2>4. diff' \in Nat
    BY <1>6, <2>3 DEF RunHandler, Expired, IInv, TypeOK
  <2>5. Nil # Tcp
    BY ConstantsAssumption DEF Handler
  <2>6. IF active THEN SoleTcp(list) ELSE NoTcp(list)
    BY <2>1, <2>5 DEF IInv
  <2>7. IF active /\ running' # Tcp THEN SoleTcp(list') ELSE NoTcp(list')
    BY <1>0, <2>1, <2>6, TailTcp
  <2>8. running' = Tcp => active
    BY <1>0, <2>1, <2>6, TailTcp
  <2> QED BY <1>6, <2>1, <2>2, <2>3, <2>4, <2>7, <2>8
          DEF RunHandler, IInv, TypeOK, NoTcp, SoleTcp
<1>7. CASE HandlerReturns
  <2>0. Nil # Tcp
    BY ConstantsAssumption DEF Handler
  <2>1. CASE TcpTimer
    <3>1. NoTcp(list) /\ active
      BY <2>1 DEF TcpTimer, IInv
    <3>2. CASE pcbs
      <4>1. list' = SysTimeout(list, Interval[Tcp], Tcp) /\ active' = active
        BY <2>1, <3>2 DEF TcpTimer
      <4>2. Interval[Tcp] \in Nat /\ Tcp \in Handler
        BY IntervalIsNat
      <4>3. list' \in Seq(Timeout)
        BY <1>0, <4>1, <4>2, SetTyped
      <4>4. SoleTcp(list')
        BY <1>0, <3>1, <4>1, <4>2, SetTcp
      <4> QED BY <1>7, <2>0, <3>1, <4>1, <4>3, <4>4 DEF HandlerReturns, IInv, TypeOK, SoleTcp
    <3>3. CASE ~ pcbs
      <4>1. active' = FALSE /\ list' = list
        BY <2>1, <3>3 DEF TcpTimer
      <4> QED BY <1>7, <2>0, <3>1, <3>3, <4>1 DEF HandlerReturns, IInv, TypeOK, NoTcp
    <3> QED BY <3>2, <3>3
  <2>2. CASE OtherTimer
    <3>1. running # Tcp /\ active' = active
      BY <2>2, ConstantsAssumption DEF OtherTimer
    <3>2. CASE running \in Periodic
      <4>1. list' = SysTimeout(list, Interval[running], running)
        BY <2>2, <3>2 DEF OtherTimer
      <4>2. Interval[running] \in Nat /\ running \in Handler
        BY <3>2, IntervalIsNat
      <4>3. list' \in Seq(Timeout)
        BY <1>0, <4>1, <4>2, SetTyped
      <4>4. (NoTcp(list) => NoTcp(list')) /\ (SoleTcp(list) => SoleTcp(list'))
        BY <1>0, <3>1, <4>1, <4>2, SetTcp
      <4> QED BY <1>7, <2>0, <3>1, <4>3, <4>4 DEF HandlerReturns, IInv, TypeOK, NoTcp, SoleTcp
    <3>3. CASE running \notin Periodic
      <4>1. list' = list
        BY <2>2, <3>3 DEF OtherTimer
      <4> QED BY <1>7, <2>0, <3>1, <4>1 DEF HandlerReturns, IInv, TypeOK, NoTcp, SoleTcp
    <3> QED BY <3>2, <3>3
  <2> QED BY <1>7, <2>1, <2>2 DEF HandlerReturns
<1>8. CASE EndCheck
  BY <1>8 DEF EndCheck, IInv, TypeOK, NoTcp, SoleTcp
<1>9. CASE RestartTimeouts
  BY <1>9 DEF RestartTimeouts, IInv, TypeOK, NoTcp, SoleTcp
<1>10. CASE Tick
  BY <1>0, <1>10, ElapsedIsNat DEF Tick, IInv, TypeOK, NoTcp, SoleTcp
<1>11. CASE UNCHANGED vars
  BY <1>11 DEF vars, IInv, TypeOK, NoTcp, SoleTcp
<1> QED BY <1>1, <1>2, <1>3, <1>4, <1>5, <1>6, <1>7, <1>8, <1>9, <1>10, <1>11 DEF Next

\* In every reachable state the types hold and there is exactly one TCP timer
\* when tcpip_tcp_timer_active says so, and none otherwise; it says so while
\* there are connections (timers.c:83-109).
THEOREM OneTimer == Spec => [](TypeOK /\ OneTcpTimer)
<1>1. IInv => TypeOK /\ OneTcpTimer
  BY OneIsSole DEF IInv
<1> QED BY InitInv, StepInv, <1>1, PTL DEF Spec
-----------------------------------------------------------------------------
\* The mapped list in the next state.
LEMMA AlarmListIsView == AlarmList = View(list)
  BY DEF AlarmList, View

LEMMA NextAlarmListIsView == AlarmList' = View(list')
  BY DEF AlarmList, View

LEMMA InitRefines == Init => Abs!Init
<1> SUFFICES ASSUME Init PROVE Abs!Init
  OBVIOUS
<1>1. list \in Seq(Timeout)
  BY InitInv DEF IInv, TypeOK
<1>2. /\ View(list) \in Seq(Abs!Alarm) /\ DOMAIN View(list) = 1..Len(list) /\ Len(list) \in Nat
      /\ \A i \in 1..Len(list) : View(list)[i] = [h |-> list[i].h, due |-> Due(list, i)]
  BY <1>1, ViewEntries
<1>3. ASSUME NEW i \in 1..Len(list), NEW j \in 1..Len(list), i < j
      PROVE  View(list)[i].due <= View(list)[j].due
  <2>1. i \in 0..Len(list) /\ j \in 0..Len(list) /\ i <= j
    BY <1>2, <1>3
  <2>2. Due(list, i) <= Due(list, j)
    BY <1>1, <2>1, DueGrows
  <2>3. View(list)[i].due = Due(list, i) /\ View(list)[j].due = Due(list, j)
    BY <1>2
  <2> QED BY <2>2, <2>3
<1> QED BY <1>2, <1>3, AlarmListIsView DEF Abs!Init

LEMMA SetRefines ==
  ASSUME list \in Seq(Timeout), NEW ms \in Nat, NEW h \in Handler,
         list' = SysTimeout(list, ms, h)
  PROVE  Abs!Set
<1>1. Abs!Set <=> OneIsSet(AlarmList, AlarmList')
  BY DEF Abs!Set, OneIsSet, Abs!RemoveAt, RemoveAt
<1>2. OneIsSet(View(list), View(list'))
  BY SetIsSet
<1> QED BY <1>1, <1>2, AlarmListIsView, NextAlarmListIsView

LEMMA CancelRefines ==
  ASSUME list \in Seq(Timeout), NEW h, \E i \in DOMAIN list : list[i].h = h,
         list' = SysUntimeout(list, h)
  PROVE  Abs!Cancel
<1>1. Abs!Cancel <=> OneIsCancelled(AlarmList, AlarmList')
  BY DEF Abs!Cancel, OneIsCancelled, Abs!RemoveAt, RemoveAt
<1>2. OneIsCancelled(View(list), View(list'))
  BY CancelIsCancel
<1> QED BY <1>1, <1>2, AlarmListIsView, NextAlarmListIsView

LEMMA GoOffRefines ==
  ASSUME list \in Seq(Timeout), list # <<>>, list' = Tail(list)
  PROVE  Abs!GoOff
<1>1. Abs!GoOff <=> FirstGoesOff(AlarmList, AlarmList')
  BY DEF Abs!GoOff, FirstGoesOff
<1>2. FirstGoesOff(View(list), View(list'))
  BY GoOffIsGoOff
<1> QED BY <1>1, <1>2, AlarmListIsView, NextAlarmListIsView

LEMMA StepRefines == IInv /\ [Next]_vars => [Abs!Next]_AlarmList
<1> SUFFICES ASSUME IInv, [Next]_vars, list' # list PROVE Abs!Next
  BY AlarmListIsView, NextAlarmListIsView
<1>0. list \in Seq(Timeout)
  BY DEF IInv, TypeOK
<1>1. CASE SetOneShot
  <2>1. PICK h \in OneShot, ms \in Delays : list' = SysTimeout(list, ms, h)
    BY <1>1 DEF SetOneShot
  <2>2. h \in Handler /\ ms \in Nat
    BY ConstantsAssumption DEF Handler
  <2> QED BY <1>0, <2>1, <2>2, SetRefines DEF Abs!Next
<1>2. CASE CancelOneShot
  <2>1. PICK h \in OneShot : /\ \E i \in DOMAIN list : list[i].h = h
                             /\ list' = SysUntimeout(list, h)
    BY <1>2 DEF CancelOneShot
  <2> QED BY <1>0, <2>1, CancelRefines DEF Abs!Next
<1>3. CASE RegisterPcb
  <2>1. list' = SysTimeout(list, Interval[Tcp], Tcp)
    BY <1>3 DEF RegisterPcb, TcpTimerNeeded
  <2>2. Interval[Tcp] \in Nat /\ Tcp \in Handler
    BY IntervalIsNat
  <2> QED BY <1>0, <2>1, <2>2, SetRefines DEF Abs!Next
<1>4. CASE RunHandler
  <2>1. list # <<>> /\ list' = Tail(list)
    BY <1>4 DEF RunHandler, Expired
  <2> QED BY <1>0, <2>1, GoOffRefines DEF Abs!Next
<1>5. CASE HandlerReturns
  <2>1. PICK h \in {Tcp} \cup Periodic : list' = SysTimeout(list, Interval[h], h)
    BY <1>5 DEF HandlerReturns, TcpTimer, OtherTimer
  <2>2. Interval[h] \in Nat /\ h \in Handler
    BY IntervalIsNat
  <2> QED BY <1>0, <2>1, <2>2, SetRefines DEF Abs!Next
<1> QED BY <1>1, <1>2, <1>3, <1>4, <1>5
        DEF Next, vars, RemoveLastPcb, CheckTimeouts, EndCheck, RestartTimeouts, Tick

\* sys_timeout, sys_untimeout and the loop of sys_check_timeouts implement a
\* list of alarms: setting or cancelling one, from a handler too, leaves the
\* time of every other alone (timers.c:266-396).
THEOREM Implements == Spec => ImplementsAlarms
<1>1. Init => Abs!Init
  BY InitRefines
<1>2. IInv /\ [Next]_vars => [Abs!Next]_AlarmList
  BY StepRefines
<1> QED BY <1>1, <1>2, InitInv, StepInv, PTL DEF Spec, ImplementsAlarms, Abs!Spec
============================================================================
