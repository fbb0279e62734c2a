-------------------------- MODULE VPNManagerProofs --------------------------
(***************************************************************************)
(* VPNManager for every set of configurations, texts and managers: its     *)
(* type invariant in every environment, and, for a user whose manager was  *)
(* saved before the launch, that its status follows the connection.        *)
(***************************************************************************)
EXTENDS VPNManager, SequenceLemmas, SequenceTheorems, TLAPS

-----------------------------------------------------------------------------
\* Lemmas about the operators of the model

\* A request's operation says what it carries.
LEMMA RequestKinds ==
  ASSUME NEW r \in Request
  PROVE  /\ r.op \in LoadOp \cup {"save", "remove", "reload"}
         /\ r.op \in LoadOp => r.manager = Nil
         /\ r.op \in {"save", "remove", "reload"} => r.manager \in Manager
         /\ r.op = "save" => r.conf \in Data
  BY DEF Request, LoadOp, Load, Save, RemoveOne, Reload

\* The requests the handlers make are requests.
LEMMA RequestsMade ==
  /\ \A why \in LoadOp : Load(why) \in Request
  /\ \A m \in Manager : RemoveOne(m) \in Request /\ Reload(m) \in Request
  /\ \A m \in Manager, conf \in Data : Save(m, conf) \in Request
  BY DEF Request

\* The switch of updateVPNStatus covers every status and gives one.
LEMMA ViewType == \A s \in Connection : View(s) \in Status
  BY DEF Connection, View, Status

\* An answer leaves the other requests and those its completion made.
LEMMA AnswerLeaves ==
  ASSUME requests \in Seq(Request), NEW i \in DOMAIN requests, NEW op,
         NEW more \in Seq(Request), Answer(i, op, more)
  PROVE  /\ requests' \in Seq(Request)
         /\ requests[i].op = op
         /\ \A j \in DOMAIN requests' :
              \/ \E k \in DOMAIN requests : requests'[j] = requests[k]
              \/ \E k \in DOMAIN more : requests'[j] = more[k]
<1> DEFINE rest == RemoveAt(requests, i)
<1>1. /\ rest \in Seq(Request)
      /\ DOMAIN rest = 1 .. Len(requests) - 1 /\ Len(rest) = Len(requests) - 1
      /\ \A j \in DOMAIN rest : \E k \in DOMAIN requests : rest[j] = requests[k]
  <2>1. /\ rest \in Seq(Request)
        /\ Len(rest) = Len(requests) - 1
        /\ DOMAIN rest = 1 .. Len(requests) - 1
        /\ \A j \in 1 .. Len(requests) - 1 :
             rest[j] = IF j < i THEN requests[j] ELSE requests[j + 1]
    BY RemoveAtEntries
  <2> HIDE DEF rest
  <2>2. DOMAIN requests = 1 .. Len(requests) /\ Len(requests) \in Nat \ {0}
    OBVIOUS
  <2>3. ASSUME NEW j \in DOMAIN rest
        PROVE  \E k \in DOMAIN requests : rest[j] = requests[k]
    <3>1. j \in DOMAIN requests /\ j + 1 \in DOMAIN requests
      BY <2>1, <2>2
    <3> QED BY <2>1, <3>1
  <2> QED BY <2>1, <2>3
<1> HIDE DEF rest
<1>2. /\ rest \o more \in Seq(Request)
      /\ Len(rest \o more) = Len(rest) + Len(more)
      /\ \A j \in 1 .. Len(rest) + Len(more) :
           (rest \o more)[j] = IF j <= Len(rest) THEN rest[j] ELSE more[j - Len(rest)]
  BY <1>1, ConcatProperties
<1>3. requests' = rest \o more /\ requests[i].op = op
  BY DEF Answer, rest
<1>4. ASSUME NEW j \in DOMAIN (rest \o more)
      PROVE  \/ \E k \in DOMAIN requests : (rest \o more)[j] = requests[k]
             \/ \E k \in DOMAIN more : (rest \o more)[j] = more[k]
  <2>1. j \in 1 .. Len(rest) + Len(more) /\ Len(rest) \in Nat /\ Len(more) \in Nat
    BY <1>1, <1>2
  <2>2. CASE j <= Len(rest)
    BY <1>1, <1>2, <2>1, <2>2
  <2>3. CASE ~(j <= Len(rest))
    <3>1. j - Len(rest) \in DOMAIN more /\ (rest \o more)[j] = more[j - Len(rest)]
      BY <1>2, <2>1, <2>3
    <3> QED BY <3>1
  <2> QED BY <2>2, <2>3
<1> QED BY <1>2, <1>3, <1>4

\* A tap puts one more request at the end.
LEMMA RequestAppended ==
  ASSUME requests \in Seq(Request), NEW r \in Request, requests' = Append(requests, r)
  PROVE  /\ requests' \in Seq(Request)
         /\ DOMAIN requests' = 1 .. Len(requests) + 1
         /\ \A j \in DOMAIN requests : j \in DOMAIN requests' /\ requests'[j] = requests[j]
         /\ requests'[Len(requests) + 1] = r
         /\ \A j \in DOMAIN requests' : j \in DOMAIN requests \/ requests'[j] = r
<1>1. /\ Append(requests, r) \in Seq(Request)
      /\ Len(Append(requests, r)) = Len(requests) + 1
      /\ \A j \in 1 .. Len(requests) : Append(requests, r)[j] = requests[j]
      /\ Append(requests, r)[Len(requests) + 1] = r
  BY AppendProperties
<1> QED BY <1>1

\* New statuses of the connections are posted to observers only.
LEMMA SetSessionType ==
  ASSUME notices \subseteq observers, NEW new \in [Manager -> Connection], SetSession(new)
  PROVE  session' \in [Manager -> Connection] /\ notices' \subseteq observers
  BY DEF SetSession

\* The system's starting of a tunnel is well typed.
LEMMA StartType ==
  ASSUME TypeOK, NEW m \in Manager, Start(m)
  PROVE  /\ session' \in [Manager -> Connection]
         /\ notices' \subseteq observers
         /\ running' \in [Manager -> Data \cup {Nil}]
<1> USE DEF TypeOK
<1>1. [n \in Manager |-> IF n = m THEN "connecting"
                         ELSE IF session[n] \in Up THEN "disconnecting"
                         ELSE session[n]] \in [Manager -> Connection]
  BY DEF Connection
<1> QED BY <1>1, SetSessionType DEF Start

\* So is a manager's leaving the preferences.
LEMMA ForgetType ==
  ASSUME TypeOK, NEW m \in Manager, Forget(m)
  PROVE  /\ managers' \in Seq(Manager)
         /\ saved' \in [Manager -> Data \cup {Nil}]
         /\ running' \in [Manager -> Data \cup {Nil}]
         /\ session' \in [Manager -> Connection]
         /\ notices' \subseteq observers
<1> USE DEF TypeOK
<1>1. managers' \in Seq(Manager)
  <2>1. CASE m \in ToSet(managers)
    <3>1. Position(m) \in DOMAIN managers
      BY <2>1 DEF ToSet, Position
    <3> QED BY <2>1, <3>1, RemoveAtEntries DEF Forget
  <2>2. CASE m \notin ToSet(managers)
    BY <2>2 DEF Forget
  <2> QED BY <2>1, <2>2
<1>2. [session EXCEPT ![m] = "invalid"] \in [Manager -> Connection]
  BY DEF Connection
<1> QED BY <1>1, <1>2, SetSessionType DEF Forget

-----------------------------------------------------------------------------
\* The type invariant.  What a save carries is read from config, so it takes
\* the knowledge that config is set while a connect waits.
TypeInv == TypeOK /\ ConfigSetWhenRead

LEMMA InitTypeInv == Init => TypeInv
<1> SUFFICES ASSUME Init PROVE TypeInv
  OBVIOUS
<1>1. requests = LaunchRequests /\ LaunchRequests \in Seq(Request)
  BY RequestsMade DEF Init, FirstLaunch, LaunchRequests, LoadOp
<1>2. ~Waiting("connect")
  BY <1>1 DEF Waiting, LaunchRequests, Load
<1>3. TypeOK
  BY <1>1, ConstantsAssumption
     DEF Init, FirstLaunch, TypeOK, Status, Connection
<1> QED BY <1>2, <1>3 DEF TypeInv, ConfigSetWhenRead
\* No completion asks for a connect, so none can ask before config is set.
LEMMA AnswerKeeps ==
  ASSUME TypeInv, NEW i \in DOMAIN requests, NEW op,
         NEW more \in Seq(Request), Answer(i, op, more),
         \A k \in DOMAIN more : more[k].op # "connect",
         config' = config
  PROVE  /\ requests' \in Seq(Request)
         /\ requests[i] \in Request /\ requests[i].op = op
         /\ ConfigSetWhenRead'
<1> USE DEF TypeInv, TypeOK
<1>1. /\ requests' \in Seq(Request)
      /\ requests[i].op = op
      /\ \A j \in DOMAIN requests' :
           \/ \E k \in DOMAIN requests : requests'[j] = requests[k]
           \/ \E k \in DOMAIN more : requests'[j] = more[k]
  BY AnswerLeaves
<1>2. requests[i] \in Request
  OBVIOUS
<1>3. Waiting("connect")' => Waiting("connect")
  BY <1>1 DEF Waiting
<1> QED BY <1>1, <1>2, <1>3 DEF ConfigSetWhenRead

\* The same for the completions that ask for nothing more.
LEMMA AnswerOnlyKeeps ==
  ASSUME TypeInv, NEW i \in DOMAIN requests, NEW op, Answer(i, op, <<>>), config' = config
  PROVE  /\ requests' \in Seq(Request)
         /\ requests[i] \in Request /\ requests[i].op = op
         /\ ConfigSetWhenRead'
<1>1. <<>> \in Seq(Request) /\ \A k \in DOMAIN <<>> : <<>>[k].op # "connect"
  OBVIOUS
<1> QED BY <1>1, AnswerKeeps

\* And for those that ask for one thing.
LEMMA AnswerOneKeeps ==
  ASSUME TypeInv, NEW i \in DOMAIN requests, NEW op, NEW r \in Request,
         r.op # "connect", Answer(i, op, <<r>>), config' = config
  PROVE  /\ requests' \in Seq(Request)
         /\ requests[i] \in Request /\ requests[i].op = op
         /\ ConfigSetWhenRead'
<1>1. <<r>> \in Seq(Request) /\ \A k \in DOMAIN <<r>> : <<r>>[k].op # "connect"
  OBVIOUS
<1> QED BY <1>1, AnswerKeeps

\* What a load finds first is a saved manager, or nothing.
LEMMA FirstType ==
  ASSUME managers \in Seq(Manager), NEW m \in LoadedFirst
  PROVE  m \in Manager \cup {Nil}
<1>1. managers = <<>> \/ managers[1] \in Manager
  OBVIOUS
<1> QED BY <1>1 DEF LoadedFirst, First

\* The completions of check, observe and disconnect, and the ends of a chain.
LEMMA LoadedKeeps ==
  ASSUME TypeInv, NEW i \in DOMAIN requests,
         \/ CheckLoaded(i) \/ ObserverLoaded(i) \/ DisconnectLoaded(i)
         \/ ConnectLoadFailed(i) \/ SaveFailed(i) \/ ReloadFailed(i) \/ Removed(i)
  PROVE  TypeInv'
<1> USE DEF TypeInv, TypeOK, storeSide, system
<1>1. CASE CheckLoaded(i)
  <2>1. requests' \in Seq(Request) /\ ConfigSetWhenRead'
    BY <1>1, AnswerOnlyKeeps DEF CheckLoaded
  <2>2. status' \in Status
    BY <1>1, FirstType, ViewType, ConstantsAssumption DEF CheckLoaded
  <2> QED BY <1>1, <2>1, <2>2 DEF CheckLoaded
<1>2. CASE ObserverLoaded(i)
  <2>1. requests' \in Seq(Request) /\ ConfigSetWhenRead'
    BY <1>2, AnswerOnlyKeeps DEF ObserverLoaded, Observe
  <2>2. observers' \subseteq Manager /\ observers \subseteq observers'
    BY <1>2, FirstType DEF ObserverLoaded, Observe
  <2> QED BY <1>2, <2>1, <2>2 DEF ObserverLoaded, Observe
<1>3. CASE DisconnectLoaded(i)
  <2>1. requests' \in Seq(Request) /\ ConfigSetWhenRead'
    BY <1>3, AnswerOnlyKeeps DEF DisconnectLoaded
  <2>2. PICK m \in LoadedFirst :
          SetSession([n \in Manager |-> IF n = m /\ session[n] \in Up
                                        THEN "disconnecting" ELSE session[n]])
    BY <1>3 DEF DisconnectLoaded
  <2>3. [n \in Manager |-> IF n = m /\ session[n] \in Up
                           THEN "disconnecting" ELSE session[n]] \in [Manager -> Connection]
    BY DEF Connection
  <2>4. session' \in [Manager -> Connection] /\ notices' \subseteq observers
    BY <2>2, <2>3, SetSessionType
  <2> QED BY <1>3, <2>1, <2>4 DEF DisconnectLoaded
<1>4. CASE ConnectLoadFailed(i)
  <2>1. requests' \in Seq(Request) /\ ConfigSetWhenRead'
    BY <1>4, AnswerOnlyKeeps DEF ConnectLoadFailed
  <2> QED BY <1>4, <2>1 DEF ConnectLoadFailed
<1>5. CASE SaveFailed(i)
  <2>1. requests' \in Seq(Request) /\ ConfigSetWhenRead'
    BY <1>5, AnswerOnlyKeeps DEF SaveFailed
  <2> QED BY <1>5, <2>1 DEF SaveFailed
<1>6. CASE ReloadFailed(i)
  <2>1. requests' \in Seq(Request) /\ ConfigSetWhenRead'
    BY <1>6, AnswerOnlyKeeps DEF ReloadFailed
  <2> QED BY <1>6, <2>1 DEF ReloadFailed
<1>7. CASE Removed(i)
  <2>1. requests' \in Seq(Request) /\ ConfigSetWhenRead'
        /\ requests[i] \in Request /\ requests[i].op = "remove"
    BY <1>7, AnswerOnlyKeeps DEF Removed
  <2>2. requests[i].manager \in Manager
    BY <2>1, RequestKinds
  <2>3. Forget(requests[i].manager)
    BY <1>7 DEF Removed
  <2>4. /\ managers' \in Seq(Manager)
        /\ saved' \in [Manager -> Data \cup {Nil}]
        /\ running' \in [Manager -> Data \cup {Nil}]
        /\ session' \in [Manager -> Connection]
        /\ notices' \subseteq observers
    BY <2>2, <2>3, ForgetType
  <2> QED BY <1>7, <2>1, <2>4 DEF Removed
<1> QED BY <1>1, <1>2, <1>3, <1>4, <1>5, <1>6, <1>7

\* The completions of connect's chain that go on.
LEMMA ConnectKeeps ==
  ASSUME TypeInv, NEW i \in DOMAIN requests,
         \/ ConnectLoaded(i) \/ (\E m \in Manager : ConnectCreates(i, m))
         \/ Saved(i) \/ Reloaded(i)
  PROVE  TypeInv'
<1> USE DEF TypeInv, TypeOK, storeSide, system
<1>1. CASE ConnectLoaded(i)
  <2> DEFINE save == Save(managers[1], content[config])
  <2>1. requests[i].op = "connect" /\ config \in Config
    BY <1>1 DEF ConnectLoaded, Answer, ConfigSetWhenRead, Waiting
  <2>2. save \in Request /\ save.op = "save"
    <3>1. managers[1] \in Manager /\ content[config] \in Data
      BY <1>1, <2>1 DEF ConnectLoaded
    <3> QED BY <3>1, RequestsMade DEF Save
  <2>3. Removals \in Seq(Request) /\ \A k \in DOMAIN Removals : Removals[k].op = "remove"
    <3>1. \A j \in DOMAIN managers : RemoveOne(managers[j]) \in Request
      BY RequestsMade
    <3>2. [j \in DOMAIN managers |-> RemoveOne(managers[j])] \in [1 .. Len(managers) -> Request]
          /\ Len(managers) \in Nat
      BY <3>1
    <3>3. [j \in DOMAIN managers |-> RemoveOne(managers[j])] \in Seq(Request)
      BY <3>2, SeqDef
    <3> QED BY <3>3, EmptySeq DEF Removals, RemoveOne
  <2> HIDE DEF save
  <2>4. Removals \o <<save>> = Append(Removals, save)
    BY <2>2, <2>3, AppendIsConcat
  <2>5. /\ Append(Removals, save) \in Seq(Request)
        /\ \A k \in DOMAIN Append(Removals, save) : Append(Removals, save)[k].op # "connect"
    <3>1. /\ Append(Removals, save) \in Seq(Request)
          /\ Len(Append(Removals, save)) = Len(Removals) + 1
          /\ \A j \in 1 .. Len(Removals) : Append(Removals, save)[j] = Removals[j]
          /\ Append(Removals, save)[Len(Removals) + 1] = save
      BY <2>2, <2>3, AppendProperties
    <3>2. Len(Removals) \in Nat /\ DOMAIN Removals = 1 .. Len(Removals)
          /\ DOMAIN Append(Removals, save) = 1 .. Len(Removals) + 1
      BY <2>3, <3>1
    <3> QED BY <2>2, <2>3, <3>1, <3>2
  <2>6. Answer(i, "connect", Append(Removals, save)) /\ config' = config
    BY <1>1, <2>4 DEF ConnectLoaded, RemoveThenSave, save
  <2>7. requests' \in Seq(Request) /\ ConfigSetWhenRead'
    BY <2>5, <2>6, AnswerKeeps
  <2> QED BY <1>1, <2>7 DEF ConnectLoaded
<1>2. ASSUME NEW m \in Manager, ConnectCreates(i, m)
      PROVE  TypeInv'
  <2>1. config \in Config
    BY <1>2 DEF ConnectCreates, Answer, ConfigSetWhenRead, Waiting
  <2>2. Save(m, content[config]) \in Request /\ Save(m, content[config]).op # "connect"
    BY <2>1, RequestsMade DEF Save
  <2>3. requests' \in Seq(Request) /\ ConfigSetWhenRead'
    BY <1>2, <2>2, AnswerOneKeeps DEF ConnectCreates
  <2>4. notices \subseteq observers' /\ observers' \subseteq Manager
    BY <1>2 DEF ConnectCreates, Fresh
  <2> QED BY <1>2, <2>3, <2>4 DEF ConnectCreates
<1>3. CASE Saved(i)
  <2> DEFINE m == requests[i].manager
  <2>1. requests[i] \in Request /\ requests[i].op = "save"
    BY <1>3 DEF Saved, Answer
  <2>2. m \in Manager /\ requests[i].conf \in Data
    BY <2>1, RequestKinds
  <2>3. Reload(m) \in Request /\ Reload(m).op # "connect"
    BY <2>2, RequestsMade DEF Reload
  <2>4. /\ Answer(i, "save", <<Reload(m)>>)
        /\ managers' = IF m \in ToSet(managers) THEN managers ELSE Append(managers, m)
        /\ saved' = [saved EXCEPT ![m] = requests[i].conf]
        /\ SetSession([session EXCEPT ![m] = IF @ = "invalid" THEN "disconnected" ELSE @])
        /\ UNCHANGED <<storeSide, config, status, shown, observers, launches, asked, running>>
    BY <1>3 DEF Saved
  <2> HIDE DEF m
  <2>5. requests' \in Seq(Request) /\ ConfigSetWhenRead'
    BY <2>3, <2>4, AnswerOneKeeps
  <2>6. managers' \in Seq(Manager) /\ saved' \in [Manager -> Data \cup {Nil}]
    BY <2>2, <2>4
  <2>7. [session EXCEPT ![m] = IF @ = "invalid" THEN "disconnected" ELSE @]
          \in [Manager -> Connection]
    BY <2>2 DEF Connection
  <2>8. session' \in [Manager -> Connection] /\ notices' \subseteq observers
    BY <2>4, <2>7, SetSessionType
  <2> QED BY <2>4, <2>5, <2>6, <2>8
<1>4. CASE Reloaded(i)
  <2> DEFINE m == requests[i].manager
  <2>1. requests[i] \in Request /\ requests[i].op = "reload"
    BY <1>4 DEF Reloaded, Answer
  <2>2. m \in Manager
    BY <2>1, RequestKinds
  <2>3. Load("observe") \in Request /\ Load("observe").op # "connect"
    BY RequestsMade DEF Load, LoadOp
  <2>4. /\ Answer(i, "reload", <<Load("observe")>>)
        /\ IF session[m] = "disconnected" THEN Start(m)
           ELSE UNCHANGED <<session, notices, running>>
        /\ UNCHANGED <<storeSide, config, status, shown, observers, launches, asked,
                       managers, saved>>
    BY <1>4 DEF Reloaded
  <2> HIDE DEF m
  <2>5. requests' \in Seq(Request) /\ ConfigSetWhenRead'
    BY <2>3, <2>4, AnswerOneKeeps
  <2>6. /\ session' \in [Manager -> Connection]
        /\ notices' \subseteq observers
        /\ running' \in [Manager -> Data \cup {Nil}]
    BY <2>2, <2>4, StartType
  <2> QED BY <2>4, <2>5, <2>6
<1> QED BY <1>1, <1>2, <1>3, <1>4

\* The taps, the header and the store.
LEMMA UserKeeps ==
  ASSUME TypeInv, User \/ HeaderRefresh
  PROVE  TypeInv'
<1> USE DEF TypeInv, TypeOK, storeSide, system
<1>1. CASE TapConnect
  <2>1. requests' = Append(requests, Load("connect")) /\ Load("connect") \in Request
    BY <1>1, RequestsMade DEF TapConnect, Connect, LoadOp
  <2>2. requests' \in Seq(Request)
    BY <2>1, RequestAppended
  <2>3. config' \in Config /\ asked' \in Data \cup {Nil}
    BY <1>1 DEF TapConnect, Connect
  <2> QED BY <1>1, <2>2, <2>3, ConstantsAssumption DEF TapConnect, Connect, ConfigSetWhenRead
<1>2. CASE TapDisconnect
  <2>1. requests' = Append(requests, Load("disconnect")) /\ Load("disconnect") \in Request
    BY <1>2, RequestsMade DEF TapDisconnect, LoadOp
  <2>2. /\ requests' \in Seq(Request)
        /\ \A j \in DOMAIN requests' : \/ j \in DOMAIN requests /\ requests'[j] = requests[j]
                                       \/ requests'[j] = Load("disconnect")
    BY <2>1, RequestAppended
  <2>3. Waiting("connect")' => Waiting("connect")
    BY <2>2 DEF Waiting, Load
  <2> QED BY <1>2, <2>2, <2>3 DEF TapDisconnect, ConfigSetWhenRead
<1>3. CASE HeaderRefresh
  BY <1>3 DEF HeaderRefresh, ConfigSetWhenRead, Waiting
<1>4. ASSUME NEW c \in Config, NEW d \in Data, Edit(c, d)
      PROVE  TypeInv'
  BY <1>4 DEF Edit, ConfigSetWhenRead, Waiting
<1>5. ASSUME NEW c \in Config \cup {Nil}, Choose(c)
      PROVE  TypeInv'
  BY <1>5 DEF Choose, ConfigSetWhenRead, Waiting
<1> QED BY <1>1, <1>2, <1>3, <1>4, <1>5 DEF User

\* The tunnels, Settings and the notifications.
LEMMA SystemKeeps ==
  ASSUME TypeInv, NEW m \in Manager,
         \/ Established(m) \/ Reasserting(m) \/ Stopped(m) \/ Ended(m)
         \/ SettingsStart(m) \/ SettingsRemove(m) \/ StatusDidChange(m)
  PROVE  TypeInv'
<1> USE DEF TypeInv, TypeOK, storeSide, system
<1>1. ASSUME NEW from, NEW to \in Connection, Move(m, from, to)
      PROVE  TypeInv'
  <2>1. [session EXCEPT ![m] = to] \in [Manager -> Connection]
    OBVIOUS
  <2>2. session' \in [Manager -> Connection] /\ notices' \subseteq observers
    BY <1>1, <2>1, SetSessionType DEF Move
  <2>3. running' \in [Manager -> Data \cup {Nil}]
    BY <1>1 DEF Move
  <2> QED BY <1>1, <2>2, <2>3 DEF Move, ConfigSetWhenRead, Waiting
<1>2. CASE Established(m) \/ Reasserting(m) \/ Stopped(m) \/ Ended(m)
  BY <1>1, <1>2 DEF Established, Reasserting, Stopped, Ended, Connection
<1>3. CASE SettingsStart(m)
  <2>1. /\ session' \in [Manager -> Connection] /\ notices' \subseteq observers
        /\ running' \in [Manager -> Data \cup {Nil}]
    BY <1>3, StartType DEF SettingsStart
  <2> QED BY <1>3, <2>1 DEF SettingsStart, ConfigSetWhenRead, Waiting
<1>4. CASE SettingsRemove(m)
  <2>1. /\ managers' \in Seq(Manager)
        /\ saved' \in [Manager -> Data \cup {Nil}]
        /\ running' \in [Manager -> Data \cup {Nil}]
        /\ session' \in [Manager -> Connection]
        /\ notices' \subseteq observers
    BY <1>4, ForgetType DEF SettingsRemove
  <2> QED BY <1>4, <2>1 DEF SettingsRemove, ConfigSetWhenRead, Waiting
<1>5. CASE StatusDidChange(m)
  <2>1. status' \in Status
    BY <1>5, ViewType DEF StatusDidChange
  <2> QED BY <1>5, <2>1 DEF StatusDidChange, ConfigSetWhenRead, Waiting
<1> QED BY <1>2, <1>3, <1>4, <1>5

\* A new process.
LEMMA RelaunchKeeps ==
  ASSUME TypeInv, Relaunch
  PROVE  TypeInv'
<1>1. requests' = LaunchRequests /\ LaunchRequests \in Seq(Request)
  BY RequestsMade DEF Relaunch, NewProcess, LaunchRequests, LoadOp
<1>2. ~Waiting("connect")'
  BY <1>1 DEF Waiting, LaunchRequests, Load
<1>3. launches' \in 0 .. MaxLaunches
  BY ConstantsAssumption DEF TypeInv, TypeOK, Relaunch, NewProcess
<1> QED
  BY <1>1, <1>2, <1>3, ConstantsAssumption
     DEF TypeInv, TypeOK, Relaunch, NewProcess, ConfigSetWhenRead, Status,
         storeSide, system

LEMMA NextTypeInv == TypeInv /\ [Next]_vars => TypeInv'
<1> SUFFICES ASSUME TypeInv, [Next]_vars PROVE TypeInv'
  OBVIOUS
<1>1. CASE User \/ HeaderRefresh
  BY <1>1, UserKeeps
<1>2. CASE Completion
  <2>1. PICK i \in DOMAIN requests :
          \/ CheckLoaded(i) \/ ObserverLoaded(i) \/ DisconnectLoaded(i)
          \/ ConnectLoadFailed(i) \/ ConnectLoaded(i)
          \/ (\E m \in Manager : ConnectCreates(i, m))
          \/ Removed(i) \/ SaveFailed(i) \/ Saved(i) \/ ReloadFailed(i) \/ Reloaded(i)
    BY <1>2 DEF Completion
  <2> QED BY <2>1, LoadedKeeps, ConnectKeeps
<1>3. CASE System \/ Notification
  BY <1>3, SystemKeeps DEF System, Notification
<1>4. CASE Relaunch
  BY <1>4, RelaunchKeeps
<1>5. CASE UNCHANGED vars
  BY <1>5 DEF TypeInv, TypeOK, ConfigSetWhenRead, Waiting, vars, storeSide, appSide, system
<1> QED BY <1>1, <1>2, <1>3, <1>4, <1>5 DEF Next

\* Whatever fails, whatever Settings does and in whatever order the
\* preferences answer, the state stays what the code's types say, and
\* VPNManager.config is set whenever a connect's completion unwraps it.
THEOREM TypeCorrect == Spec => [](TypeOK /\ ConfigSetWhenRead)
<1>1. TypeInv => TypeOK /\ ConfigSetWhenRead
  BY DEF TypeInv
<1> QED BY InitTypeInv, NextTypeInv, <1>1, PTL DEF Spec

-----------------------------------------------------------------------------
\* The status follows the connection of the one manager that was saved before
\* the launch, when loads succeed, come back in order and Settings leaves the
\* manager where it is.
SavedBefore(M) ==
    /\ Installed = <<M>>
    /\ InOrder = TRUE
    /\ "load" \notin Faults
    /\ "remove" \notin Outside

\* Nothing ever makes or removes another manager.
OnlyManager(M) ==
    /\ managers = <<M>>
    /\ \A i \in DOMAIN requests :
         requests[i].op # "remove" /\ requests[i].manager \in {Nil, M}
    /\ observers \subseteq {M}

\* Every change of M reaches the app, and the last one it has not seen is on
\* its way.
Tracked(M) == M \in observers /\ (M \in notices \/ status = View(session[M]))

\* A check will be answered at a time when M is observed.
CheckComing(M) ==
    \E j \in DOMAIN requests :
        /\ requests[j].op = "check"
        /\ M \in observers \/ \E i \in 1 .. j - 1 : requests[i].op = "observe"

FollowInv(M) == OnlyManager(M) /\ (Tracked(M) \/ CheckComing(M))

\* The three requests of a launch have the registration before a check.
LEMMA LaunchShape ==
  /\ DOMAIN LaunchRequests = 1 .. 3
  /\ LaunchRequests[2].op = "observe" /\ LaunchRequests[3].op = "check"
  /\ \A i \in 1 .. 3 : LaunchRequests[i].op # "remove" /\ LaunchRequests[i].manager = Nil
<1>1. /\ DOMAIN LaunchRequests = 1 .. 3
      /\ LaunchRequests[1] = Load("check") /\ LaunchRequests[2] = Load("observe")
      /\ LaunchRequests[3] = Load("check")
  BY DEF LaunchRequests
<1>2. \A i \in 1 .. 3 : i \in {1, 2, 3}
  OBVIOUS
<1> QED BY <1>1, <1>2 DEF Load

\* Statuses set by the system never get away from an observer.
LEMMA SetSessionTracks ==
  ASSUME NEW M \in Manager, NEW new, SetSession(new), Tracked(M),
         observers' = observers, status' = status
  PROVE  Tracked(M)'
  BY DEF SetSession, Tracked

\* A queue that only grows, and observers that only grow, keep a check coming.
LEMMA AppendedComes ==
  ASSUME NEW M \in Manager, requests \in Seq(Request), NEW r \in Request,
         requests' = Append(requests, r), observers' = observers, CheckComing(M)
  PROVE  CheckComing(M)'
<1>1. \A j \in DOMAIN requests : j \in DOMAIN requests' /\ requests'[j] = requests[j]
  BY RequestAppended
<1>2. \A j \in DOMAIN requests : \A i \in 1 .. j - 1 : i \in DOMAIN requests
  OBVIOUS
<1> QED BY <1>1, <1>2 DEF CheckComing

\* An answer, which is the first request's, brings the check nearer, or is it.
LEMMA AnsweredComes ==
  ASSUME NEW M \in Manager, SavedBefore(M), requests \in Seq(Request),
         NEW i \in DOMAIN requests, NEW op, NEW more \in Seq(Request),
         Answer(i, op, more), observers \subseteq observers',
         op = "observe" => M \in observers', CheckComing(M)
  PROVE  CheckComing(M)' \/ (op = "check" /\ M \in observers)
<1>1. /\ i = 1 /\ requests # <<>>
      /\ requests[1].op = op
      /\ requests' = RemoveAt(requests, 1) \o more
  BY DEF Answer, Answerable, SavedBefore
<1>2. \A j \in 2 .. Len(requests) :
        j - 1 \in DOMAIN requests' /\ requests'[j - 1] = requests[j]
  BY <1>1, AnsweredQueue
<1>3. PICK j \in DOMAIN requests :
        /\ requests[j].op = "check"
        /\ M \in observers \/ \E k \in 1 .. j - 1 : requests[k].op = "observe"
  BY DEF CheckComing
<1>4. j \in 1 .. Len(requests) /\ Len(requests) \in Nat
  OBVIOUS
<1>5. CASE j = 1
  BY <1>1, <1>3, <1>5
<1>6. CASE j \in 2 .. Len(requests)
  <2>1. j - 1 \in DOMAIN requests' /\ requests'[j - 1].op = "check"
    BY <1>2, <1>3, <1>6
  <2>2. CASE M \in observers
    BY <2>1, <2>2 DEF CheckComing
  <2>3. ASSUME NEW k \in 1 .. j - 1, requests[k].op = "observe"
        PROVE  CheckComing(M)'
    <3>1. CASE k = 1
      BY <1>1, <2>1, <2>3, <3>1 DEF CheckComing
    <3>2. CASE k # 1
      <4>1. k \in 2 .. Len(requests) /\ k - 1 \in 1 .. (j - 1) - 1
        BY <1>4, <1>6, <3>2
      <4>2. requests'[k - 1].op = "observe"
        BY <1>2, <2>3, <4>1
      <4> QED BY <2>1, <4>1, <4>2 DEF CheckComing
    <3> QED BY <3>1, <3>2
  <2> QED BY <1>3, <2>2, <2>3
<1> QED BY <1>4, <1>5, <1>6

\* Requests for M alone lead to requests for M alone.
LEMMA AnsweredOnly ==
  ASSUME NEW M \in Manager, requests \in Seq(Request), OnlyManager(M),
         NEW i \in DOMAIN requests, NEW op, NEW more \in Seq(Request),
         Answer(i, op, more),
         \A k \in DOMAIN more : more[k].op # "remove" /\ more[k].manager \in {Nil, M},
         managers' = managers, observers' \subseteq {M}
  PROVE  OnlyManager(M)' /\ requests[i].op = op /\ requests[i].manager \in {Nil, M}
<1>1. /\ requests[i].op = op
      /\ \A j \in DOMAIN requests' :
           \/ \E k \in DOMAIN requests : requests'[j] = requests[k]
           \/ \E k \in DOMAIN more : requests'[j] = more[k]
  BY AnswerLeaves
<1> QED BY <1>1 DEF OnlyManager

\* The answers that are neither a check's nor an observe's.
LEMMA OtherAnswer ==
  ASSUME NEW M \in Manager, SavedBefore(M), TypeInv, FollowInv(M),
         NEW i \in DOMAIN requests, NEW op, op \notin {"check", "observe"},
         NEW more \in Seq(Request), Answer(i, op, more),
         \A k \in DOMAIN more : more[k].op # "remove" /\ more[k].manager \in {Nil, M},
         managers' = managers, observers' = observers,
         Tracked(M) => Tracked(M)'
  PROVE  FollowInv(M)'
<1>1. requests \in Seq(Request) /\ OnlyManager(M) /\ observers' \subseteq {M}
  BY DEF TypeInv, TypeOK, FollowInv, OnlyManager
<1>2. OnlyManager(M)'
  BY <1>1, AnsweredOnly
<1>3. CheckComing(M) => CheckComing(M)'
  BY <1>1, AnsweredComes
<1> QED BY <1>2, <1>3 DEF FollowInv

\* The two lists of further requests that most completions have.
LEMMA Nothing ==
  ASSUME NEW M
  PROVE  /\ <<>> \in Seq(Request)
         /\ \A k \in DOMAIN <<>> : <<>>[k].op # "remove" /\ <<>>[k].manager \in {Nil, M}
  OBVIOUS

LEMMA OneMore ==
  ASSUME NEW M, NEW r \in Request, r.op # "remove", r.manager \in {Nil, M}
  PROVE  /\ <<r>> \in Seq(Request)
         /\ \A k \in DOMAIN <<r>> : <<r>>[k].op # "remove" /\ <<r>>[k].manager \in {Nil, M}
  OBVIOUS

LEMMA CompletionFollows ==
  ASSUME NEW M \in Manager, SavedBefore(M), TypeInv, FollowInv(M), Completion
  PROVE  FollowInv(M)'
<1>0. PICK i \in DOMAIN requests :
        \/ CheckLoaded(i) \/ ObserverLoaded(i) \/ DisconnectLoaded(i)
        \/ ConnectLoadFailed(i) \/ ConnectLoaded(i)
        \/ (\E m \in Manager : ConnectCreates(i, m))
        \/ Removed(i) \/ SaveFailed(i) \/ Saved(i) \/ ReloadFailed(i) \/ Reloaded(i)
  BY DEF Completion
<1> DEFINE r == requests[i]
<1>a. /\ requests \in Seq(Request) /\ r \in Request
      /\ OnlyManager(M) /\ managers = <<M>> /\ observers \subseteq {M}
      /\ r.op # "remove" /\ r.manager \in {Nil, M}
  BY DEF TypeInv, TypeOK, FollowInv, OnlyManager
<1>b. LoadedFirst = {M} /\ ToSet(managers) = {M} /\ Len(managers) = 1
  <2>1. managers # <<>> /\ managers[1] = M /\ DOMAIN managers = {1}
    BY <1>a
  <2> QED BY <1>a, <2>1 DEF LoadedFirst, First, SavedBefore, ToSet
<1>1. CASE CheckLoaded(i)
  <2>1. /\ Answer(i, "check", <<>>)
        /\ status' = View(session[M])
        /\ UNCHANGED <<observers, notices, managers, session>>
    BY <1>1, <1>b, ConstantsAssumption DEF CheckLoaded, system
  <2>2. OnlyManager(M)'
    BY <1>a, <2>1, Nothing, AnsweredOnly
  <2>3. Tracked(M) => Tracked(M)'
    BY <2>1 DEF Tracked
  <2>4. CheckComing(M) => CheckComing(M)' \/ M \in observers
    BY <1>a, <2>1, Nothing, AnsweredComes
  <2>5. M \in observers => Tracked(M)'
    BY <2>1 DEF Tracked
  <2> QED BY <2>2, <2>3, <2>4, <2>5 DEF FollowInv
<1>2. CASE ObserverLoaded(i)
  <2>1. /\ Answer(i, "observe", <<>>)
        /\ observers' = observers \cup {M}
        /\ UNCHANGED <<status, notices, managers, session>>
    BY <1>2, <1>b, ConstantsAssumption DEF ObserverLoaded, Observe, system
  <2>2. OnlyManager(M)'
    BY <1>a, <2>1, Nothing, AnsweredOnly
  <2>3. Tracked(M) => Tracked(M)'
    BY <2>1 DEF Tracked
  <2>4. observers \subseteq observers' /\ M \in observers' /\ <<>> \in Seq(Request)
    BY <2>1, Nothing
  <2>5. ASSUME CheckComing(M)
        PROVE  CheckComing(M)' \/ ("observe" = "check" /\ M \in observers)
    BY <1>a, <2>1, <2>4, <2>5, AnsweredComes
  <2> QED BY <2>2, <2>3, <2>5 DEF FollowInv
<1>3. CASE DisconnectLoaded(i)
  <2>1. /\ Answer(i, "disconnect", <<>>)
        /\ UNCHANGED <<observers, status, managers>>
        /\ \E new : SetSession(new)
    BY <1>3 DEF DisconnectLoaded
  <2>2. Tracked(M) => Tracked(M)'
    BY <2>1, SetSessionTracks
  <2> QED BY <2>1, <2>2, Nothing, OtherAnswer
<1>4. CASE ConnectLoadFailed(i) \/ SaveFailed(i) \/ ReloadFailed(i)
  <2>1. PICK op \in {"connect", "save", "reload"} :
          /\ Answer(i, op, <<>>)
          /\ UNCHANGED <<observers, status, notices, managers, session>>
    BY <1>4 DEF ConnectLoadFailed, SaveFailed, ReloadFailed, system
  <2>2. Tracked(M) => Tracked(M)'
    BY <2>1 DEF Tracked
  <2> QED BY <2>1, <2>2, Nothing, OtherAnswer
<1>5. CASE ConnectLoaded(i)
  <2> DEFINE save == Save(managers[1], content[config])
  <2>1. save \in Request /\ save.op # "remove" /\ save.manager \in {Nil, M}
    <3>1. r.op = "connect"
      BY <1>5 DEF ConnectLoaded, Answer
    <3>2. config \in Config /\ content[config] \in Data
      BY <3>1 DEF TypeInv, TypeOK, ConfigSetWhenRead, Waiting
    <3>3. managers[1] = M
      BY <1>a
    <3> QED BY <3>2, <3>3, RequestsMade DEF Save
  <2>2. /\ Answer(i, "connect", <<>> \o <<save>>)
        /\ UNCHANGED <<observers, status, notices, managers, session>>
    BY <1>5, <1>b DEF ConnectLoaded, RemoveThenSave, Removals, system
  <2> HIDE DEF save
  <2>3. <<>> \o <<save>> = <<save>>
    BY <2>1
  <2>4. Answer(i, "connect", <<save>>)
    BY <2>2, <2>3
  <2>5. Tracked(M) => Tracked(M)'
    BY <2>2 DEF Tracked
  <2> QED BY <2>1, <2>2, <2>4, <2>5, OneMore, OtherAnswer
<1>6. ASSUME NEW m \in Manager, ConnectCreates(i, m)
      PROVE  FALSE
  BY <1>6, <1>a DEF ConnectCreates
<1>7. CASE Removed(i)
  BY <1>7, <1>a DEF Removed, Answer
<1>8. CASE Saved(i)
  <2>1. r.op = "save" /\ r.manager = M
    <3>1. r.op = "save"
      BY <1>8 DEF Saved, Answer
    <3> QED BY <1>a, <3>1, RequestKinds, ConstantsAssumption
  <2>2. /\ Answer(i, "save", <<Reload(M)>>)
        /\ UNCHANGED <<observers, status, managers>>
        /\ \E new : SetSession(new)
    BY <1>8, <1>b, <2>1 DEF Saved
  <2>3. Reload(M) \in Request /\ Reload(M).op # "remove" /\ Reload(M).manager \in {Nil, M}
    BY RequestsMade DEF Reload
  <2>4. Tracked(M) => Tracked(M)'
    BY <2>2, SetSessionTracks
  <2> QED BY <2>2, <2>3, <2>4, OneMore, OtherAnswer
<1>9. CASE Reloaded(i)
  <2>1. /\ Answer(i, "reload", <<Load("observe")>>)
        /\ UNCHANGED <<observers, status, managers>>
        /\ (\E new : SetSession(new)) \/ UNCHANGED <<session, notices>>
    BY <1>9 DEF Reloaded, Start
  <2>2. Load("observe") \in Request /\ Load("observe").op # "remove"
        /\ Load("observe").manager \in {Nil, M}
    BY RequestsMade DEF Load, LoadOp
  <2>3. Tracked(M) => Tracked(M)'
    <3>1. CASE \E new : SetSession(new)
      BY <2>1, <3>1, SetSessionTracks
    <3>2. CASE UNCHANGED <<session, notices>>
      BY <2>1, <3>2 DEF Tracked
    <3> QED BY <2>1, <3>1, <3>2
  <2> QED BY <2>1, <2>2, <2>3, OneMore, OtherAnswer
<1> QED BY <1>0, <1>1, <1>2, <1>3, <1>4, <1>5, <1>6, <1>7, <1>8, <1>9

\* Steps that leave the queue alone.
LEMMA SystemFollows ==
  ASSUME NEW M \in Manager, SavedBefore(M), TypeInv, FollowInv(M),
         System \/ Notification
  PROVE  FollowInv(M)'
<1>1. CASE System
  <2>1. UNCHANGED <<observers, status, managers, requests>> /\ \E new : SetSession(new)
    BY <1>1 DEF System, Established, Reasserting, Stopped, Ended, Move,
                SettingsStart, Start, SettingsRemove, SavedBefore
  <2>2. Tracked(M) => Tracked(M)'
    BY <2>1, SetSessionTracks
  <2> QED BY <2>1, <2>2 DEF FollowInv, OnlyManager, CheckComing
<1>2. ASSUME NEW m \in Manager, StatusDidChange(m)
      PROVE  FollowInv(M)'
  <2>1. m = M /\ M \in observers
    BY <1>2 DEF StatusDidChange, TypeInv, TypeOK, FollowInv, OnlyManager
  <2>2. /\ status' = View(session[M])
        /\ UNCHANGED <<observers, managers, session, requests>>
    BY <1>2, <2>1 DEF StatusDidChange, system
  <2> QED BY <2>1, <2>2 DEF FollowInv, OnlyManager, Tracked
<1> QED BY <1>1, <1>2 DEF Notification

LEMMA UserFollows ==
  ASSUME NEW M \in Manager, TypeInv, FollowInv(M), User \/ HeaderRefresh
  PROVE  FollowInv(M)'
<1>1. UNCHANGED <<observers, status, notices, managers, session>>
  BY DEF User, TapConnect, Connect, TapDisconnect, Edit, Choose, HeaderRefresh, system
<1>2. Tracked(M) => Tracked(M)'
  BY <1>1 DEF Tracked
<1>3. CASE \E why \in {"connect", "disconnect"} : requests' = Append(requests, Load(why))
  <2>1. PICK why \in {"connect", "disconnect"} : requests' = Append(requests, Load(why))
    BY <1>3
  <2>2. /\ requests \in Seq(Request) /\ Load(why) \in Request
        /\ Load(why).op # "remove" /\ Load(why).manager = Nil
    BY RequestsMade DEF TypeInv, TypeOK, LoadOp, Load
  <2>3. \A j \in DOMAIN requests' : \/ j \in DOMAIN requests /\ requests'[j] = requests[j]
                                    \/ requests'[j] = Load(why)
    BY <2>1, <2>2, RequestAppended
  <2>4. OnlyManager(M)'
    BY <1>1, <2>2, <2>3 DEF FollowInv, OnlyManager
  <2>5. CheckComing(M) => CheckComing(M)'
    BY <1>1, <2>1, <2>2, AppendedComes
  <2> QED BY <1>2, <2>4, <2>5 DEF FollowInv
<1>4. CASE UNCHANGED requests
  BY <1>1, <1>2, <1>4 DEF FollowInv, OnlyManager, CheckComing
<1> QED BY <1>3, <1>4 DEF User, TapConnect, Connect, TapDisconnect, Edit, Choose, HeaderRefresh

LEMMA NextFollows ==
  ASSUME NEW M \in Manager, SavedBefore(M), TypeInv, FollowInv(M), [Next]_vars
  PROVE  FollowInv(M)'
<1>1. CASE Relaunch
  <2>1. requests' = LaunchRequests /\ observers' = {} /\ managers' = managers
    BY <1>1 DEF Relaunch, NewProcess, system
  <2>2. OnlyManager(M)'
    BY <2>1, LaunchShape DEF FollowInv, OnlyManager
  <2>3. 3 \in DOMAIN requests' /\ 2 \in 1 .. 3 - 1
    BY <2>1, LaunchShape
  <2>4. CheckComing(M)'
    BY <2>1, <2>3, LaunchShape DEF CheckComing
  <2> QED BY <2>2, <2>4 DEF FollowInv
<1>2. CASE UNCHANGED vars
  BY <1>2 DEF vars, storeSide, appSide, system, FollowInv, OnlyManager, Tracked, CheckComing
<1> QED
  BY <1>1, <1>2, CompletionFollows, SystemFollows, UserFollows DEF Next

LEMMA LaunchFollows ==
  ASSUME NEW M \in Manager, SavedBefore(M), Init
  PROVE  FollowInv(M)
<1>1. requests = LaunchRequests /\ observers = {} /\ managers = <<M>>
  BY DEF Init, FirstLaunch, SavedBefore
<1>2. OnlyManager(M)
  BY <1>1, LaunchShape DEF OnlyManager
<1>3. 3 \in DOMAIN requests /\ 2 \in 1 .. 3 - 1
  BY <1>1, LaunchShape
<1>4. CheckComing(M)
  BY <1>1, <1>3, LaunchShape DEF CheckComing
<1> QED BY <1>2, <1>4 DEF FollowInv

\* Once the launch's checks are answered and the notifications delivered, the
\* status is that of the connection of the manager saved before the launch.
THEOREM StatusFollows ==
  ASSUME NEW M \in Manager, SavedBefore(M)
  PROVE  Spec => []StatusCurrent
<1>1. Init => FollowInv(M)
  BY LaunchFollows
<1>2. TypeInv /\ FollowInv(M) /\ [Next]_vars => FollowInv(M)'
  BY NextFollows
<1>3. TypeInv /\ FollowInv(M) => StatusCurrent
  BY DEF FollowInv, OnlyManager, Tracked, CheckComing, StatusCurrent, Waiting, TypeInv, TypeOK
<1> QED BY InitTypeInv, NextTypeInv, <1>1, <1>2, <1>3, PTL DEF Spec

-----------------------------------------------------------------------------
\* The steps of StatusView: the app's status is only ever taken from the
\* connection as it is, the header's from the app's, and a launch begins "off".

\* Nothing the user does and nothing the system does touches a status the app
\* has, but for what is delivered to it.
LEMMA LeavesStatuses ==
  ASSUME \/ User \/ System
         \/ \E i \in DOMAIN requests :
              \/ ObserverLoaded(i) \/ DisconnectLoaded(i) \/ ConnectLoadFailed(i) \/ ConnectLoaded(i)
              \/ (\E m \in Manager : ConnectCreates(i, m))
              \/ Removed(i) \/ SaveFailed(i) \/ Saved(i) \/ ReloadFailed(i) \/ Reloaded(i)
  PROVE  UNCHANGED <<status, shown>>
<1>1. CASE User
  BY <1>1 DEF User, TapConnect, Connect, TapDisconnect, Edit, Choose
<1>2. CASE System
  BY <1>2 DEF System, Established, Reasserting, Stopped, Ended, Move, SettingsStart, SettingsRemove
<1>3. ASSUME NEW i \in DOMAIN requests,
             \/ ObserverLoaded(i) \/ DisconnectLoaded(i) \/ ConnectLoadFailed(i) \/ ConnectLoaded(i)
             \/ (\E m \in Manager : ConnectCreates(i, m))
             \/ Removed(i) \/ SaveFailed(i) \/ Saved(i) \/ ReloadFailed(i) \/ Reloaded(i)
      PROVE  UNCHANGED <<status, shown>>
  BY <1>3 DEF ObserverLoaded, DisconnectLoaded, ConnectLoadFailed, ConnectLoaded, ConnectCreates,
              Removed, SaveFailed, Saved, ReloadFailed, Reloaded
<1> QED BY <1>1, <1>2, <1>3

LEMMA StatusStep ==
  ASSUME NEW M \in Manager, SavedBefore(M), TypeInv, TypeInv', FollowInv(M), FollowInv(M)',
         [Next]_vars
  PROVE  [StatusView!Next]_(StatusView!vars)
<1> DEFINE seen == View(session[managers[1]])
<1>1. /\ managers = <<M>> /\ managers[1] = M /\ managers' = <<M>> /\ managers'[1] = M
      /\ observers \subseteq {M} /\ session \in [Manager -> Connection]
      /\ session' \in [Manager -> Connection] /\ notices \subseteq observers
  BY DEF FollowInv, OnlyManager, TypeInv, TypeOK
<1>2. seen = View(session[M]) /\ seen' = View(session'[M]) /\ seen' \in Status
  <2>1. session'[M] \in Connection
    BY <1>1
  <2> QED BY <1>1, <2>1, ViewType
<1>3. seen' \in StatusView!Status
  BY <1>2 DEF Status, StatusView!Status, StatusView!Off
<1>4. CASE UNCHANGED <<status, shown>>
  BY <1>3, <1>4 DEF StatusView!Next, StatusView!Change
<1>5. ASSUME NEW i \in DOMAIN requests, CheckLoaded(i) PROVE StatusView!Update
  <2>1. LoadedFirst = {M} /\ M # Nil
    <3>1. managers # <<>>
      BY <1>1
    <3> QED BY <1>1, <3>1, ConstantsAssumption DEF LoadedFirst, First, SavedBefore
  <2>2. status' = View(session[M]) /\ UNCHANGED <<session, shown, managers>>
    BY <1>5, <2>1 DEF CheckLoaded, system
  <2> QED BY <1>2, <2>2 DEF StatusView!Update
<1>6. ASSUME NEW m \in Manager, StatusDidChange(m) PROVE StatusView!Update
  <2>1. m = M
    BY <1>1, <1>6 DEF StatusDidChange
  <2>2. status' = View(session[M]) /\ UNCHANGED <<session, shown, managers>>
    BY <1>6, <2>1 DEF StatusDidChange, system
  <2> QED BY <1>2, <2>2 DEF StatusView!Update
<1>7. CASE HeaderRefresh
  <2>1. shown' = status /\ UNCHANGED <<session, status, managers>>
    BY <1>7 DEF HeaderRefresh, system
  <2> QED BY <1>2, <2>1 DEF StatusView!Next, StatusView!Show
<1>8. CASE Relaunch
  <2>1. status' = "off" /\ shown' = "off" /\ UNCHANGED <<session, managers>>
    BY <1>8 DEF Relaunch, NewProcess, system
  <2> QED BY <1>2, <2>1 DEF StatusView!Next, StatusView!Restart, StatusView!Off
<1>9. CASE UNCHANGED vars
  BY <1>4, <1>9 DEF vars, appSide
<1> QED
  BY <1>4, <1>5, <1>6, <1>7, <1>8, <1>9, LeavesStatuses
     DEF Next, Completion, Notification, StatusView!Next

\* For a manager saved before the launch, VPNManager implements StatusView:
\* whatever checks, notifications, taps and launches overlap, the app's status
\* only changes to the status the connection has at that moment, the header's
\* to the app's, and neither in a step of the other.  That both catch up is
\* the rest of FollowsConnection, and left to the runs.
THEOREM StatusIsTheConnections ==
  ASSUME NEW M \in Manager, SavedBefore(M)
  PROVE  Spec => StatusView!Init /\ [][StatusView!Next]_(StatusView!vars)
<1>1. Init => StatusView!Init
  <2> SUFFICES ASSUME Init PROVE StatusView!Init
    OBVIOUS
  <2>1. /\ managers = <<M>> /\ managers[1] = M /\ ToSet(Installed) = {M}
        /\ status = "off" /\ shown = "off"
    BY DEF Init, FirstLaunch, SavedBefore, ToSet
  <2>2. session[M] = "disconnected"
    BY <2>1 DEF Init, FirstLaunch
  <2>3. View(session[managers[1]]) = "off"
    BY <2>1, <2>2 DEF View
  <2> QED BY <2>1, <2>3 DEF StatusView!Init, StatusView!Status, StatusView!Off
<1>2. /\ TypeInv /\ TypeInv' /\ FollowInv(M) /\ FollowInv(M)' /\ [Next]_vars
      => [StatusView!Next]_(StatusView!vars)
  BY StatusStep
<1>3. Spec => [](TypeInv /\ FollowInv(M))
  <2>1. Init => FollowInv(M)
    BY LaunchFollows
  <2>2. TypeInv /\ FollowInv(M) /\ [Next]_vars => FollowInv(M)'
    BY NextFollows
  <2> QED BY InitTypeInv, NextTypeInv, <2>1, <2>2, PTL DEF Spec
<1> QED BY <1>1, <1>2, <1>3, PTL DEF Spec

-----------------------------------------------------------------------------
\* A connect finds its manager again, however many are under way, in a life of
\* the app that found managers saved, when saves succeed, requests are answered
\* in order and Settings leaves the managers where they are.
FoundSaved(M) ==
    /\ Installed # <<>> /\ Installed[1] = M
    /\ InOrder = TRUE
    /\ "save" \notin Faults
    /\ "remove" \notin Outside
    /\ MaxLaunches = 0

\* From j to before k the queue removes, and at k it saves.
Removing(j, k) ==
    /\ k \in DOMAIN requests /\ j <= k
    /\ requests[k].op = "save"
    /\ \A l \in j .. k - 1 : requests[l].op = "remove"

Covers(j, k) ==
    \A n \in ToSet(managers) : \E l \in j .. k - 1 : requests[l].manager = n

\* Only M is ever saved, by connects that are under way or have been.
SavesOnly(M) ==
    \A i \in DOMAIN requests : requests[i].op \in {"save", "reload"} => requests[i].manager = M

\* What a connect removes it removes in one go, everything there is, and then
\* comes its save.
Blocks(M) ==
    \A j \in DOMAIN requests : requests[j].op = "remove" =>
        \E k \in DOMAIN requests :
            /\ j < k /\ Removing(j, k)
            /\ requests[j].manager = M => Covers(j, k)

\* M is the first manager, or what is left is being removed and M saved next.
FirstOrNext(M) ==
    \/ managers # <<>> /\ managers[1] = M
    \/ \E k \in DOMAIN requests : Removing(1, k) /\ Covers(1, k)

BlockInv(M) ==
    /\ SavesOnly(M)
    /\ Blocks(M)
    /\ FirstOrNext(M)
    /\ IsInjective(managers)

\* The first request is answered and more are appended: where each one is now.
LEMMA Shifted ==
  ASSUME InOrder = TRUE, requests \in Seq(Request), NEW i \in DOMAIN requests, NEW op,
         NEW more \in Seq(Request), Answer(i, op, more)
  PROVE  /\ i = 1 /\ requests[1].op = op
         /\ DOMAIN requests = 1 .. Len(requests) /\ Len(requests) \in Nat \ {0}
         /\ DOMAIN requests' = 1 .. (Len(requests) - 1 + Len(more))
         /\ \A j \in 1 .. Len(requests) - 1 : requests'[j] = requests[j + 1]
         /\ \A j \in 1 .. Len(more) : requests'[Len(requests) - 1 + j] = more[j]
<1>1. /\ i = 1 /\ requests[1].op = op
      /\ requests' = RemoveAt(requests, 1) \o more
  BY DEF Answer, Answerable
<1>2. DOMAIN requests = 1 .. Len(requests) /\ Len(requests) \in Nat \ {0} /\ Len(more) \in Nat
      /\ 1 \in DOMAIN requests
  BY <1>1
<1> DEFINE rest == RemoveAt(requests, 1)
<1>3. /\ rest \in Seq(Request) /\ Len(rest) = Len(requests) - 1
      /\ \A j \in 1 .. Len(requests) - 1 : rest[j] = requests[j + 1]
  <2>1. /\ rest \in Seq(Request) /\ Len(rest) = Len(requests) - 1
        /\ \A j \in 1 .. Len(requests) - 1 :
             rest[j] = IF j < 1 THEN requests[j] ELSE requests[j + 1]
    BY <1>2, RemoveAtEntries
  <2> HIDE DEF rest
  <2> QED BY <1>2, <2>1
<1> HIDE DEF rest
<1>4. /\ Len(rest \o more) = Len(rest) + Len(more)
      /\ DOMAIN (rest \o more) = 1 .. Len(rest) + Len(more)
      /\ \A j \in 1 .. Len(rest) + Len(more) :
           (rest \o more)[j] = IF j <= Len(rest) THEN rest[j] ELSE more[j - Len(rest)]
  <2>1. rest \o more \in Seq(Request)
    BY <1>3, ConcatProperties
  <2> QED BY <1>3, <2>1, ConcatProperties
<1>5. \A j \in 1 .. Len(requests) - 1 : (rest \o more)[j] = requests[j + 1]
  BY <1>2, <1>3, <1>4
<1>6. \A j \in 1 .. Len(more) : (rest \o more)[Len(requests) - 1 + j] = more[j]
  BY <1>2, <1>3, <1>4
<1> QED BY <1>1, <1>2, <1>3, <1>4, <1>5, <1>6 DEF rest

\* The blocks further back move up by one place.
LEMMA BlockMoves ==
  ASSUME InOrder = TRUE, requests \in Seq(Request), NEW i \in DOMAIN requests, NEW op,
         NEW more \in Seq(Request), Answer(i, op, more),
         NEW j \in DOMAIN requests, j # 1, NEW k \in DOMAIN requests, Removing(j, k)
  PROVE  /\ k - 1 \in DOMAIN requests'
         /\ j - 1 \in DOMAIN requests' /\ requests'[j - 1] = requests[j]
         /\ Removing(j - 1, k - 1)'
         /\ \A l \in j .. k - 1 : l - 1 \in (j - 1) .. (k - 1) - 1 /\ requests'[l - 1] = requests[l]
<1>1. /\ DOMAIN requests = 1 .. Len(requests) /\ Len(requests) \in Nat \ {0}
      /\ DOMAIN requests' = 1 .. (Len(requests) - 1 + Len(more))
      /\ \A n \in 1 .. Len(requests) - 1 : requests'[n] = requests[n + 1]
  BY Shifted
<1>2. Len(more) \in Nat
  OBVIOUS
<1>3. j \in 2 .. Len(requests) /\ k \in 2 .. Len(requests) /\ j <= k
  BY <1>1 DEF Removing
<1>4. \A l \in j .. k : l - 1 \in 1 .. Len(requests) - 1 /\ (l - 1) + 1 = l
  BY <1>1, <1>3
<1>5. \A l \in j .. k : requests'[l - 1] = requests[l] /\ l - 1 \in DOMAIN requests'
  BY <1>1, <1>2, <1>4
<1>6. \A l \in (j - 1) .. (k - 1) - 1 : l + 1 \in j .. k - 1 /\ (l + 1) - 1 = l
  BY <1>3
<1>7. \A l \in (j - 1) .. (k - 1) - 1 : requests'[l].op = "remove"
  <2> SUFFICES ASSUME NEW l \in (j - 1) .. (k - 1) - 1 PROVE requests'[l].op = "remove"
    OBVIOUS
  <2>1. l + 1 \in j .. k /\ (l + 1) - 1 = l /\ requests[l + 1].op = "remove"
    BY <1>3, <1>6 DEF Removing
  <2> QED BY <1>5, <2>1
<1>8. j \in j .. k /\ k \in j .. k /\ requests[k].op = "save"
  BY <1>3 DEF Removing
<1>9. requests'[k - 1].op = "save" /\ k - 1 \in DOMAIN requests' /\ j - 1 <= k - 1
  BY <1>3, <1>5, <1>8
<1>10. Removing(j - 1, k - 1)'
  BY <1>7, <1>9 DEF Removing
<1>11. \A l \in j .. k - 1 : l - 1 \in (j - 1) .. (k - 1) - 1 /\ requests'[l - 1] = requests[l]
  BY <1>3, <1>5
<1> QED BY <1>5, <1>8, <1>9, <1>10, <1>11

\* A block further back still ends in its save, and covers what is left.
LEMMA OldBlocks ==
  ASSUME NEW M \in Manager, FoundSaved(M), requests \in Seq(Request), Blocks(M),
         NEW i \in DOMAIN requests, NEW op, NEW more \in Seq(Request), Answer(i, op, more),
         ToSet(managers') \subseteq ToSet(managers) \cup {M},
         NEW j \in 1 .. Len(requests) - 1, requests'[j].op = "remove"
  PROVE  \E k \in DOMAIN requests' :
            /\ j < k /\ Removing(j, k)'
            /\ requests'[j].manager = M => Covers(j, k)'
<1>0. InOrder = TRUE
  BY DEF FoundSaved
<1>1. /\ DOMAIN requests = 1 .. Len(requests) /\ Len(requests) \in Nat \ {0}
      /\ requests'[j] = requests[j + 1]
  BY <1>0, Shifted
<1> DEFINE h == j + 1
<1>2. h \in DOMAIN requests /\ h # 1 /\ h - 1 = j /\ requests[h].op = "remove"
  BY <1>1
<1> HIDE DEF h
<1>3. PICK k \in DOMAIN requests :
        /\ h < k /\ Removing(h, k)
        /\ requests[h].manager = M => Covers(h, k)
  BY <1>2 DEF Blocks
<1>4. /\ k - 1 \in DOMAIN requests'
      /\ requests'[h - 1] = requests[h]
      /\ Removing(h - 1, k - 1)'
      /\ \A l \in h .. k - 1 : l - 1 \in (h - 1) .. (k - 1) - 1 /\ requests'[l - 1] = requests[l]
  BY <1>0, <1>2, <1>3, BlockMoves
<1>5. j < k - 1
  BY <1>1, <1>2, <1>3
<1>6. ASSUME requests'[j].manager = M
      PROVE  Covers(j, k - 1)'
  <2>1. requests[h].manager = M /\ Covers(h, k)
    BY <1>2, <1>3, <1>4, <1>6
  <2>2. h \in h .. k - 1
    BY <1>1, <1>2, <1>3
  <2> SUFFICES ASSUME NEW n \in ToSet(managers')
               PROVE  \E l \in j .. (k - 1) - 1 : requests'[l].manager = n
    BY DEF Covers, ToSet
  <2>3. PICK l \in h .. k - 1 : requests[l].manager = n
    BY <2>1, <2>2 DEF Covers
  <2>4. l - 1 \in j .. (k - 1) - 1 /\ requests'[l - 1].manager = n
    BY <1>2, <1>4, <2>3
  <2> QED BY <2>4
<1> QED BY <1>2, <1>4, <1>5, <1>6

\* While M is not the first, the head of the queue removes or saves.
LEMMA HeadOfBlock ==
  ASSUME NEW M \in Manager, requests \in Seq(Request), FirstOrNext(M), requests # <<>>,
         requests[1].op \notin {"remove", "save"}
  PROVE  managers # <<>> /\ managers[1] = M
<1> SUFFICES ASSUME NEW k \in DOMAIN requests, Removing(1, k) PROVE FALSE
  BY DEF FirstOrNext
<1>1. k \in Nat /\ k >= 1
  OBVIOUS
<1>2. CASE k = 1
  BY <1>2 DEF Removing
<1>3. CASE k # 1
  <2>1. 1 \in 1 .. k - 1
    BY <1>1, <1>3
  <2> QED BY <2>1 DEF Removing
<1> QED BY <1>2, <1>3

\* Answers that neither remove nor save.
LEMMA OtherBlocks ==
  ASSUME NEW M \in Manager, FoundSaved(M), requests \in Seq(Request), BlockInv(M),
         NEW i \in DOMAIN requests, NEW op, op \notin {"remove", "save"},
         NEW more \in Seq(Request), Answer(i, op, more),
         \A k \in DOMAIN more : /\ more[k].op # "remove"
                                /\ more[k].op \in {"save", "reload"} => more[k].manager = M,
         managers' = managers
  PROVE  BlockInv(M)'
<1>0. InOrder = TRUE /\ SavesOnly(M) /\ Blocks(M) /\ FirstOrNext(M) /\ IsInjective(managers)
  BY DEF FoundSaved, BlockInv
<1>1. /\ i = 1 /\ requests[1].op = op
      /\ DOMAIN requests = 1 .. Len(requests) /\ Len(requests) \in Nat \ {0}
      /\ DOMAIN requests' = 1 .. (Len(requests) - 1 + Len(more))
      /\ \A j \in 1 .. Len(requests) - 1 : requests'[j] = requests[j + 1]
      /\ \A j \in 1 .. Len(more) : requests'[Len(requests) - 1 + j] = more[j]
  BY <1>0, Shifted
<1>2. Len(more) \in Nat /\ DOMAIN more = 1 .. Len(more)
  OBVIOUS
<1>3. \A j \in DOMAIN requests' :
        \/ j \in 1 .. Len(requests) - 1
        \/ /\ j - (Len(requests) - 1) \in DOMAIN more
           /\ requests'[j] = more[j - (Len(requests) - 1)]
  <2> SUFFICES ASSUME NEW j \in DOMAIN requests', j \notin 1 .. Len(requests) - 1
               PROVE  /\ j - (Len(requests) - 1) \in DOMAIN more
                      /\ requests'[j] = more[j - (Len(requests) - 1)]
    OBVIOUS
  <2>1. j - (Len(requests) - 1) \in 1 .. Len(more)
        /\ Len(requests) - 1 + (j - (Len(requests) - 1)) = j
    BY <1>1, <1>2
  <2> QED BY <1>1, <1>2, <2>1
<1>4. SavesOnly(M)'
  <2> SUFFICES ASSUME NEW j \in DOMAIN requests', requests'[j].op \in {"save", "reload"}
               PROVE  requests'[j].manager = M
    BY DEF SavesOnly
  <2>1. CASE j \in 1 .. Len(requests) - 1
    <3>1. requests'[j] = requests[j + 1] /\ j + 1 \in DOMAIN requests
      BY <1>1, <2>1
    <3> QED BY <1>0, <3>1 DEF SavesOnly
  <2> QED BY <1>3, <2>1
<1>5. Blocks(M)'
  <2> SUFFICES ASSUME NEW j \in DOMAIN requests', requests'[j].op = "remove"
               PROVE  \E k \in DOMAIN requests' :
                         /\ j < k /\ Removing(j, k)'
                         /\ requests'[j].manager = M => Covers(j, k)'
    BY DEF Blocks
  <2>1. j \in 1 .. Len(requests) - 1
    BY <1>3
  <2>2. ToSet(managers') \subseteq ToSet(managers) \cup {M}
    OBVIOUS
  <2> QED BY <1>0, <2>1, <2>2, OldBlocks
<1>6. managers # <<>> /\ managers[1] = M
  BY <1>0, <1>1, HeadOfBlock
<1> QED BY <1>0, <1>4, <1>5, <1>6 DEF BlockInv, FirstOrNext

\* A manager that leaves is in the preferences no longer, and the others are.
LEMMA ForgetLeaves ==
  ASSUME managers \in Seq(Manager), IsInjective(managers), NEW m \in Manager, Forget(m)
  PROVE  /\ ToSet(managers') \subseteq ToSet(managers) \ {m}
         /\ IsInjective(managers')
         /\ managers # <<>> /\ managers[1] # m => managers' # <<>> /\ managers'[1] = managers[1]
<1>1. CASE m \notin ToSet(managers)
  BY <1>1 DEF Forget
<1>2. CASE m \in ToSet(managers)
  <2> DEFINE p == Position(m)
             rest == RemoveAt(managers, p)
             at(j) == IF j < p THEN j ELSE j + 1
  <2>1. p \in DOMAIN managers /\ managers[p] = m
    BY <1>2 DEF ToSet, Position
  <2>2. managers' = rest
    BY <1>2 DEF Forget
  <2> HIDE DEF p
  <2>3. /\ rest \in Seq(Manager) /\ Len(rest) = Len(managers) - 1
        /\ DOMAIN rest = 1 .. Len(managers) - 1
        /\ \A j \in 1 .. Len(managers) - 1 :
             rest[j] = IF j < p THEN managers[j] ELSE managers[j + 1]
    BY <2>1, RemoveAtEntries
  <2> HIDE DEF rest
  <2>4. DOMAIN managers = 1 .. Len(managers) /\ Len(managers) \in Nat /\ p \in 1 .. Len(managers)
    BY <2>1
  <2>5. \A j \in DOMAIN rest : at(j) \in DOMAIN managers /\ at(j) # p /\ rest[j] = managers[at(j)]
    BY <2>3, <2>4
  <2>6. \A j, h \in DOMAIN rest : at(j) = at(h) => j = h
    BY <2>3, <2>4
  <2> HIDE DEF at
  <2>7. \A j \in DOMAIN rest : rest[j] # m /\ rest[j] \in ToSet(managers)
    BY <2>1, <2>5 DEF IsInjective, ToSet
  <2>8. IsInjective(rest)
    BY <2>5, <2>6 DEF IsInjective
  <2>9. ASSUME managers[1] # m
        PROVE  rest # <<>> /\ rest[1] = managers[1]
    <3>1. p # 1 /\ 1 \in 1 .. Len(managers) - 1 /\ 1 < p
      BY <2>1, <2>4, <2>9
    <3> QED BY <2>3, <3>1
  <2> QED BY <2>2, <2>7, <2>8, <2>9 DEF ToSet
<1> QED BY <1>1, <1>2

\* A removal is answered: what its block has left is done still.
LEMMA RemovedBlocks ==
  ASSUME NEW M \in Manager, FoundSaved(M), TypeInv, BlockInv(M),
         NEW i \in DOMAIN requests, Removed(i)
  PROVE  BlockInv(M)'
<1>0. /\ InOrder = TRUE /\ requests \in Seq(Request) /\ managers \in Seq(Manager)
      /\ SavesOnly(M) /\ Blocks(M) /\ FirstOrNext(M) /\ IsInjective(managers)
      /\ Answer(i, "remove", <<>>) /\ <<>> \in Seq(Request)
  BY DEF FoundSaved, BlockInv, TypeInv, TypeOK, Removed
<1> DEFINE m == requests[1].manager
<1>1. /\ i = 1 /\ requests[1].op = "remove"
      /\ DOMAIN requests = 1 .. Len(requests) /\ Len(requests) \in Nat \ {0}
      /\ DOMAIN requests' = 1 .. Len(requests) - 1
      /\ \A j \in 1 .. Len(requests) - 1 : requests'[j] = requests[j + 1]
  <2> DEFINE more == <<>>
  <2>1. more \in Seq(Request) /\ Len(more) = 0 /\ Answer(i, "remove", more)
    BY <1>0
  <2> HIDE DEF more
  <2>2. /\ i = 1 /\ requests[1].op = "remove"
        /\ DOMAIN requests = 1 .. Len(requests) /\ Len(requests) \in Nat \ {0}
        /\ DOMAIN requests' = 1 .. (Len(requests) - 1 + Len(more))
        /\ \A j \in 1 .. Len(requests) - 1 : requests'[j] = requests[j + 1]
    BY <1>0, <2>1, Shifted
  <2> QED BY <2>1, <2>2
<1>2. m \in Manager /\ Forget(m) /\ 1 \in DOMAIN requests
  <2>1. requests[1] \in Request
    BY <1>0, <1>1
  <2> QED BY <1>1, <2>1, RequestKinds DEF Removed
<1>3. /\ ToSet(managers') \subseteq ToSet(managers) \ {m}
      /\ IsInjective(managers')
      /\ managers # <<>> /\ managers[1] # m => managers' # <<>> /\ managers'[1] = managers[1]
  BY <1>0, <1>2, ForgetLeaves
<1>4. SavesOnly(M)'
  <2> SUFFICES ASSUME NEW j \in DOMAIN requests', requests'[j].op \in {"save", "reload"}
               PROVE  requests'[j].manager = M
    BY DEF SavesOnly
  <2>1. requests'[j] = requests[j + 1] /\ j + 1 \in DOMAIN requests
    BY <1>1
  <2> QED BY <1>0, <2>1 DEF SavesOnly
<1>5. Blocks(M)'
  <2> SUFFICES ASSUME NEW j \in DOMAIN requests', requests'[j].op = "remove"
               PROVE  \E k \in DOMAIN requests' :
                         /\ j < k /\ Removing(j, k)'
                         /\ requests'[j].manager = M => Covers(j, k)'
    BY DEF Blocks
  <2>1. j \in 1 .. Len(requests) - 1
    BY <1>1
  <2>2. ToSet(managers') \subseteq ToSet(managers) \cup {M}
    BY <1>3
  <2> QED BY <1>0, <2>1, <2>2, OldBlocks
<1>6. ASSUME NEW k \in DOMAIN requests, Removing(1, k), Covers(1, k)
      PROVE  FirstOrNext(M)'
  <2>1. k # 1 /\ k >= 2 /\ k \in Nat
    BY <1>1, <1>6 DEF Removing
  <2>2. 2 \in DOMAIN requests /\ 2 # 1 /\ Removing(2, k)
    BY <1>1, <1>6, <2>1 DEF Removing
  <2>3. /\ k - 1 \in DOMAIN requests'
        /\ Removing(2 - 1, k - 1)'
        /\ \A l \in 2 .. k - 1 : l - 1 \in (2 - 1) .. (k - 1) - 1 /\ requests'[l - 1] = requests[l]
    BY <1>0, <2>2, BlockMoves
  <2>4. Covers(1, k - 1)'
    <3> SUFFICES ASSUME NEW n \in ToSet(managers')
                 PROVE  \E l \in 1 .. (k - 1) - 1 : requests'[l].manager = n
      BY DEF Covers, ToSet
    <3>1. n \in ToSet(managers) /\ n # m
      BY <1>3
    <3>2. PICK l \in 1 .. k - 1 : requests[l].manager = n
      BY <1>6, <3>1 DEF Covers
    <3>3. l \in 2 .. k - 1
      BY <2>1, <3>1, <3>2
    <3>4. l - 1 \in 1 .. (k - 1) - 1 /\ requests'[l - 1].manager = n
      BY <2>3, <3>2, <3>3
    <3> QED BY <3>4
  <2>5. Removing(1, k - 1)'
    BY <2>3
  <2> QED BY <2>3, <2>4, <2>5 DEF FirstOrNext
<1>7. FirstOrNext(M)'
  <2>1. CASE m = M
    <3>1. PICK k \in DOMAIN requests : 1 < k /\ Removing(1, k) /\ Covers(1, k)
      BY <1>0, <1>1, <1>2, <2>1 DEF Blocks
    <3> QED BY <1>6, <3>1
  <2>2. CASE m # M /\ managers # <<>> /\ managers[1] = M
    BY <1>3, <2>2 DEF FirstOrNext
  <2>3. CASE \E k \in DOMAIN requests : Removing(1, k) /\ Covers(1, k)
    BY <1>6, <2>3
  <2> QED BY <1>0, <2>1, <2>2, <2>3 DEF FirstOrNext
<1> QED BY <1>3, <1>4, <1>5, <1>7 DEF BlockInv

\* A save is answered: M is there, and if it had gone it is the only one.
LEMMA SavedBlocks ==
  ASSUME NEW M \in Manager, FoundSaved(M), TypeInv, BlockInv(M),
         NEW i \in DOMAIN requests, Saved(i)
  PROVE  BlockInv(M)'
<1>0. /\ InOrder = TRUE /\ requests \in Seq(Request) /\ managers \in Seq(Manager)
      /\ SavesOnly(M) /\ Blocks(M) /\ FirstOrNext(M) /\ IsInjective(managers)
  BY DEF FoundSaved, BlockInv, TypeInv, TypeOK
<1> DEFINE more == <<Reload(M)>>
<1>1. /\ i = 1 /\ requests[1].op = "save" /\ requests[1].manager = M
      /\ Answer(i, "save", more) /\ more \in Seq(Request)
      /\ managers' = IF M \in ToSet(managers) THEN managers ELSE Append(managers, M)
  <2>1. i = 1 /\ requests[i].op = "save"
    BY <1>0 DEF Saved, Answer, Answerable
  <2>2. requests[i].manager = M
    BY <1>0, <2>1 DEF SavesOnly
  <2> QED BY <2>1, <2>2, RequestsMade DEF Saved
<1>2. Len(more) = 1 /\ more[1] = Reload(M)
  OBVIOUS
<1> HIDE DEF more
<1>3. /\ DOMAIN requests = 1 .. Len(requests) /\ Len(requests) \in Nat \ {0}
      /\ DOMAIN requests' = 1 .. Len(requests)
      /\ \A j \in 1 .. Len(requests) - 1 : requests'[j] = requests[j + 1]
      /\ requests'[Len(requests)] = Reload(M)
  <2>1. /\ DOMAIN requests = 1 .. Len(requests) /\ Len(requests) \in Nat \ {0}
        /\ DOMAIN requests' = 1 .. (Len(requests) - 1 + Len(more))
        /\ \A j \in 1 .. Len(requests) - 1 : requests'[j] = requests[j + 1]
        /\ \A j \in 1 .. Len(more) : requests'[Len(requests) - 1 + j] = more[j]
    BY <1>0, <1>1, Shifted
  <2> QED BY <1>2, <2>1
<1>4. SavesOnly(M)'
  <2> SUFFICES ASSUME NEW j \in DOMAIN requests', requests'[j].op \in {"save", "reload"}
               PROVE  requests'[j].manager = M
    BY DEF SavesOnly
  <2>1. CASE j \in 1 .. Len(requests) - 1
    <3>1. requests'[j] = requests[j + 1] /\ j + 1 \in DOMAIN requests
      BY <1>3, <2>1
    <3> QED BY <1>0, <3>1 DEF SavesOnly
  <2>2. CASE j = Len(requests)
    BY <1>3, <2>2 DEF Reload
  <2> QED BY <1>3, <2>1, <2>2
<1>5. Blocks(M)'
  <2> SUFFICES ASSUME NEW j \in DOMAIN requests', requests'[j].op = "remove"
               PROVE  \E k \in DOMAIN requests' :
                         /\ j < k /\ Removing(j, k)'
                         /\ requests'[j].manager = M => Covers(j, k)'
    BY DEF Blocks
  <2>1. j # Len(requests)
    BY <1>3 DEF Reload
  <2>2. j \in 1 .. Len(requests) - 1
    BY <1>3, <2>1
  <2>3. ToSet(managers') \subseteq ToSet(managers) \cup {M}
    BY <1>0, <1>1 DEF ToSet
  <2> QED BY <1>0, <1>1, <2>2, <2>3, OldBlocks
<1>6. CASE managers # <<>> /\ managers[1] = M
  <2>1. M \in ToSet(managers)
    BY <1>0, <1>6 DEF ToSet
  <2>2. managers' = managers
    BY <1>1, <2>1
  <2> QED BY <1>0, <1>4, <1>5, <1>6, <2>2 DEF BlockInv, FirstOrNext
<1>7. CASE ~(managers # <<>> /\ managers[1] = M)
  <2>1. PICK k \in DOMAIN requests : Removing(1, k) /\ Covers(1, k)
    BY <1>0, <1>7 DEF FirstOrNext
  <2>2. k = 1
    <3> SUFFICES ASSUME k # 1 PROVE FALSE
      OBVIOUS
    <3>1. 1 \in 1 .. k - 1
      BY <1>3
    <3> QED BY <1>1, <2>1, <3>1 DEF Removing
  <2>3. ToSet(managers) = {}
    BY <2>1, <2>2 DEF Covers
  <2>4. managers = <<>>
    <3> SUFFICES ASSUME managers # <<>> PROVE FALSE
      OBVIOUS
    <3>1. 1 \in DOMAIN managers
      BY <1>0
    <3> QED BY <2>3, <3>1 DEF ToSet
  <2>5. managers' = <<M>>
    BY <1>1, <2>3, <2>4
  <2>6. IsInjective(managers')
    BY <2>5 DEF IsInjective
  <2>7. managers' # <<>> /\ managers'[1] = M
    BY <2>5
  <2> QED BY <1>4, <1>5, <2>6, <2>7 DEF BlockInv, FirstOrNext
<1> QED BY <1>6, <1>7

\* What a connect that found managers asks for: away with all there are, if
\* they are several, and then its save.
LEMMA ConnectAsks ==
  ASSUME managers \in Seq(Manager), NEW r \in Request, r.op = "save"
  PROVE  /\ RemoveThenSave(r) \in Seq(Request)
         /\ Len(RemoveThenSave(r)) = 1 \/ Len(RemoveThenSave(r)) = Len(managers) + 1
         /\ \A h \in 1 .. Len(RemoveThenSave(r)) - 1 :
              RemoveThenSave(r)[h] = RemoveOne(managers[h])
         /\ RemoveThenSave(r)[Len(RemoveThenSave(r))] = r
<1>1. /\ Removals \in Seq(Request)
      /\ Len(Removals) = 0 \/ Len(Removals) = Len(managers)
      /\ \A h \in 1 .. Len(Removals) : Removals[h] = RemoveOne(managers[h])
  <2> DEFINE all == [j \in DOMAIN managers |-> RemoveOne(managers[j])]
  <2>1. \A j \in DOMAIN managers : RemoveOne(managers[j]) \in Request
    BY RequestsMade
  <2>2. all \in [1 .. Len(managers) -> Request] /\ Len(managers) \in Nat
    BY <2>1
  <2>3. all \in Seq(Request)
    BY <2>2, SeqDef
  <2>4. Len(all) = Len(managers) /\ \A h \in 1 .. Len(all) : all[h] = RemoveOne(managers[h])
    BY <2>2, <2>3
  <2>5. CASE Len(managers) > 1
    <3>1. Removals = all
      BY <2>5 DEF Removals
    <3> QED BY <2>3, <2>4, <3>1
  <2>6. CASE ~(Len(managers) > 1)
    <3>1. Removals = <<>>
      BY <2>6 DEF Removals
    <3>2. <<>> \in Seq(Request) /\ Len(<<>>) = 0 /\ \A h \in 1 .. Len(<<>>) : FALSE
      OBVIOUS
    <3> QED BY <3>1, <3>2
  <2> QED BY <2>5, <2>6
<1>2. RemoveThenSave(r) = Append(Removals, r)
  BY <1>1, AppendIsConcat DEF RemoveThenSave
<1>3. /\ Append(Removals, r) \in Seq(Request)
      /\ Len(Append(Removals, r)) = Len(Removals) + 1
      /\ \A h \in 1 .. Len(Removals) : Append(Removals, r)[h] = Removals[h]
      /\ Append(Removals, r)[Len(Removals) + 1] = r
  BY <1>1, AppendProperties
<1>4. Len(Removals) \in Nat /\ (Len(Removals) + 1) - 1 = Len(Removals)
  BY <1>1
<1> QED BY <1>1, <1>2, <1>3, <1>4

\* A connect's load is answered.
LEMMA ConnectLoadedBlocks ==
  ASSUME NEW M \in Manager, FoundSaved(M), TypeInv, BlockInv(M),
         NEW i \in DOMAIN requests, ConnectLoaded(i)
  PROVE  BlockInv(M)'
<1>0. /\ InOrder = TRUE /\ requests \in Seq(Request) /\ managers \in Seq(Manager)
      /\ SavesOnly(M) /\ Blocks(M) /\ FirstOrNext(M) /\ IsInjective(managers)
  BY DEF FoundSaved, BlockInv, TypeInv, TypeOK
<1> DEFINE save == Save(managers[1], content[config])
<1>1. Answer(i, "connect", RemoveThenSave(save)) /\ managers' = managers /\ managers # <<>>
  BY DEF ConnectLoaded, system
<1>2. requests[i].op = "connect" /\ i = 1 /\ requests # <<>>
  BY <1>0, <1>1 DEF Answer, Answerable
<1>3. managers[1] = M
  BY <1>0, <1>2, HeadOfBlock
<1>4. save \in Request /\ save.op = "save" /\ save.manager = M
  <2>1. config \in Config /\ content[config] \in Data
    BY <1>2 DEF TypeInv, TypeOK, ConfigSetWhenRead, Waiting
  <2> QED BY <1>3, <2>1, RequestsMade DEF Save
<1> HIDE DEF save
<1>5. PICK more \in Seq(Request), r \in Request :
        /\ Answer(i, "connect", more) /\ r.op = "save" /\ r.manager = M
        /\ Len(more) = 1 \/ Len(more) = Len(managers) + 1
        /\ \A h \in 1 .. Len(more) - 1 : more[h] = RemoveOne(managers[h])
        /\ more[Len(more)] = r
  BY <1>0, <1>1, <1>4, ConnectAsks
<1>L. PICK L \in Nat, k \in Nat : L = Len(requests) - 1 /\ k = L + Len(more)
  <2>1. Len(requests) - 1 \in Nat /\ Len(requests) - 1 + Len(more) \in Nat
    BY <1>0, <1>2, <1>5
  <2> QED BY <2>1
<1>6. /\ DOMAIN requests = 1 .. Len(requests) /\ Len(requests) \in Nat \ {0}
      /\ DOMAIN requests' = 1 .. (L + Len(more))
      /\ \A j \in 1 .. L : requests'[j] = requests[j + 1] /\ j + 1 \in DOMAIN requests
      /\ \A h \in 1 .. Len(more) : requests'[L + h] = more[h]
  <2>1. /\ DOMAIN requests = 1 .. Len(requests) /\ Len(requests) \in Nat \ {0}
        /\ DOMAIN requests' = 1 .. (Len(requests) - 1 + Len(more))
        /\ \A j \in 1 .. Len(requests) - 1 : requests'[j] = requests[j + 1]
        /\ \A j \in 1 .. Len(more) : requests'[Len(requests) - 1 + j] = more[j]
    BY <1>0, <1>5, Shifted
  <2>2. Len(requests) - 1 = L
    BY <1>L
  <2>3. \A j \in 1 .. L : j + 1 \in DOMAIN requests
    BY <2>1, <2>2
  <2> QED BY <2>1, <2>2, <2>3
<1>7. L \in Nat /\ Len(more) \in Nat \ {0} /\ Len(managers) \in Nat \ {0}
      /\ DOMAIN managers = 1 .. Len(managers)
  <2>1. Len(managers) \in Nat \ {0} /\ DOMAIN managers = 1 .. Len(managers)
    BY <1>0, <1>1
  <2>2. Len(more) \in Nat /\ (Len(more) = 1 \/ Len(more) = Len(managers) + 1)
    <3>1. Len(more) \in Nat
      OBVIOUS
    <3> QED BY <1>5, <3>1
  <2>3. Len(more) \in Nat \ {0}
    <3>1. CASE Len(more) = 1
      BY <3>1
    <3>2. CASE Len(more) = Len(managers) + 1
      <4>1. PICK x \in Nat : x = Len(managers)
        BY <2>1
      <4>2. Len(more) = x + 1
        BY <3>2, <4>1
      <4>3. x + 1 \in Nat \ {0}
        BY <4>1
      <4> QED BY <4>2, <4>3
    <3> QED BY <2>2, <3>1, <3>2
  <2> QED BY <2>1, <2>3
<1>8. \A j \in DOMAIN requests' : \/ j \in 1 .. L
                                 \/ \E h \in 1 .. Len(more) : j = L + h
  <2> SUFFICES ASSUME NEW j \in DOMAIN requests', j \notin 1 .. L
               PROVE  \E h \in 1 .. Len(more) : j = L + h
    OBVIOUS
  <2>1. j - L \in 1 .. Len(more) /\ j = L + (j - L)
    BY <1>6, <1>7
  <2> QED BY <2>1
<1>9. \A h \in 1 .. Len(more) :
        \/ h = Len(more) /\ requests'[L + h] = r
        \/ /\ h \in 1 .. Len(more) - 1 /\ h \in DOMAIN managers
           /\ requests'[L + h] = RemoveOne(managers[h])
  <2> SUFFICES ASSUME NEW h \in 1 .. Len(more), h # Len(more)
               PROVE  /\ h \in 1 .. Len(more) - 1 /\ h \in DOMAIN managers
                      /\ requests'[L + h] = RemoveOne(managers[h])
    BY <1>5, <1>6
  <2>1. h \in 1 .. Len(more) - 1 /\ h \in DOMAIN managers
    BY <1>5, <1>7
  <2> QED BY <1>5, <1>6, <2>1
<1>10. SavesOnly(M)'
  <2> SUFFICES ASSUME NEW j \in DOMAIN requests', requests'[j].op \in {"save", "reload"}
               PROVE  requests'[j].manager = M
    BY DEF SavesOnly
  <2>1. CASE j \in 1 .. L
    <3>1. j + 1 \in DOMAIN requests /\ requests'[j] = requests[j + 1]
      BY <1>6, <2>1
    <3> QED BY <1>0, <3>1 DEF SavesOnly
  <2>2. ASSUME NEW h \in 1 .. Len(more), j = L + h
        PROVE  requests'[j].manager = M
    <3>1. requests'[j].op # "remove"
      OBVIOUS
    <3>2. requests'[j] = r \/ \E n \in DOMAIN managers : requests'[j] = RemoveOne(managers[n])
      BY <1>9, <2>2
    <3> QED BY <1>5, <3>1, <3>2 DEF RemoveOne
  <2> QED BY <1>8, <2>1, <2>2
<1>11. k \in DOMAIN requests' /\ requests'[k] = r
  <2>1. Len(more) \in 1 .. Len(more) /\ k \in 1 .. (L + Len(more))
    BY <1>L, <1>7
  <2>2. requests'[L + Len(more)] = more[Len(more)]
    BY <1>6, <2>1
  <2>3. more[Len(more)] = r
    BY <1>5
  <2> QED BY <1>L, <1>6, <2>1, <2>2, <2>3
<1>12. ASSUME NEW h \in 1 .. Len(more), requests'[L + h].op = "remove"
       PROVE  /\ L + h < k /\ Removing(L + h, k)'
              /\ requests'[L + h].manager = M => Covers(L + h, k)'
  <2>1. /\ h \in 1 .. Len(more) - 1 /\ h \in DOMAIN managers
        /\ requests'[L + h] = RemoveOne(managers[h])
    BY <1>5, <1>9, <1>12
  <2>2. L + h < k
    BY <1>L, <1>7, <2>1
  <2>3. Removing(L + h, k)'
    <3> SUFFICES ASSUME NEW l \in L + h .. k - 1
                 PROVE  requests'[l].op = "remove"
      BY <1>5, <1>11, <2>2 DEF Removing
    <3>1. l - L \in 1 .. Len(more) /\ l - L # Len(more) /\ L + (l - L) = l
      BY <1>L, <1>7, <2>1
    <3>2. requests'[L + (l - L)] = RemoveOne(managers[l - L])
      BY <1>9, <3>1
    <3> QED BY <3>1, <3>2 DEF RemoveOne
  <2>4. ASSUME requests'[L + h].manager = M
        PROVE  Covers(L + h, k)'
    <3>1. managers[h] = M
      BY <2>1, <2>4 DEF RemoveOne
    <3>2. h = 1
      BY <1>0, <1>3, <1>7, <2>1, <3>1 DEF IsInjective
    <3>3. Len(more) = Len(managers) + 1
      BY <1>5, <1>L, <1>7, <2>1
    <3> SUFFICES ASSUME NEW n \in ToSet(managers')
                 PROVE  \E l \in L + h .. k - 1 : requests'[l].manager = n
      BY DEF Covers, ToSet
    <3>4. PICK g \in DOMAIN managers : managers[g] = n
      BY <1>1 DEF ToSet
    <3>5. g \in 1 .. Len(more) /\ g # Len(more) /\ L + g \in L + h .. k - 1
      BY <1>L, <1>7, <3>2, <3>3
    <3>6. requests'[L + g] = RemoveOne(managers[g])
      BY <1>9, <3>5
    <3>7. requests'[L + g].manager = n
      BY <3>4, <3>6 DEF RemoveOne
    <3> QED BY <3>5, <3>7
  <2> QED BY <2>2, <2>3, <2>4
<1>13. Blocks(M)'
  <2> SUFFICES ASSUME NEW j \in DOMAIN requests', requests'[j].op = "remove"
               PROVE  \E e \in DOMAIN requests' :
                         /\ j < e /\ Removing(j, e)'
                         /\ requests'[j].manager = M => Covers(j, e)'
    BY DEF Blocks
  <2>1. CASE j \in 1 .. L
    <3>1. j \in 1 .. Len(requests) - 1
      BY <1>L, <2>1
    <3>2. ToSet(managers') \subseteq ToSet(managers) \cup {M}
      BY <1>1
    <3> QED BY <1>0, <1>5, <3>1, <3>2, OldBlocks
  <2>2. ASSUME NEW h \in 1 .. Len(more), j = L + h
        PROVE  /\ j < k /\ Removing(j, k)'
               /\ requests'[j].manager = M => Covers(j, k)'
    BY <1>12, <2>2
  <2> QED BY <1>8, <1>11, <2>1, <2>2
<1> QED BY <1>0, <1>1, <1>3, <1>10, <1>13 DEF BlockInv, FirstOrNext

\* A tap puts a load at the end and leaves the blocks.
LEMMA TapBlocks ==
  ASSUME NEW M \in Manager, TypeInv, BlockInv(M), NEW why \in LoadOp,
         requests' = Append(requests, Load(why)), managers' = managers
  PROVE  BlockInv(M)'
<1>0. /\ requests \in Seq(Request)
      /\ SavesOnly(M) /\ Blocks(M) /\ FirstOrNext(M) /\ IsInjective(managers)
  BY DEF BlockInv, TypeInv, TypeOK
<1>1. /\ \A j \in DOMAIN requests : j \in DOMAIN requests' /\ requests'[j] = requests[j]
      /\ \A j \in DOMAIN requests' : j \in DOMAIN requests \/ requests'[j] = Load(why)
  BY <1>0, RequestAppended, RequestsMade
<1>2. Load(why).op \notin {"remove", "save", "reload"}
  BY DEF Load, LoadOp
<1>3. \A j \in Nat \ {0}, k \in DOMAIN requests : \A l \in j .. k - 1 : l \in DOMAIN requests
  BY <1>0
<1>4. ASSUME NEW j \in Nat \ {0}, NEW k \in DOMAIN requests, Removing(j, k)
      PROVE  Removing(j, k)'
  BY <1>1, <1>3, <1>4 DEF Removing
<1>5. ASSUME NEW j \in Nat \ {0}, NEW k \in DOMAIN requests, Covers(j, k)
      PROVE  Covers(j, k)'
  <2> SUFFICES ASSUME NEW n \in ToSet(managers')
               PROVE  \E l \in j .. k - 1 : requests'[l].manager = n
    BY DEF Covers, ToSet
  <2>1. PICK l \in j .. k - 1 : requests[l].manager = n
    BY <1>5 DEF Covers
  <2> QED BY <1>1, <1>3, <2>1
<1>6. SavesOnly(M)'
  BY <1>0, <1>1, <1>2 DEF SavesOnly
<1>7. Blocks(M)'
  <2> SUFFICES ASSUME NEW j \in DOMAIN requests', requests'[j].op = "remove"
               PROVE  \E k \in DOMAIN requests' :
                         /\ j < k /\ Removing(j, k)'
                         /\ requests'[j].manager = M => Covers(j, k)'
    BY DEF Blocks
  <2>1. j \in DOMAIN requests /\ requests'[j] = requests[j] /\ j \in Nat \ {0}
    BY <1>0, <1>1, <1>2
  <2>2. PICK k \in DOMAIN requests :
          /\ j < k /\ Removing(j, k)
          /\ requests[j].manager = M => Covers(j, k)
    BY <1>0, <2>1 DEF Blocks
  <2> QED BY <1>1, <1>4, <1>5, <2>1, <2>2
<1>8. FirstOrNext(M)'
  <2>1. CASE managers # <<>> /\ managers[1] = M
    BY <2>1 DEF FirstOrNext
  <2>2. ASSUME NEW k \in DOMAIN requests, Removing(1, k), Covers(1, k)
        PROVE  FirstOrNext(M)'
    <3>1. k \in DOMAIN requests' /\ Removing(1, k)' /\ Covers(1, k)'
      BY <1>1, <1>4, <1>5, <2>2
    <3> QED BY <3>1 DEF FirstOrNext
  <2> QED BY <1>0, <2>1, <2>2 DEF FirstOrNext
<1> QED BY <1>0, <1>6, <1>7, <1>8 DEF BlockInv

LEMMA CompletionBlocks ==
  ASSUME NEW M \in Manager, FoundSaved(M), TypeInv, BlockInv(M), Completion
  PROVE  BlockInv(M)'
<1>0. PICK i \in DOMAIN requests :
        \/ CheckLoaded(i) \/ ObserverLoaded(i) \/ DisconnectLoaded(i)
        \/ ConnectLoadFailed(i) \/ ConnectLoaded(i)
        \/ (\E m \in Manager : ConnectCreates(i, m))
        \/ Removed(i) \/ SaveFailed(i) \/ Saved(i) \/ ReloadFailed(i) \/ Reloaded(i)
  BY DEF Completion
<1>1. requests \in Seq(Request)
  BY DEF TypeInv, TypeOK
<1>2. ASSUME NEW op, op \notin {"remove", "save"}, Answer(i, op, <<>>), managers' = managers
      PROVE  BlockInv(M)'
  <2> DEFINE more == <<>>
  <2>1. more \in Seq(Request) /\ Answer(i, op, more) /\ DOMAIN more = {}
    BY <1>2
  <2> HIDE DEF more
  <2> QED BY <1>1, <1>2, <2>1, OtherBlocks
<1>3. CASE CheckLoaded(i) \/ ObserverLoaded(i) \/ DisconnectLoaded(i)
           \/ ConnectLoadFailed(i) \/ ReloadFailed(i)
  BY <1>2, <1>3
     DEF CheckLoaded, ObserverLoaded, DisconnectLoaded, ConnectLoadFailed, ReloadFailed, system
<1>4. CASE Reloaded(i)
  <2>1. Answer(i, "reload", <<Load("observe")>>) /\ managers' = managers
    BY <1>4 DEF Reloaded
  <2>2. Load("observe") \in Request /\ Load("observe").op = "observe"
    BY RequestsMade DEF Load, LoadOp
  <2>3. ASSUME NEW r \in Request, r.op = "observe", Answer(i, "reload", <<r>>)
        PROVE  BlockInv(M)'
    <3> DEFINE more == <<r>>
    <3>1. more \in Seq(Request) /\ DOMAIN more = {1} /\ more[1] = r
      OBVIOUS
    <3>2. Answer(i, "reload", more)
      BY <2>3
    <3> HIDE DEF more
    <3>3. \A k \in DOMAIN more : more[k].op = "observe"
      BY <2>3, <3>1
    <3>4. "reload" \notin {"remove", "save"}
      OBVIOUS
    <3> QED BY <1>1, <2>1, <3>1, <3>2, <3>3, <3>4, OtherBlocks
  <2> QED BY <2>1, <2>2, <2>3
<1>5. ASSUME NEW m \in Manager, ConnectCreates(i, m)
      PROVE  BlockInv(M)'
  <2>1. managers = <<>> /\ requests # <<>> /\ requests[1].op = "connect"
    BY <1>1, <1>5 DEF ConnectCreates, Answer, Answerable, FoundSaved
  <2> QED BY <1>1, <2>1, HeadOfBlock DEF BlockInv
<1>6. ~SaveFailed(i)
  BY DEF SaveFailed, FoundSaved
<1> QED BY <1>0, <1>3, <1>4, <1>5, <1>6, ConnectLoadedBlocks, RemovedBlocks, SavedBlocks

LEMMA NextBlocks ==
  ASSUME NEW M \in Manager, FoundSaved(M), TypeInv, BlockInv(M), [Next]_vars
  PROVE  BlockInv(M)'
<1>0. ASSUME requests' = requests, managers' = managers
      PROVE  BlockInv(M)'
  BY <1>0 DEF BlockInv, SavesOnly, Blocks, FirstOrNext, Removing, Covers, IsInjective, ToSet
<1>1. CASE User
  <2>1. CASE TapConnect
    <3>1. requests' = Append(requests, Load("connect")) /\ managers' = managers
      BY <2>1 DEF TapConnect, Connect, system
    <3> QED BY <3>1, TapBlocks DEF LoadOp
  <2>2. CASE TapDisconnect
    <3>1. requests' = Append(requests, Load("disconnect")) /\ managers' = managers
      BY <2>2 DEF TapDisconnect, system
    <3> QED BY <3>1, TapBlocks DEF LoadOp
  <2>3. CASE (\E c \in Config, d \in Data : Edit(c, d)) \/ (\E c \in Config \cup {Nil} : Choose(c))
    BY <1>0, <2>3 DEF Edit, Choose, system
  <2> QED BY <1>1, <2>1, <2>2, <2>3 DEF User
<1>2. CASE System
  <2>1. PICK m \in Manager :
          \/ Established(m) \/ Reasserting(m) \/ Stopped(m) \/ Ended(m)
          \/ SettingsStart(m) \/ SettingsRemove(m)
    BY <1>2 DEF System
  <2>2. ~SettingsRemove(m)
    BY DEF SettingsRemove, FoundSaved
  <2> QED
    BY <1>0, <2>1, <2>2 DEF Established, Reasserting, Stopped, Ended, Move, SettingsStart
<1>3. CASE HeaderRefresh \/ Notification
  BY <1>0, <1>3 DEF HeaderRefresh, Notification, StatusDidChange, system
<1>4. ~Relaunch
  BY DEF Relaunch, NewProcess, FoundSaved, TypeInv, TypeOK
<1>5. CASE UNCHANGED vars
  BY <1>0, <1>5 DEF vars, appSide, system
<1> QED BY <1>1, <1>2, <1>3, <1>4, <1>5, CompletionBlocks DEF Next

\* A manager a connect is going to load back is not removed before, without
\* being saved again in between: for any number of managers found at the
\* launch, and of connects and disconnects under way.
THEOREM ReloadFinds ==
  ASSUME NEW M \in Manager, FoundSaved(M)
  PROVE  Spec => []ReloadFindsManager
<1>1. Init => BlockInv(M)
  <2> SUFFICES ASSUME Init PROVE BlockInv(M)
    OBVIOUS
  <2>1. requests = LaunchRequests /\ managers = Installed
    BY DEF Init, FirstLaunch
  <2>2. \A i \in DOMAIN requests : requests[i].op \notin {"remove", "save", "reload"}
    BY <2>1 DEF LaunchRequests, Load
  <2>3. managers # <<>> /\ managers[1] = M /\ IsInjective(managers)
    BY <2>1, ConstantsAssumption DEF FoundSaved
  <2> QED BY <2>2, <2>3 DEF BlockInv, SavesOnly, Blocks, FirstOrNext
<1>2. TypeInv /\ BlockInv(M) /\ [Next]_vars => BlockInv(M)'
  BY NextBlocks
<1>3. TypeInv /\ BlockInv(M) => ReloadFindsManager
  <2> SUFFICES ASSUME TypeInv, BlockInv(M),
                      NEW i \in DOMAIN requests, NEW j \in DOMAIN requests, j < i,
                      requests[i].manager = requests[j].manager,
                      requests[i].op = "reload", requests[j].op = "remove"
               PROVE  \E k \in j .. i :
                        requests[k].op = "save" /\ requests[k].manager = requests[i].manager
    BY DEF ReloadFindsManager
  <2>1. requests \in Seq(Request) /\ SavesOnly(M) /\ Blocks(M)
    BY DEF TypeInv, TypeOK, BlockInv
  <2>2. PICK k \in DOMAIN requests : j < k /\ Removing(j, k)
    BY <2>1 DEF Blocks
  <2>3. requests[k].op = "save" /\ requests[k].manager = M /\ requests[i].manager = M
    BY <2>1, <2>2 DEF Removing, SavesOnly
  <2>4. k \in j .. i
    <3> SUFFICES ASSUME ~(k <= i) PROVE FALSE
      BY <2>1, <2>2
    <3>1. i \in j .. k - 1
      BY <2>1, <2>2
    <3> QED BY <2>2, <3>1 DEF Removing
  <2> QED BY <2>3, <2>4
<1> QED BY InitTypeInv, NextTypeInv, <1>1, <1>2, <1>3, PTL DEF Spec

=============================================================================
