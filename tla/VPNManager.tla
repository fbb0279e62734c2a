----------------------------- MODULE VPNManager -----------------------------
(***************************************************************************)
(* The app's side of the VPN: VPNManager, which keeps one NetworkExtension *)
(* configuration ("manager") and starts and stops its tunnel, and the      *)
(* header of the home screen, which shows its status and has the button.   *)
(*                                                                         *)
(* Every call to the preferences (loadAllFromPreferences, saveToPrefer-    *)
(* ences, loadFromPreferences, removeFromPreferences) is asynchronous: the *)
(* handler puts it in "requests" and the rest of the handler runs in its   *)
(* completion, when the world may have moved on.  The preferences and the  *)
(* tunnels live in the system and outlive the app.                         *)
(*                                                                         *)
(* External, modelled from how VPNManager uses them: the preferences       *)
(* answer one request at a time, read or write and call the completion;    *)
(* every status change of a connection is posted to the observers of that  *)
(* connection and delivered later on the main queue; one tunnel is up at a *)
(* time.                                                                   *)
(***************************************************************************)
EXTENDS Naturals, SequencesExt

CONSTANTS
    Config,      \* references to Config objects
    Data,        \* what asDict() can return for one
    Manager,     \* NETunnelProviderManager objects
    Nil,
    Installed,   \* the managers saved before the app's first launch
    Faults,      \* the requests that may fail: "load", "save", "reload"
    Outside,     \* what the user does in Settings: "start", "remove"
    InOrder,     \* whether requests are answered in the order they are made
    MaxRequests, \* bound: a tap finds fewer requests waiting than this
    MaxLaunches  \* bound: how often the app is started

ASSUME ConstantsAssumption ==
    /\ Nil \notin Config \cup Data \cup Manager
    /\ Installed \in Seq(Manager) /\ IsInjective(Installed)
    /\ Faults \subseteq {"load", "save", "reload"}
    /\ Outside \subseteq {"start", "remove"}
    /\ InOrder \in BOOLEAN
    /\ MaxRequests \in Nat /\ MaxLaunches \in Nat

VARIABLES
    content,   \* what each Config object says now; the editor writes it
    chosen,    \* the value of HeaderViewModel.config: the selected Config
    config,    \* VPNManager.config
    status,    \* VPNManager.status
    shown,     \* the value of HeaderViewModel.status, which the header draws
    requests,  \* calls to the preferences not yet answered
    observers, \* managers whose connection has a status observer
    notices,   \* managers with a status notification not yet delivered
    launches,  \* how often the app was started again, for the bound
    asked,     \* history: what the last undisturbed connect asked for, or Nil
    \* The system:
    managers,  \* the saved managers, in the order loadAll returns them
    saved,     \* the providerConfiguration saved for each
    session,   \* connection.status of each
    running    \* the providerConfiguration its tunnel was started with

storeSide == <<content, chosen>>
appSide == <<config, status, shown, requests, observers, notices, launches, asked>>
system == <<managers, saved, session, running>>
vars == <<storeSide, appSide, system>>

Status == {"off", "connecting", "on", "disconnecting"}
Connection == {"invalid", "disconnected", "connecting", "connected",
               "reasserting", "disconnecting"}
Up == {"connecting", "connected", "reasserting"}

Load(why) == [op |-> why, manager |-> Nil, conf |-> Nil]
Save(m, conf) == [op |-> "save", manager |-> m, conf |-> conf]
RemoveOne(m) == [op |-> "remove", manager |-> m, conf |-> Nil]
Reload(m) == [op |-> "reload", manager |-> m, conf |-> Nil]

LoadOp == {"check", "observe", "disconnect", "connect"}
Request == {Load(why) : why \in LoadOp}
           \cup {Save(m, conf) : m \in Manager, conf \in Data}
           \cup {RemoveOne(m) : m \in Manager} \cup {Reload(m) : m \in Manager}

TypeOK ==
    /\ content \in [Config -> Data]
    /\ chosen \in Config \cup {Nil}
    /\ config \in Config \cup {Nil}
    /\ status \in Status /\ shown \in Status
    /\ requests \in Seq(Request)
    /\ observers \subseteq Manager /\ notices \subseteq observers
    /\ launches \in 0..MaxLaunches
    /\ asked \in Data \cup {Nil}
    /\ managers \in Seq(Manager)
    /\ saved \in [Manager -> Data \cup {Nil}]
    /\ session \in [Manager -> Connection]
    /\ running \in [Manager -> Data \cup {Nil}]

----------------------------------------------------------------------------
\* The switch of updateVPNStatus.
View(s) == CASE s = "connected" -> "on"
             [] s \in {"connecting", "reasserting"} -> "connecting"
             [] s = "disconnecting" -> "disconnecting"
             [] s \in {"disconnected", "invalid"} -> "off"

\* The system gives the connections new statuses and posts each change to
\* whoever observes that connection now.
SetSession(new) ==
    /\ session' = new
    /\ notices' = notices \cup {m \in observers : new[m] # session[m]}

\* The requests whose answer can be the next.
Answerable == IF InOrder THEN {1} \cap DOMAIN requests ELSE DOMAIN requests

\* Takes request i from the queue and appends those its completion makes.
Answer(i, op, more) ==
    /\ i \in Answerable
    /\ requests[i].op = op
    /\ requests' = RemoveAt(requests, i) \o more

\* managers?.first in the completion of loadAllFromPreferences, which hands
\* nil over when it fails.
First == IF managers = <<>> THEN Nil ELSE managers[1]
LoadedFirst == {First} \cup (IF "load" \in Faults THEN {Nil} ELSE {})

----------------------------------------------------------------------------
\* The button of the header: didTapButton().  It is enabled by the status
\* the header last drew, and decides on the status VPNManager has.
Connecting == \E i \in DOMAIN requests : requests[i].op \in {"connect", "save", "reload"}

\* Slips: the tap forgets to say what to connect with, or says it only once.
ConnectBlank(c) ==
    /\ requests' = Append(requests, Load("connect"))
    /\ asked' = IF Connecting THEN Nil ELSE content[c]
    /\ UNCHANGED config

ConnectOnce(c) ==
    /\ config' = IF config = Nil THEN c ELSE config
    /\ requests' = Append(requests, Load("connect"))
    /\ asked' = IF Connecting THEN Nil ELSE content[c]

\* connect(with:)
Connect(c) ==
    /\ config' = c
    /\ requests' = Append(requests, Load("connect"))
    /\ asked' = IF Connecting THEN Nil ELSE content[c]

TapConnect ==
    /\ shown \in {"off", "on"}
    /\ status = "off" /\ chosen # Nil
    /\ Len(requests) < MaxRequests
    /\ Connect(chosen)
    /\ UNCHANGED <<storeSide, status, shown, observers, notices, launches, system>>

TapDisconnect ==
    /\ shown \in {"off", "on"}
    /\ status # "off"
    /\ Len(requests) < MaxRequests
    /\ requests' = Append(requests, Load("disconnect"))
    /\ UNCHANGED <<storeSide, config, status, shown, observers, notices, launches, asked, system>>

\* Assigning VPNManager.status posts a notification, on which the header's
\* relay takes the status and setup(with:) draws it.
HeaderRefresh ==
    /\ shown # status
    /\ shown' = status
    /\ UNCHANGED <<storeSide, config, status, requests, observers, notices, launches, asked, system>>

\* check(): a completion without a manager changes nothing.
CheckLoaded(i) ==
    /\ Answer(i, "check", <<>>)
    /\ \E m \in LoadedFirst :
         status' = IF m = Nil THEN status ELSE View(session[m])
    /\ UNCHANGED <<storeSide, config, shown, observers, notices, launches, asked, system>>

\* addStatusObserver(): removeObserver(self) does not reach observers added
\* with a block, so those of earlier calls stay registered.
Observe(m) == IF m = Nil THEN observers ELSE observers \cup {m}

ObserverLoaded(i) ==
    /\ Answer(i, "observe", <<>>)
    /\ \E m \in LoadedFirst : observers' = Observe(m)
    /\ UNCHANGED <<storeSide, config, status, shown, notices, launches, asked, system>>

\* A slip: the last manager is stopped, where connect takes the first.
DisconnectLast(i) ==
    /\ Answer(i, "disconnect", <<>>)
    /\ \E last \in {IF managers = <<>> THEN Nil ELSE managers[Len(managers)]} :
         SetSession([n \in Manager |-> IF n = last /\ session[n] \in Up
                                       THEN "disconnecting" ELSE session[n]])
    /\ UNCHANGED <<storeSide, config, status, shown, observers, launches, asked, managers, saved, running>>

\* disconnect()
DisconnectLoaded(i) ==
    /\ Answer(i, "disconnect", <<>>)
    /\ \E m \in LoadedFirst :
         SetSession([n \in Manager |-> IF n = m /\ session[n] \in Up
                                       THEN "disconnecting" ELSE session[n]])
    /\ UNCHANGED <<storeSide, config, status, shown, observers, launches, asked, managers, saved, running>>

----------------------------------------------------------------------------
\* connect(): the chain of completions in loadAndCreateProviderManager.

\* A manager nothing refers to; the model gives its name to a new object.
Fresh(m) ==
    /\ m \notin ToSet(managers) \cup notices
    /\ \A i \in DOMAIN requests : requests[i].manager # m

\* guard let managers = managers else { return }: the chain ends in silence.
ConnectLoadFailed(i) ==
    /\ "load" \in Faults
    /\ Answer(i, "connect", <<>>)
    /\ UNCHANGED <<storeSide, config, status, shown, observers, notices, launches, asked, system>>

\* A slip: nothing is removed.
NoRemovals == <<>>

\* deleteDupConfig(): if there are several managers all of them, the one that
\* is about to be used too, are removed.
Removals ==
    IF Len(managers) > 1 THEN [j \in DOMAIN managers |-> RemoveOne(managers[j])] ELSE <<>>

\* A slip: the removals go out after the save.
SaveThenRemove(save) == <<save>> \o Removals

RemoveThenSave(save) == Removals \o <<save>>

\* The first manager is taken, and takes what config says at this moment.
ConnectLoaded(i) ==
    /\ managers # <<>>
    /\ Answer(i, "connect", RemoveThenSave(Save(managers[1], content[config])))
    /\ UNCHANGED <<storeSide, config, status, shown, observers, notices, launches, asked, system>>

\* createProviderManager(): no manager is saved, a new object is made.
ConnectCreates(i, m) ==
    /\ managers = <<>>
    /\ Fresh(m)
    /\ Answer(i, "connect", <<Save(m, content[config])>>)
    /\ observers' = observers \ {m}
    /\ UNCHANGED <<storeSide, config, status, shown, notices, launches, asked, system>>

\* A configuration leaves the preferences, and its tunnel goes down.
Position(m) == CHOOSE k \in DOMAIN managers : managers[k] = m

Forget(m) ==
    /\ managers' = IF m \in ToSet(managers) THEN RemoveAt(managers, Position(m)) ELSE managers
    /\ saved' = [saved EXCEPT ![m] = Nil]
    /\ running' = [running EXCEPT ![m] = Nil]
    /\ SetSession([session EXCEPT ![m] = "invalid"])

\* deleteDupConfig(): an error is only shown.
Removed(i) ==
    /\ Answer(i, "remove", <<>>)
    /\ Forget(requests[i].manager)
    /\ UNCHANGED <<storeSide, config, status, shown, observers, launches, asked>>

SaveFailed(i) ==
    /\ "save" \in Faults
    /\ Answer(i, "save", <<>>)
    /\ UNCHANGED <<storeSide, config, status, shown, observers, notices, launches, asked, system>>

\* What is saved is what the manager held when the call was made.
Saved(i) ==
    /\ LET m == requests[i].manager IN
         /\ Answer(i, "save", <<Reload(m)>>)
         /\ managers' = IF m \in ToSet(managers) THEN managers ELSE Append(managers, m)
         /\ saved' = [saved EXCEPT ![m] = requests[i].conf]
         /\ SetSession([session EXCEPT ![m] = IF @ = "invalid" THEN "disconnected" ELSE @])
    /\ UNCHANGED <<storeSide, config, status, shown, observers, launches, asked, running>>

\* A manager that is no longer saved cannot be loaded.
ReloadFailed(i) ==
    /\ "reload" \in Faults \/ requests[i].manager \notin ToSet(managers)
    /\ Answer(i, "reload", <<>>)
    /\ UNCHANGED <<storeSide, config, status, shown, observers, notices, launches, asked, system>>

\* The system starts the tunnel of a saved manager, and takes down any other.
Start(m) ==
    /\ SetSession([n \in Manager |-> IF n = m THEN "connecting"
                                     ELSE IF session[n] \in Up THEN "disconnecting"
                                     ELSE session[n]])
    /\ running' = [running EXCEPT ![m] = saved[m]]

\* addStatusObserver() and then startVPNTunnel, which does nothing to a tunnel
\* that is up, and refuses while it is going down.
Reloaded(i) ==
    /\ LET m == requests[i].manager IN
         /\ m \in ToSet(managers)
         /\ Answer(i, "reload", <<Load("observe")>>)
         /\ IF session[m] = "disconnected" THEN Start(m)
            ELSE UNCHANGED <<session, notices, running>>
    /\ UNCHANGED <<storeSide, config, status, shown, observers, launches, asked, managers, saved>>

----------------------------------------------------------------------------
\* The system.

\* The tunnel of m comes up, loses its way, goes down and is down.
Move(m, from, to) ==
    /\ session[m] \in from
    /\ SetSession([session EXCEPT ![m] = to])
    /\ running' = IF to = "disconnected" THEN [running EXCEPT ![m] = Nil] ELSE running
    /\ UNCHANGED <<storeSide, config, status, shown, requests, observers, launches, asked, managers, saved>>

Established(m) == Move(m, {"connecting", "reasserting"}, "connected")
Reasserting(m) == Move(m, {"connected"}, "reasserting")
Stopped(m) == Move(m, Up, "disconnecting")
Ended(m) == Move(m, {"disconnecting"}, "disconnected")

\* The switch of the VPN in Settings, and "Delete VPN" there.
SettingsStart(m) ==
    /\ "start" \in Outside
    /\ session[m] = "disconnected"
    /\ Start(m)
    /\ asked' = Nil
    /\ UNCHANGED <<storeSide, config, status, shown, requests, observers, launches, managers, saved>>

SettingsRemove(m) ==
    /\ "remove" \in Outside
    /\ m \in ToSet(managers)
    /\ Forget(m)
    /\ UNCHANGED <<storeSide, config, status, shown, requests, observers, launches, asked>>

\* A slip: a connection that looks for its way again is let pass.
StatusSkips(m) ==
    /\ m \in notices
    /\ notices' = notices \ {m}
    /\ status' = IF session[m] = "reasserting" THEN status ELSE View(session[m])
    /\ UNCHANGED <<storeSide, config, shown, requests, observers, launches, asked, system>>

\* The observer's block: it reads the status the connection has by now.
StatusDidChange(m) ==
    /\ m \in notices
    /\ notices' = notices \ {m}
    /\ status' = View(session[m])
    /\ UNCHANGED <<storeSide, config, shown, requests, observers, launches, asked, system>>

\* A slip: one check, before the observer is there.
LaunchChecksOnce == <<Load("check"), Load("observe")>>

\* A new process: init() calls check() and addStatusObserver(), and then
\* viewDidLoad, the first to use VPNManager.shared, calls check() again.
LaunchRequests == <<Load("check"), Load("observe"), Load("check")>>

NewProcess ==
    /\ launches < MaxLaunches
    /\ launches' = launches + 1
    /\ asked' = Nil
    /\ config' = Nil
    /\ status' = "off" /\ shown' = "off"
    /\ requests' = LaunchRequests
    /\ observers' = {} /\ notices' = {}
    /\ UNCHANGED system

Relaunch == NewProcess /\ UNCHANGED storeSide

\* The store: the user edits a configuration in place or selects another.
Edit(c, d) ==
    /\ content[c] # d
    /\ content' = [content EXCEPT ![c] = d]
    /\ asked' = Nil
    /\ UNCHANGED <<chosen, config, status, shown, requests, observers, notices, launches, system>>

Choose(c) ==
    /\ chosen # c
    /\ chosen' = c
    /\ asked' = Nil
    /\ UNCHANGED <<content, config, status, shown, requests, observers, notices, launches, system>>

----------------------------------------------------------------------------
\* The first launch, with nothing running.
FirstLaunch ==
    /\ config = Nil
    /\ status = "off" /\ shown = "off"
    /\ requests = LaunchRequests
    /\ observers = {} /\ notices = {}
    /\ launches = 0
    /\ asked = Nil
    /\ managers = Installed
    /\ saved \in {f \in [Manager -> Data \cup {Nil}] :
                    \A m \in Manager : f[m] = Nil <=> m \notin ToSet(Installed)}
    /\ session = [m \in Manager |-> IF m \in ToSet(Installed) THEN "disconnected" ELSE "invalid"]
    /\ running = [m \in Manager |-> Nil]

Init ==
    /\ content \in [Config -> Data]
    /\ chosen \in Config \cup {Nil}
    /\ FirstLaunch

Completion ==
    \E i \in DOMAIN requests :
        \/ CheckLoaded(i) \/ ObserverLoaded(i) \/ DisconnectLoaded(i)
        \/ ConnectLoadFailed(i) \/ ConnectLoaded(i) \/ (\E m \in Manager : ConnectCreates(i, m))
        \/ Removed(i) \/ SaveFailed(i) \/ Saved(i) \/ ReloadFailed(i) \/ Reloaded(i)

System ==
    \E m \in Manager :
        \/ Established(m) \/ Reasserting(m) \/ Stopped(m) \/ Ended(m)
        \/ SettingsStart(m) \/ SettingsRemove(m)

Notification == \E m \in Manager : StatusDidChange(m)

User ==
    \/ TapConnect \/ TapDisconnect
    \/ \E c \in Config, d \in Data : Edit(c, d)
    \/ \E c \in Config \cup {Nil} : Choose(c)

Next == User \/ HeaderRefresh \/ Completion \/ System \/ Notification \/ Relaunch

Spec == Init /\ [][Next]_vars

\* The main queue runs what is put in it and the system answers.  The user,
\* the tunnels and the launches owe nothing.
Fairness ==
    /\ WF_vars(Completion)
    /\ \A m \in Manager : WF_vars(StatusDidChange(m))
    /\ WF_vars(HeaderRefresh)

FairSpec == Spec /\ Fairness
----------------------------------------------------------------------------
\* Properties

Waiting(op) == \E i \in DOMAIN requests : requests[i].op = op

\* Once the launch's checks are answered and the notifications delivered, the
\* status the app has is the status of the first manager's connection.  It is
\* the order of the three launch requests that closes the gap between the
\* first check() and the registration of the observer.
\* For a manager saved before the launch, with loads that succeed.
StatusCurrent ==
    ~Waiting("check") /\ notices = {} =>
        status = View(session[managers[1]])

\* A connect that finds duplicates removes every manager, its own included,
\* with requests that are under way when it saves its own; another connect
\* may do the same in between.  Still its manager is there when it loads it
\* back: each removal of it that comes before is followed by a save.  Nothing
\* but the user, in Settings, takes it away between the save and the start.
\* For requests answered in order, and, where a manager is deleted in Settings
\* or made by the taps themselves, for taps that find few of them waiting: it
\* takes one that finds five to be answered after a deletion, or seven on a
\* first launch, to break it.
ReloadFindsManager ==
    \A i, j \in DOMAIN requests :
        /\ j < i /\ requests[i].manager = requests[j].manager
        /\ requests[i].op = "reload" /\ requests[j].op = "remove"
        => \E k \in j..i : requests[k].op = "save" /\ requests[k].manager = requests[i].manager

\* A connect waits with config set: the forced unwrapping of VPNManager.config
\* in setConfig(self.config), read only in a completion, does not trap, in
\* whatever order taps, restarts and completions come.
ConfigSetWhenRead == Waiting("connect") => config # Nil

\* If a tap on connect came when no earlier connect was under way, and since
\* then the user has left the button, the selection and the texts alone, then
\* a tunnel that starts is started with what the selected configuration said.
StartStep ==
    \A m \in Manager :
        running[m] = Nil /\ running'[m] # Nil /\ asked' # Nil => running'[m] = asked'
StartRunsWhatWasAsked == [][StartStep]_vars

\* A connect that waits while there are duplicates leaves one manager.
DuplicatesCleared == Waiting("connect") /\ Len(managers) > 1 ~> Len(managers) = 1

\* A disconnect the user asked for takes down the tunnel that was up.
DisconnectHonoured ==
    \A m \in Manager :
        Waiting("disconnect") /\ m = First /\ session[m] = "connected"
            ~> session[m] # "connected"

\* The status VPNManager keeps and the header draws follow the connection.
StatusView == INSTANCE StatusView WITH
    actual <- View(session[managers[1]]), status <- status, shown <- shown
FollowsConnection == StatusView!Spec
============================================================================
