---------------------------- MODULE PacketTunnel ----------------------------
(***************************************************************************)
(* The extension's side of the VPN: PacketTunnelProvider, which runs in a  *)
(* process of its own.  It reads the saved configuration, makes the rules, *)
(* asks the system for network settings that send all HTTP to a proxy on   *)
(* port 9090 and, when they are applied, starts that proxy.  It observes   *)
(* the default path, and a second after the network changed it runs        *)
(* startTunnel once more to start the proxy anew.                          *)
(*                                                                         *)
(* External, modelled from how the provider uses it: the system calls      *)
(* startTunnel once in a process, answers setTunnelNetworkSettings later,  *)
(* calls stopTunnel at any time, ends the process of a tunnel that did not *)
(* start, and sets defaultPath, each change of which is observed at once.  *)
(* The provider's callbacks do not overlap.  enablePacketProcessing is     *)
(* never set, so there is no TUN interface.                                *)
(*                                                                         *)
(* The names every specification has carry a Tunnel, for ExtensionProofs   *)
(* extends this module beside two others.                                  *)
(***************************************************************************)
EXTENDS Naturals, FiniteSets

CONSTANTS
    Network,    \* satisfied paths
    NoWay,      \* a path that is not satisfied
    Conf,       \* provider configurations
    None,
    Faults,     \* what may fail: "settings", "port" (9090 is taken)
    MaxChanges  \* bound: changes of the path in the life of a process

ASSUME TunnelConstants ==
    /\ NoWay \notin Network /\ None \notin Network \cup Conf \cup {NoWay, "crash"}
    /\ Faults \subseteq {"settings", "port"}
    /\ MaxChanges \in Nat

VARIABLES
    tunnel,      \* what the system was told: "down" is "no process" too
    ended,       \* history: how the last process ended, or None
    saved,       \* protocolConfiguration.providerConfiguration
    rules,       \* what the current rules and adapters were made from
    started,     \* PacketTunnelProvider.started
    listening,   \* whether port 9090 is listened on
    connections, \* open through the proxy: the path and the rules of each
    observing,   \* whether defaultPath is observed
    defaultPath,
    lastPath,    \* PacketTunnelProvider.lastPath
    calls,       \* setTunnelNetworkSettings: how many are not yet answered
    timers,      \* restarts that wait for their second to pass
    missed,      \* history: a restart's settings failed, and none applied since
    changes      \* of the path in this process, for the bound

provider == <<started, listening, connections, observing, lastPath, timers>>
tunnelVars == <<tunnel, ended, saved, rules, provider, missed, defaultPath, calls, changes>>

Path == Network \cup {NoWay, None}
Call == {"start", "restart"}
Connection == [path : Network, conf : Conf]

TunnelTypeOK ==
    /\ tunnel \in {"down", "starting", "up"}
    /\ ended \in {None, "success", "failure", "error", "taken", "crash"}
    /\ saved \in Conf \cup {None} /\ rules \in Conf \cup {None}
    /\ started \in BOOLEAN /\ listening \in BOOLEAN /\ observing \in BOOLEAN
    /\ connections \subseteq Connection
    /\ defaultPath \in Path /\ lastPath \in Path
    /\ calls \in [Call -> Nat]
    /\ timers \in Nat /\ missed \in BOOLEAN
    /\ changes \in 0..MaxChanges

----------------------------------------------------------------------------
\* The process is gone, with its sockets, its timers and its calls.
Exit(how) ==
    /\ tunnel' = "down" /\ ended' = how
    /\ rules' = None
    /\ started' = FALSE /\ listening' = FALSE
    /\ connections' = {} /\ observing' = FALSE
    /\ lastPath' = None /\ timers' = 0 /\ missed' = FALSE
    /\ calls' = [c \in Call |-> 0]
    /\ UNCHANGED <<saved, defaultPath, changes>>

\* startTunnel() up to its asynchronous call.  The rules are replaced here,
\* before the settings are applied and the proxy starts anew.
ReadConfAndApply(who) ==
    /\ rules' = saved
    /\ calls' = [calls EXCEPT ![who] = @ + 1]

\* A slip: the configuration is not asked for.
StartAnyway ==
    /\ tunnel = "down"
    /\ tunnel' = "starting" /\ ended' = None /\ changes' = 0
    /\ ReadConfAndApply("start")
    /\ UNCHANGED <<saved, provider, missed, defaultPath>>

\* The system starts a process for the tunnel.
StartTunnel ==
    /\ tunnel = "down" /\ saved # None
    /\ tunnel' = "starting" /\ ended' = None /\ changes' = 0
    /\ ReadConfAndApply("start")
    /\ UNCHANGED <<saved, provider, missed, defaultPath>>

\* guard let conf ... else exit(EXIT_FAILURE)
StartWithoutConf ==
    /\ tunnel = "down" /\ saved = None
    /\ Exit("failure")

\* The delayed block on the main queue: startTunnel(options: nil){_ in}.
Restart ==
    /\ timers > 0
    /\ timers' = timers - 1
    /\ ReadConfAndApply("restart")
    /\ UNCHANGED <<tunnel, ended, saved, started, listening, connections,
                   observing, missed, defaultPath, lastPath, changes>>

\* A slip: a path that is lost is not remembered.
ForgetPath(path) ==
    IF path \in Network /\ path # lastPath
    THEN IF lastPath = None THEN [last |-> path, more |-> 0] ELSE [last |-> lastPath, more |-> 1]
    ELSE [last |-> None, more |-> 0]

\* observeValue(): what becomes of lastPath, and how many restarts are put
\* off.  A restart leaves lastPath as it is.
Observe(path) ==
    IF path \in Network /\ path # lastPath
    THEN IF lastPath = None THEN [last |-> path, more |-> 0] ELSE [last |-> lastPath, more |-> 1]
    ELSE [last |-> path, more |-> 0]

Observed(path) ==
    /\ lastPath' = Observe(path).last
    /\ timers' = timers + Observe(path).more

\* A slip: that the proxy was started is not noted.
StartUnnoted ==
    /\ listening' = TRUE
    /\ observing' = TRUE
    /\ Observed(defaultPath)
    /\ UNCHANGED <<started, connections>>

\* The first time: a new proxy starts, and defaultPath is observed, which
\* calls observeValue() at once (.initial).
FirstStart ==
    /\ listening' = TRUE
    /\ observing' = TRUE
    /\ Observed(defaultPath)
    /\ started' = TRUE
    /\ UNCHANGED connections

\* A slip: the proxy is stopped and not started.
StopOnly ==
    /\ listening' = FALSE
    /\ connections' = {}
    /\ UNCHANGED <<started, observing, lastPath, timers>>

\* A slip: the proxy is left alone.
LeaveRunning == UNCHANGED provider

\* Later: stop() closes the port and every connection, start() opens the
\* port again.
StopAndStart ==
    /\ listening' = TRUE
    /\ connections' = {}
    /\ UNCHANGED <<started, observing, lastPath, timers>>

\* The completion of setTunnelNetworkSettings, which then tells the system
\* that the tunnel is up; nobody listens to the answer of a restart.
SettingsApplied(who) ==
    /\ calls[who] > 0
    /\ calls' = [calls EXCEPT ![who] = @ - 1]
    /\ IF started THEN StopAndStart ELSE ~ listening /\ FirstStart
    /\ tunnel' = IF who = "start" THEN "up" ELSE tunnel
    /\ missed' = FALSE
    /\ UNCHANGED <<ended, saved, rules, defaultPath, changes>>

\* try! start() where the port is taken, by another program or by a proxy
\* of the provider's own; the process ends in both cases, and ended tells
\* them apart.
ProxyCannotStart(who) ==
    /\ calls[who] > 0
    /\ \/ "port" \in Faults /\ Exit("taken")
       \/ ~ started /\ listening /\ Exit("crash")

\* A slip: the error is not handed on.
StartErrorLost ==
    /\ "settings" \in Faults
    /\ calls["start"] > 0
    /\ calls' = [calls EXCEPT !["start"] = @ - 1]
    /\ UNCHANGED <<tunnel, ended, saved, rules, provider, missed, defaultPath, changes>>

\* completionHandler(error): the system gives the tunnel up.
StartFailed ==
    /\ "settings" \in Faults
    /\ calls["start"] > 0
    /\ Exit("error")

\* The handler of a restart drops the error: the proxy goes on as it was.
RestartFailed ==
    /\ "settings" \in Faults
    /\ calls["restart"] > 0
    /\ calls' = [calls EXCEPT !["restart"] = @ - 1]
    /\ missed' = TRUE
    /\ UNCHANGED <<tunnel, ended, saved, rules, provider, defaultPath, changes>>

\* stopTunnel(): the proxy stops, if there is one, and then the process.
StopTunnel ==
    /\ tunnel # "down"
    /\ Exit("success")

----------------------------------------------------------------------------
\* The system.

\* The default path changes, and the provider, if it observes it, is called.
PathChanges(path) ==
    /\ path # defaultPath
    /\ changes < MaxChanges
    /\ changes' = changes + 1
    /\ defaultPath' = path
    /\ IF observing THEN Observed(path) ELSE UNCHANGED <<lastPath, timers>>
    /\ UNCHANGED <<tunnel, ended, saved, rules, started, listening, connections,
                   observing, missed, calls>>

\* The app saves another configuration, whether the tunnel is up or not.
Saved(conf) ==
    /\ saved' = conf
    /\ UNCHANGED <<tunnel, ended, rules, provider, missed, defaultPath, calls, changes>>

\* The proxy accepts a connection and sends it the way the rules say, over
\* the path of the moment; one ends by itself.
Open ==
    /\ tunnel = "up" /\ listening /\ defaultPath \in Network
    /\ connections' = connections \cup {[path |-> defaultPath, conf |-> rules]}
    /\ UNCHANGED <<tunnel, ended, saved, rules, started, listening, observing,
                   lastPath, timers, missed, defaultPath, calls, changes>>

Close(c) ==
    /\ connections' = connections \ {c}
    /\ UNCHANGED <<tunnel, ended, saved, rules, started, listening, observing,
                   lastPath, timers, missed, defaultPath, calls, changes>>

----------------------------------------------------------------------------
\* A VPN that the app did not write has no configuration for the provider.
TunnelInit ==
    /\ tunnel = "down" /\ ended = None
    /\ saved \in Conf \cup {None} /\ rules = None
    /\ started = FALSE /\ listening = FALSE /\ observing = FALSE
    /\ connections = {}
    /\ defaultPath \in Path /\ lastPath = None
    /\ calls = [c \in Call |-> 0]
    /\ timers = 0 /\ missed = FALSE /\ changes = 0

TunnelNext ==
    \/ StartTunnel \/ StartWithoutConf \/ StopTunnel
    \/ StartFailed \/ Restart \/ RestartFailed
    \/ \E who \in Call : SettingsApplied(who) \/ ProxyCannotStart(who)
    \/ \E path \in Network \cup {NoWay} : PathChanges(path)
    \/ \E conf \in Conf : Saved(conf)
    \/ Open
    \/ \E c \in connections : Close(c)

TunnelSpec == TunnelInit /\ [][TunnelNext]_tunnelVars

\* The system answers its calls and the main queue runs its timers.
TunnelFairness ==
    /\ WF_tunnelVars(StartFailed \/ SettingsApplied("start") \/ ProxyCannotStart("start"))
    /\ WF_tunnelVars(RestartFailed \/ SettingsApplied("restart") \/ ProxyCannotStart("restart"))
    /\ WF_tunnelVars(Restart)

TunnelFairSpec == TunnelSpec /\ TunnelFairness

----------------------------------------------------------------------------
\* The network settings send all HTTP to port 9090: while the tunnel is up
\* somebody listens there, whatever restarts overlap.
ProxyServes == tunnel = "up" => listening

\* Whatever restarts overlap, the provider never starts a second proxy beside
\* its own: when try! start() ends the process, another program has the port.
NoCrash == ended # "crash"

\* A restart replaces the rules and adapters at once and the connections
\* later: when no restart is under way, every connection was made under the
\* rules that are in force, so the traffic goes to one server.  A restart whose
\* settings failed is put right by the next whose settings apply.
OneConfiguration ==
    ~ missed /\ calls["restart"] = 0 =>
        \A c \in connections : c.conf = rules

\* Connections of a network that another one has replaced are closed by a
\* restart, unless its settings fail, or the provider takes the new network for
\* the one it knows: lastPath is not updated by a restart
\* (PacketTunnelProvider.swift:246).
Stale(n) == /\ \E c \in connections : c.path = n
            /\ defaultPath \in Network \ {n, lastPath}

StaleConnectionsEnd == \A n \in Network : Stale(n) ~> ~ Stale(n) \/ missed

\* The completionHandler of startTunnel is called, or the process ends.
StartAnswered == tunnel = "starting" ~> tunnel # "starting"
============================================================================
