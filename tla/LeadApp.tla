------------------------------ MODULE LeadApp ------------------------------
(***************************************************************************)
(* The app as a whole: the home screen, whose rows come from the store and *)
(* whose header drives VPNManager, the editor on top of it, and a restart  *)
(* of the process, which hits all of them.  The selected configuration of  *)
(* the store is the one the header connects with, and the objects of the   *)
(* store are those VPNManager reads in its completions.                    *)
(***************************************************************************)
EXTENDS Naturals, SequencesExt

CONSTANTS
    Id, Server, Port, DefaultPort, Crypto, Nil, Blank, Junk,
    Manager, Installed, Faults, Outside, InOrder, MaxRequests, MaxLaunches

VARIABLES
    configs, object, disk, rxConfigs, selectedConfig, editor,
    config, status, shown, requests, observers, notices, launches, asked,
    managers, saved, session, running,
    swiped  \* the row whose delete button is out, 0 for none

Store == INSTANCE ConfigStore

\* What asDict() gets from an object; its flag is not sent.
Value == [server : Server, port : Port, crypto : Crypto]
Sent(o) == IF o = Nil THEN Nil
           ELSE [server |-> o.server, port |-> o.port, crypto |-> o.crypto]
Content == [c \in Id |-> Sent(object[c])]

VPN == INSTANCE VPNManager WITH
    Config <- Id, Data <- Value, content <- Content, chosen <- selectedConfig

\* What ConfigStore and VPNManager assume of their constants, for these.
ASSUME ConstantsAssumption ==
    /\ DefaultPort \in Port
    /\ Blank \notin Server \cup Port \cup Crypto
    /\ Junk \notin Port \cup {Blank}
    /\ Nil \notin Id \cup Crypto \cup Manager \cup Value \cup Store!Config
    /\ Installed \in Seq(Manager) /\ IsInjective(Installed)
    /\ Faults \subseteq {"load", "save", "reload"}
    /\ Outside \subseteq {"start", "remove"}
    /\ InOrder \in BOOLEAN
    /\ MaxRequests \in Nat /\ MaxLaunches \in Nat

system == <<managers, saved, session, running>>
store == <<configs, object, disk, rxConfigs, selectedConfig, editor>>
vpnVars == <<config, status, shown, requests, observers, notices, launches, asked, system>>
vars == <<store, vpnVars, swiped>>

----------------------------------------------------------------------------
\* A step of a screen: VPNManager has no part in it.
ScreenStep ==
    /\ UNCHANGED <<config, status, shown, requests, observers, notices, launches, system>>
    /\ asked' = IF /\ \A c \in Id : Sent(object'[c]) = Sent(object[c])
                   /\ selectedConfig' = selectedConfig
                THEN asked ELSE Nil

\* HomeViewModel.didSelectRow, on the last row and on any other.  A tap in the
\* table first puts away a delete button that is out.
DidSelectAddRow ==
    /\ swiped = 0 /\ Store!PushNew
    /\ ScreenStep /\ UNCHANGED swiped

DidSelectRow(i) ==
    /\ swiped = 0 /\ Store!DidSelectRow(i)
    /\ ScreenStep /\ UNCHANGED swiped

\* The status is asked for when the editor is opened, not when it is done.
AccessoryButtonTapped(i) ==
    /\ swiped = 0 /\ status # "on" /\ Store!PushEdit(i)
    /\ ScreenStep /\ UNCHANGED swiped

\* The editor's fields are filled in one step here: ConfigStore has the typing
\* and the refusals, which no other part of the app sees.
FillForm ==
    /\ editor.open /\ editor.cryptoMethod = Nil
    /\ \E server \in Server, port \in Port, item \in Crypto :
         editor' = [editor EXCEPT !.server = server, !.port = port,
                                  !.cryptoText = item, !.cryptoMethod = item]
    /\ UNCHANGED <<configs, object, disk, rxConfigs, selectedConfig>>
    /\ ScreenStep /\ UNCHANGED swiped

LeaveEditor ==
    /\ Store!DoneEdit \/ (\E id \in Id : Store!DoneAdd(id)) \/ Store!Back
    /\ ScreenStep /\ UNCHANGED swiped

\* canEditRow is asked when the row is swiped, commit comes when the button
\* that then appears is pressed.
Swipe(i) ==
    /\ ~editor.open /\ swiped = 0
    /\ i \in DOMAIN configs
    /\ status # "on"
    /\ swiped' = i
    /\ UNCHANGED store /\ ScreenStep

Unswipe ==
    /\ swiped # 0
    /\ swiped' = 0
    /\ UNCHANGED store /\ ScreenStep

CommitDelete ==
    /\ swiped # 0
    /\ Store!CommitDelete(swiped)
    /\ swiped' = 0
    /\ ScreenStep

\* The button of the header, which the editor covers.
TapButton ==
    /\ ~editor.open /\ swiped = 0
    /\ UNCHANGED <<store, swiped>>
    /\ VPN!TapConnect \/ VPN!TapDisconnect

Behind ==
    /\ UNCHANGED <<store, swiped>>
    /\ VPN!HeaderRefresh \/ VPN!Completion \/ VPN!System \/ VPN!Notification

Relaunch ==
    /\ Store!Relaunch
    /\ VPN!NewProcess
    /\ swiped' = 0

----------------------------------------------------------------------------
Init == Store!Init /\ VPN!FirstLaunch /\ swiped = 0

Next ==
    \/ DidSelectAddRow
    \/ \E i \in DOMAIN configs : DidSelectRow(i) \/ AccessoryButtonTapped(i) \/ Swipe(i)
    \/ FillForm
    \/ LeaveEditor
    \/ Unswipe
    \/ CommitDelete
    \/ TapButton
    \/ Behind
    \/ Relaunch

Spec == Init /\ [][Next]_vars

----------------------------------------------------------------------------
\* Properties

\* A restart, an edit in place or a deletion never leaves VPNManager with a
\* reference to an object that a waiting completion would not find.
ConfigAlive == VPN!Waiting("connect") => config # Nil /\ object[config] # Nil

\* With the real store behind it: unless the user touches button, selection
\* or texts after the tap, a tunnel that starts is started with the contents
\* of the configuration the header named at the tap.
StartRunsWhatWasAsked == VPN!StartRunsWhatWasAsked

\* The tip of accessoryButtonTapped (HomeViewModel.swift:103) tells the user
\* to disconnect first: no configuration is edited or deleted while VPNManager
\* has the status on.
EditsNeedDisconnect ==
    [][status = "on" /\ launches' = launches =>
         \A c \in ToSet(configs) : c \in ToSet(configs') /\ Sent(object'[c]) = Sent(object[c])]_vars
============================================================================
