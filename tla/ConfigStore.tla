---------------------------- MODULE ConfigStore ----------------------------
(***************************************************************************)
(* The list of proxy configurations of the app: DataManager, which owns    *)
(* it and writes it to UserDefaults, and ConfigViewController, the screen  *)
(* that adds to it and edits it.                                           *)
(*                                                                         *)
(* VPNManager.Config is a class: the list, the two relays, the editor and  *)
(* VPNManager all hold references to the same objects, and an edit is made *)
(* in place.  A reference is written as the object's id (one process       *)
(* never has two objects of one id, since only loadConfig reads ids back), *)
(* and "object" is what each reference points at.  Everything here runs on *)
(* the main thread, so a handler is one step.                              *)
(***************************************************************************)
EXTENDS Naturals, SequencesExt

CONSTANTS
    Id,          \* what App.timestampId can return
    Server,      \* texts of the name, address and password fields, as one
    Port,        \* ports a text can be parsed to
    DefaultPort, \* 9103, the port used when the text is no number
    Crypto,      \* VPNManager.Crypto
    Nil,         \* Swift's nil
    Blank,       \* the empty text
    Junk         \* a port text that is no number

Config == [server : Server, port : Port, crypto : Crypto, isSelected : BOOLEAN]
Stored == [id : Id, config : Config]

ASSUME ConstantsAssumption ==
    /\ DefaultPort \in Port
    /\ Nil \notin Id \cup Crypto \cup Config
    /\ Blank \notin Server \cup Port \cup Crypto
    /\ Junk \notin Port \cup {Blank}

VARIABLES
    configs,        \* DataManager.configs: references, in row order
    object,         \* the Config object of each reference, Nil if there is none
    disk,           \* the value stored in UserDefaults under configsKey
    rxConfigs,      \* DataManager.rxConfigs, the relay the table listens to
    selectedConfig, \* DataManager.selectedConfig, the relay the header listens to
    editor          \* ConfigViewController while it is on the navigation stack

storeVars == <<configs, object, disk, rxConfigs, selectedConfig>>
vars == <<storeVars, editor>>

\* tip is YYHud's message on the screen; cryptoText and crypto are the text of
\* the crypto field and the property cryptoMethod.
Editor == [open : BOOLEAN, config : Id \cup {Nil},
           server : Server \cup {Blank}, port : Port \cup {Blank, Junk},
           cryptoText : Crypto \cup {Blank}, cryptoMethod : Crypto \cup {Nil},
           tip : {"none", "incomplete"}]

EmptyForm == [open |-> TRUE, config |-> Nil, server |-> Blank, port |-> Blank,
              cryptoText |-> Blank, cryptoMethod |-> Nil, tip |-> "none"]
Closed == [EmptyForm EXCEPT !.open = FALSE]

TypeOK ==
    /\ configs \in Seq(Id)
    /\ object \in [Id -> Config \cup {Nil}]
    /\ disk \in Seq(Stored)
    /\ rxConfigs \in Seq(Id)
    /\ selectedConfig \in Id \cup {Nil}
    /\ editor \in Editor

----------------------------------------------------------------------------
\* DataManager

\* What JSONEncoder writes for a list of references: the objects' contents.
Snapshot(list, obj) ==
    [i \in DOMAIN list |-> [id |-> list[i], config |-> obj[list[i]]]]

\* configs.filter{ $0.isSelected }.first
IsFirstSelected(list, obj, i) ==
    /\ i \in DOMAIN list
    /\ obj[list[i]].isSelected
    /\ \A j \in DOMAIN list : obj[list[j]].isSelected => i <= j

FirstSelected(list, obj) ==
    IF \E i \in DOMAIN list : obj[list[i]].isSelected
    THEN list[CHOOSE i \in DOMAIN list : IsFirstSelected(list, obj, i)]
    ELSE Nil

\* save() and the notify() it ends with, after the list and the objects have
\* been given new values.
Save(list, obj) ==
    /\ configs' = list
    /\ object' = obj
    /\ disk' = Snapshot(list, obj)
    /\ rxConfigs' = list
    /\ selectedConfig' = FirstSelected(list, obj)

\* What loadConfig decodes: new objects, and references to them in order.
LoadedConfigs(stored) == [i \in DOMAIN stored |-> stored[i].id]

LoadedObjects(stored) ==
    [c \in Id |-> IF \E i \in DOMAIN stored : stored[i].id = c
                  THEN stored[CHOOSE i \in DOMAIN stored : stored[i].id = c].config
                  ELSE Nil]

\* A slip: selecteConfig sets the flag and clears no other.
AlsoSelected(list, obj, c) == [obj EXCEPT ![c].isSelected = TRUE]

\* The objects once selecteConfig has cleared every flag and set c's.
OnlySelected(list, obj, c) ==
    [d \in Id |-> IF d \in ToSet(list)
                  THEN [obj[d] EXCEPT !.isSelected = (d = c)]
                  ELSE obj[d]]

\* The guard keeps a tap on the selected row from saving again.
SelecteConfig(c) ==
    /\ c \in ToSet(configs)
    /\ ~object[c].isSelected
    /\ Save(configs, OnlySelected(configs, object, c))

\* A slip: every added configuration is selected.
AddSelected(c, model) ==
    LET list == Append(configs, c)
        obj  == [object EXCEPT ![c] = model]
    IN Save(list, OnlySelected(list, obj, c))

\* The first configuration goes through selecteConfig, any other is saved as
\* it was made, not selected.
AddConfig(c, model) ==
    LET list == Append(configs, c)
        obj  == [object EXCEPT ![c] = model]
    IN Save(list, IF Len(list) = 1 THEN OnlySelected(list, obj, c) ELSE obj)

\* Slips: a deletion that nobody is told of, and one that ends the object
\* although others may still refer to it.
DeleteUntold(i) ==
    /\ configs' = RemoveAt(configs, i)
    /\ disk' = Snapshot(configs', object)
    /\ UNCHANGED <<object, rxConfigs, selectedConfig>>

DeleteFrees(i) ==
    Save(RemoveAt(configs, i), [object EXCEPT ![configs[i]] = Nil])

\* The filter by id drops one row, ids being distinct.
DeleteConfig(i) ==
    Save(RemoveAt(configs, i), object)

\* A slip: the edit takes over the form's flag, which is never set.
UpdateAll(c, model) == [object EXCEPT ![c] = model]

\* config.update(with:) writes into the object, which the list already holds,
\* everything but its id and its flag.
Update(c, model) ==
    [object EXCEPT ![c] = [model EXCEPT !.isSelected = object[c].isSelected]]

\* Slips: an edit that adds a row, and one that is not saved.
UpdateAppends(c, model) == Save(Append(configs, c), Update(c, model))

UpdateUnsaved(c, model) ==
    object' = Update(c, model) /\ UNCHANGED <<configs, disk, rxConfigs, selectedConfig>>

\* The object is written before updateConfig looks for its row; without a row
\* nothing is saved.
UpdateConfig(c, model) ==
    IF c \in ToSet(configs)
    THEN Save(configs, Update(c, model))
    ELSE object' = Update(c, model) /\ UNCHANGED <<configs, disk, rxConfigs, selectedConfig>>

----------------------------------------------------------------------------
\* ConfigViewController

\* A slip: the text is taken as it is.
PortAsTyped(text) == text

\* Int(port) ?? 9103
ParsedPort(text) == IF text \in Port THEN text ELSE DefaultPort

\* setupContext(): an edited configuration fills every field on the screen,
\* but leaves the property cryptoMethod nil.
PushNew ==
    /\ ~editor.open
    /\ editor' = EmptyForm
    /\ UNCHANGED storeVars

PushEdit(i) ==
    /\ ~editor.open
    /\ i \in DOMAIN configs
    /\ LET c == object[configs[i]]
       IN editor' = [EmptyForm EXCEPT !.config = configs[i], !.server = c.server,
                                      !.port = c.port, !.cryptoText = c.crypto]
    /\ UNCHANGED storeVars

TypeServer(text) ==
    /\ editor.open
    /\ editor' = [editor EXCEPT !.server = text]
    /\ UNCHANGED storeVars

TypePort(text) ==
    /\ editor.open
    /\ editor' = [editor EXCEPT !.port = text]
    /\ UNCHANGED storeVars

\* The field cannot be typed in: touching it opens the action sheet, whose
\* items set cryptoMethod, and its didSet the text.
PickCrypto(item) ==
    /\ editor.open
    /\ editor' = [editor EXCEPT !.cryptoMethod = item, !.cryptoText = item]
    /\ UNCHANGED storeVars

\* The guard of done().
FormComplete ==
    /\ editor.cryptoMethod # Nil
    /\ editor.server # Blank
    /\ editor.port # Blank

DoneRefused ==
    /\ editor.open
    /\ ~FormComplete
    /\ editor' = [editor EXCEPT !.tip = "incomplete"]
    /\ UNCHANGED storeVars

\* YYHud takes its tip away after a while.
TipDismissed ==
    /\ editor.tip # "none"
    /\ editor' = [editor EXCEPT !.tip = "none"]
    /\ UNCHANGED storeVars

FormModel == [server |-> editor.server, port |-> ParsedPort(editor.port),
              crypto |-> editor.cryptoMethod, isSelected |-> FALSE]

DoneEdit ==
    /\ editor.open
    /\ editor.config # Nil
    /\ FormComplete
    /\ UpdateConfig(editor.config, FormModel)
    /\ editor' = Closed

DoneAdd(id) ==
    /\ editor.open
    /\ editor.config = Nil
    /\ FormComplete
    /\ object[id] = Nil
    /\ AddConfig(id, FormModel)
    /\ editor' = Closed

\* The navigation bar's back button; cancel() is only the end of done().
Back ==
    /\ editor.open
    /\ editor' = Closed
    /\ UNCHANGED storeVars

----------------------------------------------------------------------------
\* The rows of the home screen, which the editor covers while it is open.

DidSelectRow(i) ==
    /\ ~editor.open
    /\ i \in DOMAIN configs
    /\ SelecteConfig(configs[i])
    /\ UNCHANGED editor

CommitDelete(i) ==
    /\ ~editor.open
    /\ i \in DOMAIN configs
    /\ DeleteConfig(i)
    /\ UNCHANGED editor

\* The process ends at any moment and is started again: init(), and the first
\* read of the lazy relays.
Relaunch ==
    /\ configs' = LoadedConfigs(disk)
    /\ object' = LoadedObjects(disk)
    /\ disk' = disk
    /\ rxConfigs' = configs'
    /\ selectedConfig' = FirstSelected(configs', object')
    /\ editor' = Closed

----------------------------------------------------------------------------
Init ==
    /\ disk = <<>>
    /\ configs = LoadedConfigs(disk)
    /\ object = LoadedObjects(disk)
    /\ rxConfigs = configs
    /\ selectedConfig = FirstSelected(configs, object)
    /\ editor = Closed

Next ==
    \/ PushNew
    \/ \E i \in DOMAIN configs : PushEdit(i) \/ DidSelectRow(i) \/ CommitDelete(i)
    \/ \E text \in Server \cup {Blank} : TypeServer(text)
    \/ \E text \in Port \cup {Blank, Junk} : TypePort(text)
    \/ \E item \in Crypto : PickCrypto(item)
    \/ DoneRefused \/ TipDismissed
    \/ DoneEdit
    \/ \E id \in Id : DoneAdd(id)
    \/ Back
    \/ Relaunch

Spec == Init /\ [][Next]_vars

----------------------------------------------------------------------------
\* Properties

\* At most one configuration of the list is the selected one: selecteConfig
\* clears the flags of all others, and neither an edit, which writes over the
\* same object, nor a restart brings a second flag back.
OneSelected ==
    \A i, j \in DOMAIN configs :
        object[configs[i]].isSelected /\ object[configs[j]].isSelected => i = j

\* No two rows are one configuration: every row can be found, edited and
\* deleted by its id, whatever was added, replaced and reloaded before.
DistinctIds == IsInjective(configs)

\* Between two handlers nothing is held in memory only: what UserDefaults
\* holds is the list with the contents its objects have now, so that a kill
\* at any moment loses no finished edit, selection or deletion.
Durable == disk = Snapshot(configs, object)

\* What the table and the header were last told is what the list says.
RelaysCurrent ==
    /\ rxConfigs = configs
    /\ selectedConfig = FirstSelected(configs, object)

\* The selection moves only when the user picks another row of an unchanged
\* list, when the selected row itself is deleted, or when the first row of an
\* empty list is added.  Edits, other additions and deletions, and restarts
\* leave it where it was.
SelectionStep ==
    \/ selectedConfig' = selectedConfig
    \/ configs' = configs /\ selectedConfig' \in ToSet(configs)
    \/ selectedConfig' = Nil /\ selectedConfig \notin ToSet(configs')
    \/ configs = <<>> /\ configs' = <<selectedConfig'>>
SelectionIsTheUsers == [][SelectionStep]_vars

\* The tip shown by the guard of done() (ConfigViewController.swift:91) says that
\* the form is not complete; it is shown only over a form with an empty field.
TipStep ==
    editor.tip = "none" /\ editor'.tip = "incomplete" =>
        Blank \in {editor.server, editor.port, editor.cryptoText}
TipTellsTheTruth == [][TipStep]_vars

\* The list read back through its references, without the flags.
StoredList ==
    [i \in DOMAIN configs |->
        [id |-> configs[i],
         value |-> [server |-> object[configs[i]].server,
                    port   |-> object[configs[i]].port,
                    crypto |-> object[configs[i]].crypto]]]

\* The store, with its references, its disk and its restarts, implements the
\* durable list with one choice: every handler of DataManager is one operation
\* of that list, and a restart is none.
Abstract == INSTANCE ConfigList WITH
    Value <- [server : Server, port : Port, crypto : Crypto], None <- Nil,
    list <- StoredList, chosen <- selectedConfig
ImplementsConfigList == Abstract!Spec
============================================================================
