---------------------------- MODULE LeadAppProofs ----------------------------
(***************************************************************************)
(* The store and VPNManager together, for any ids, texts, ports, managers  *)
(* and any number of waiting requests: VPNManager never holds a reference  *)
(* that leads nowhere, and what the user asked for is what runs.           *)
(***************************************************************************)
EXTENDS LeadApp, SequenceLemmas

\* The state of the store and of VPNManager is what the code's types say.
StoreTypes ==
    /\ configs \in Seq(Id)
    /\ object \in [Id -> Store!Config \cup {Nil}]
    /\ disk \in Seq(Store!Stored)
    /\ selectedConfig \in Id \cup {Nil}
    /\ editor \in Store!Editor

VpnTypes ==
    /\ config \in Id \cup {Nil}
    /\ managers \in Seq(Manager)
    /\ saved \in [Manager -> Value \cup {Nil}]
    /\ running \in [Manager -> Value \cup {Nil}]
    /\ asked \in Value \cup {Nil}

\* Whatever refers to an object finds one: rows, relay, editor, VPNManager.
Alive(c) == c # Nil => object[c] # Nil

RowsAlive == \A i \in DOMAIN configs : Alive(configs[i])

RefsAlive == RowsAlive /\ Alive(selectedConfig) /\ Alive(editor.config)

\* As long as nothing has disturbed the connect, what it asked for is on its
\* way: each request has it, or will find it where it looks.
OnItsWay ==
    {r \in VPN!Request :
        /\ r.op = "connect" => config # Nil /\ (asked # Nil => Content[config] = asked)
        /\ r.op = "save" /\ asked # Nil => r.conf = asked
        /\ r.op = "reload" /\ asked # Nil => saved[r.manager] \in {asked, Nil}}

AllOnTheirWay == requests \in Seq(OnItsWay)

IInv == StoreTypes /\ VpnTypes /\ RefsAlive /\ Alive(config) /\ AllOnTheirWay

-----------------------------------------------------------------------------
\* Lemmas about the store

\* Nil is no configuration.
LEMMA NilNoConfig == Nil \notin Store!Config
  BY ConstantsAssumption

\* What asDict() gives for an object is a value.
LEMMA SentIsValue ==
  ASSUME StoreTypes, NEW c \in Id, Alive(c)
  PROVE  Content[c] \in Value
<1>1. object[c] \in Store!Config /\ object[c] # Nil
  BY ConstantsAssumption DEF StoreTypes, Alive
<1>2. Content[c] = [server |-> object[c].server, port |-> object[c].port,
                    crypto |-> object[c].crypto]
  BY <1>1 DEF Content, Sent
<1> QED BY <1>1, <1>2 DEF Value, Store!Config

\* The relay's value is a row of the list, or nothing.
LEMMA FirstSelectedIsRow ==
  ASSUME NEW list \in Seq(Id), NEW obj
  PROVE  \/ Store!FirstSelected(list, obj) = Nil
         \/ \E i \in DOMAIN list : Store!FirstSelected(list, obj) = list[i]
<1> DEFINE T == {i \in DOMAIN list : obj[list[i]].isSelected}
<1>1. CASE T = {}
  BY <1>1 DEF Store!FirstSelected
<1>2. CASE T # {}
  <2>1. T \in SUBSET Nat
    OBVIOUS
  <2>2. PICK i \in T : \A j \in T : i <= j
    BY <1>2, <2>1, LeastNat
  <2>3. Store!IsFirstSelected(list, obj, i)
    BY <2>2 DEF Store!IsFirstSelected
  <2>4. \A k : Store!IsFirstSelected(list, obj, k) => k \in DOMAIN list
    BY DEF Store!IsFirstSelected
  <2> DEFINE k == CHOOSE k \in DOMAIN list : Store!IsFirstSelected(list, obj, k)
  <2>5. k \in DOMAIN list
    BY <2>3, <2>4
  <2>6. Store!FirstSelected(list, obj) = list[k]
    BY <2>2 DEF Store!FirstSelected
  <2> HIDE DEF k
  <2> QED BY <2>5, <2>6
<1> QED BY <1>1, <1>2

\* No handler ends an object.
Grows == \A c \in Id : object[c] # Nil => object'[c] # Nil

\* What save() leaves behind, whatever handler made the new list and objects.
LEMMA SaveKeeps ==
  ASSUME NEW list \in Seq(Id), NEW obj \in [Id -> Store!Config \cup {Nil}],
         \A i \in DOMAIN list : obj[list[i]] # Nil,
         \A c \in Id : object[c] # Nil => obj[c] # Nil,
         Store!Save(list, obj),
         editor' \in Store!Editor,
         editor'.config # Nil => obj[editor'.config] # Nil
  PROVE  StoreTypes' /\ RefsAlive' /\ Grows
<1>1. /\ configs' = list /\ object' = obj
      /\ disk' = Store!Snapshot(list, obj)
      /\ selectedConfig' = Store!FirstSelected(list, obj)
  BY DEF Store!Save
<1>2. Store!Snapshot(list, obj) \in Seq(Store!Stored)
  <2>1. DOMAIN list = 1 .. Len(list) /\ Len(list) \in Nat
    OBVIOUS
  <2>2. \A i \in DOMAIN list : list[i] \in Id /\ obj[list[i]] \in Store!Config
    BY <2>1
  <2>3. Store!Snapshot(list, obj) \in [1 .. Len(list) -> Store!Stored]
    BY <2>1, <2>2 DEF Store!Snapshot, Store!Stored
  <2> QED BY <2>1, <2>3, SeqDef
<1>3. \/ selectedConfig' = Nil
      \/ \E i \in DOMAIN list : selectedConfig' = list[i]
  BY <1>1, FirstSelectedIsRow
<1>4. selectedConfig' \in Id \cup {Nil}
  BY <1>3
<1>5. StoreTypes'
  BY <1>1, <1>2, <1>4 DEF StoreTypes
<1>6. RefsAlive'
  BY <1>1, <1>3 DEF RefsAlive, RowsAlive, Alive
<1> QED BY <1>1, <1>5, <1>6 DEF Grows

\* A step that changes nothing but the form.
LEMMA FormStepKeeps ==
  ASSUME StoreTypes, RefsAlive,
         UNCHANGED <<configs, object, disk, rxConfigs, selectedConfig>>,
         editor' \in Store!Editor, editor'.config # Nil => object[editor'.config] # Nil
  PROVE  StoreTypes' /\ RefsAlive' /\ Grows
  BY DEF StoreTypes, RefsAlive, RowsAlive, Alive, Grows

\* The closed form holds no reference.
LEMMA ClosedType == Store!Closed \in Store!Editor /\ Store!Closed.config = Nil
  BY DEF Store!Closed, Store!EmptyForm, Store!Editor

\* The form that done() reads, when its guard lets it pass, is a configuration.
LEMMA FormModelType ==
  ASSUME StoreTypes, Store!FormComplete
  PROVE  Store!FormModel \in Store!Config
<1>1. /\ editor.server \in Server
      /\ editor.port \in Port \cup {Junk}
      /\ editor.cryptoMethod \in Crypto
  BY DEF StoreTypes, Store!Editor, Store!FormComplete
<1>2. Store!ParsedPort(editor.port) \in Port
  BY ConstantsAssumption DEF Store!ParsedPort
<1> QED BY <1>1, <1>2 DEF Store!FormModel, Store!Config

\* Writing the flag of a configuration leaves a configuration.
LEMMA FlagWritten ==
  ASSUME NEW o \in Store!Config, NEW b \in BOOLEAN
  PROVE  [o EXCEPT !.isSelected = b] \in Store!Config
  BY DEF Store!Config

\* selecteConfig's loop leaves configurations.
LEMMA OnlySelectedObjects ==
  ASSUME NEW list \in Seq(Id), NEW obj \in [Id -> Store!Config \cup {Nil}], NEW c,
         \A i \in DOMAIN list : obj[list[i]] # Nil
  PROVE  /\ Store!OnlySelected(list, obj, c) \in [Id -> Store!Config \cup {Nil}]
         /\ \A d \in Id : obj[d] # Nil => Store!OnlySelected(list, obj, c)[d] # Nil
<1> DEFINE new == Store!OnlySelected(list, obj, c)
<1>1. \A d \in Id : d \in ToSet(list) => new[d] \in Store!Config
  <2> SUFFICES ASSUME NEW d \in Id, d \in ToSet(list) PROVE new[d] \in Store!Config
    OBVIOUS
  <2>1. obj[d] \in Store!Config
    BY DEF ToSet
  <2>2. new[d] = [obj[d] EXCEPT !.isSelected = (d = c)] /\ (d = c) \in BOOLEAN
    BY DEF Store!OnlySelected, Store!ToSet, ToSet
  <2> HIDE DEF new
  <2> QED BY <2>1, <2>2, FlagWritten
<1>2. \A d \in Id : d \notin ToSet(list) => new[d] = obj[d]
  BY DEF Store!OnlySelected, Store!ToSet, ToSet
<1>3. new = [d \in Id |-> new[d]]
  BY DEF Store!OnlySelected
<1> HIDE DEF new
<1>4. new \in [Id -> Store!Config \cup {Nil}] /\ \A d \in Id : obj[d] # Nil => new[d] # Nil
  BY <1>1, <1>2, <1>3, NilNoConfig
<1> QED BY <1>4 DEF new

-----------------------------------------------------------------------------
\* One lemma per handler of the store that saves

LEMMA SelectKeeps ==
  ASSUME StoreTypes, RefsAlive, NEW i \in DOMAIN configs, Store!DidSelectRow(i)
  PROVE  StoreTypes' /\ RefsAlive' /\ Grows
<1> DEFINE obj == Store!OnlySelected(configs, object, configs[i])
<1> USE DEF StoreTypes, RefsAlive, RowsAlive, Alive
<1>1. configs \in Seq(Id) /\ \A j \in DOMAIN configs : configs[j] \in Id /\ object[configs[j]] # Nil
  BY ConstantsAssumption
<1>2. /\ obj \in [Id -> Store!Config \cup {Nil}]
      /\ \A d \in Id : object[d] # Nil => obj[d] # Nil
  BY <1>1, OnlySelectedObjects
<1>3. Store!Save(configs, obj) /\ editor' = editor
  BY DEF Store!DidSelectRow, Store!SelecteConfig
<1> HIDE DEF obj
<1>4. editor.config # Nil => obj[editor.config] # Nil
  BY <1>2 DEF Store!Editor
<1> QED BY <1>1, <1>2, <1>3, <1>4, SaveKeeps

LEMMA DeleteKeeps ==
  ASSUME StoreTypes, RefsAlive, NEW i \in DOMAIN configs, Store!CommitDelete(i)
  PROVE  StoreTypes' /\ RefsAlive' /\ Grows
<1> DEFINE list == RemoveAt(configs, i)
<1> USE DEF StoreTypes, RefsAlive, RowsAlive, Alive
<1>1. configs \in Seq(Id) /\ \A j \in DOMAIN configs : configs[j] \in Id /\ object[configs[j]] # Nil
  BY ConstantsAssumption
<1>2. /\ list \in Seq(Id)
      /\ DOMAIN list = 1 .. Len(configs) - 1
      /\ \A j \in 1 .. Len(configs) - 1 :
           list[j] = IF j < i THEN configs[j] ELSE configs[j + 1]
  BY <1>1, RemoveAtEntries
<1>3. list = Store!RemoveAt(configs, i)
  BY DEF RemoveAt, Store!RemoveAt
<1> HIDE DEF list
<1>4. \A j \in 1 .. Len(configs) - 1 : j \in DOMAIN configs /\ j + 1 \in DOMAIN configs
  BY <1>1
<1>5. \A j \in DOMAIN list : object[list[j]] # Nil
  BY <1>1, <1>2, <1>4
<1>6. Store!Save(list, object) /\ editor' = editor
  BY <1>3 DEF Store!CommitDelete, Store!DeleteConfig
<1> QED BY <1>2, <1>5, <1>6, SaveKeeps

\* A reference the editor was opened with is one the store still knows, also
\* when its row has gone.
LEMMA EditKeeps ==
  ASSUME StoreTypes, RefsAlive, Store!DoneEdit
  PROVE  StoreTypes' /\ RefsAlive' /\ Grows
<1> DEFINE c     == editor.config
           model == [Store!FormModel EXCEPT !.isSelected = object[c].isSelected]
           obj   == [object EXCEPT ![c] = model]
<1> USE DEF StoreTypes, RefsAlive, RowsAlive, Alive
<1>1. c \in Id /\ object[c] \in Store!Config
  BY DEF Store!DoneEdit, Store!Editor
<1>2. object[c].isSelected \in BOOLEAN
  BY <1>1 DEF Store!Config
<1>3. model \in Store!Config
  <2>1. Store!FormModel \in Store!Config
    BY FormModelType DEF Store!DoneEdit
  <2> HIDE DEF StoreTypes, RefsAlive, RowsAlive, Alive
  <2> QED BY <1>2, <2>1, FlagWritten
<1>4. Store!UpdateConfig(c, Store!FormModel) /\ editor' = Store!Closed
  BY DEF Store!DoneEdit
<1> HIDE DEF c, model
<1>5. /\ obj \in [Id -> Store!Config \cup {Nil}]
      /\ \A d \in Id : object[d] # Nil => obj[d] # Nil
  BY <1>1, <1>3, NilNoConfig
<1>6. \A j \in DOMAIN configs : configs[j] \in Id /\ object[configs[j]] # Nil
  BY ConstantsAssumption
<1>7. editor' \in Store!Editor /\ editor'.config = Nil
  BY <1>4, ClosedType
<1>8. \/ Store!Save(configs, obj)
      \/ object' = obj /\ UNCHANGED <<configs, disk, rxConfigs, selectedConfig>>
  BY <1>4 DEF Store!UpdateConfig, Store!Update, c, model
<1>9. CASE Store!Save(configs, obj)
  <2> HIDE DEF obj
  <2> QED BY <1>5, <1>6, <1>7, <1>9, SaveKeeps
<1>10. CASE object' = obj /\ UNCHANGED <<configs, disk, rxConfigs, selectedConfig>>
  <2>1. StoreTypes' /\ Grows
    BY <1>5, <1>7, <1>10 DEF Grows
  <2>2. RefsAlive'
    BY <1>5, <1>6, <1>7, <1>10
  <2> QED BY <2>1, <2>2
<1> QED BY <1>8, <1>9, <1>10

LEMMA AddKeeps ==
  ASSUME StoreTypes, RefsAlive, NEW id \in Id, Store!DoneAdd(id)
  PROVE  StoreTypes' /\ RefsAlive' /\ Grows
<1> DEFINE list == Append(configs, id)
           with == [object EXCEPT ![id] = Store!FormModel]
           obj  == IF Len(list) = 1 THEN Store!OnlySelected(list, with, id) ELSE with
<1> USE DEF StoreTypes, RefsAlive, RowsAlive, Alive
<1>1. /\ list \in Seq(Id)
      /\ DOMAIN list = 1 .. Len(configs) + 1
      /\ DOMAIN configs = 1 .. Len(configs) /\ Len(configs) \in Nat
      /\ \A j \in DOMAIN configs : list[j] = configs[j] /\ configs[j] \in Id
      /\ list[Len(configs) + 1] = id
  BY AppendProperties
<1>2. Store!FormModel \in Store!Config
  BY FormModelType DEF Store!DoneAdd
<1>3. Store!Save(list, obj) /\ editor' = Store!Closed
  BY DEF Store!DoneAdd, Store!AddConfig
<1> HIDE DEF list
<1>4. /\ with \in [Id -> Store!Config \cup {Nil}]
      /\ with[id] # Nil
      /\ \A d \in Id : object[d] # Nil => with[d] # Nil
  BY <1>2, NilNoConfig
<1> HIDE DEF with
<1>5. \A j \in DOMAIN configs : object[configs[j]] # Nil
  BY <1>1, ConstantsAssumption
<1>6. \A j \in DOMAIN list : list[j] \in Id /\ with[list[j]] # Nil
  BY <1>1, <1>4, <1>5
<1>7. /\ obj \in [Id -> Store!Config \cup {Nil}]
      /\ \A d \in Id : with[d] # Nil => obj[d] # Nil
  BY <1>1, <1>4, <1>6, OnlySelectedObjects
<1> HIDE DEF obj
<1>8. /\ \A j \in DOMAIN list : obj[list[j]] # Nil
      /\ \A d \in Id : object[d] # Nil => obj[d] # Nil
  BY <1>4, <1>6, <1>7
<1>9. editor' \in Store!Editor /\ editor'.config = Nil
  BY <1>3, ClosedType
<1> QED BY <1>1, <1>3, <1>7, <1>8, <1>9, SaveKeeps

\* Whatever is stored, a new process makes an object for each id it reads.
LEMMA RestartKeeps ==
  ASSUME StoreTypes, Store!Relaunch
  PROVE  StoreTypes' /\ RefsAlive'
<1> USE DEF StoreTypes
<1> DEFINE list == Store!LoadedConfigs(disk)
           obj  == Store!LoadedObjects(disk)
<1>1. DOMAIN disk = 1 .. Len(disk) /\ Len(disk) \in Nat
  OBVIOUS
<1>2. \A i \in DOMAIN disk : disk[i].id \in Id /\ disk[i].config \in Store!Config
  <2>1. \A i \in DOMAIN disk : disk[i] \in Store!Stored
    BY <1>1
  <2> QED BY <2>1 DEF Store!Stored
<1>3. list \in Seq(Id) /\ DOMAIN list = DOMAIN disk /\ \A i \in DOMAIN disk : list[i] = disk[i].id
  <2>1. list \in [1 .. Len(disk) -> Id]
    BY <1>1, <1>2 DEF Store!LoadedConfigs
  <2> QED BY <1>1, <2>1, SeqDef DEF Store!LoadedConfigs
<1>4. /\ obj \in [Id -> Store!Config \cup {Nil}]
      /\ \A i \in DOMAIN disk : obj[disk[i].id] # Nil
  <2>1. \A c \in Id : \A i \in DOMAIN disk : disk[i].id = c => obj[c] \in Store!Config
    BY <1>2 DEF Store!LoadedObjects
  <2>2. \A c \in Id : (~ \E i \in DOMAIN disk : disk[i].id = c) => obj[c] = Nil
    BY DEF Store!LoadedObjects
  <2>3. obj = [c \in Id |-> obj[c]]
    BY DEF Store!LoadedObjects
  <2> HIDE DEF obj
  <2> QED BY <1>2, <2>1, <2>2, <2>3, NilNoConfig
<1>5. /\ configs' = list /\ object' = obj /\ disk' = disk
      /\ selectedConfig' = Store!FirstSelected(list, obj)
      /\ editor' \in Store!Editor /\ editor'.config = Nil
  BY ClosedType DEF Store!Relaunch
<1> HIDE DEF list, obj
<1>6. \/ selectedConfig' = Nil
      \/ \E i \in DOMAIN list : selectedConfig' = list[i]
  BY <1>3, <1>5, FirstSelectedIsRow
<1>7. \A i \in DOMAIN list : list[i] \in Id /\ obj[list[i]] # Nil
  BY <1>2, <1>3, <1>4
<1>8. StoreTypes'
  BY <1>3, <1>4, <1>5, <1>6, <1>7
<1>9. RefsAlive'
  BY <1>5, <1>6, <1>7 DEF RefsAlive, RowsAlive, Alive
<1> QED BY <1>8, <1>9

-----------------------------------------------------------------------------
\* Lemmas about VPNManager's requests

LEMMA RequestKinds ==
  ASSUME NEW r \in VPN!Request
  PROVE  /\ r.op \in {"save", "remove", "reload"} => r.manager \in Manager
         /\ r.op = "save" => r.conf \in Value
  BY DEF VPN!Request, VPN!LoadOp, VPN!Load, VPN!Save, VPN!RemoveOne, VPN!Reload

LEMMA RequestsMade ==
  /\ \A why \in VPN!LoadOp : VPN!Load(why) \in VPN!Request
  /\ \A m \in Manager : VPN!RemoveOne(m) \in VPN!Request /\ VPN!Reload(m) \in VPN!Request
  /\ \A m \in Manager, conf \in Value : VPN!Save(m, conf) \in VPN!Request
  BY DEF VPN!Request

\* The conditions under which a step leaves every request on its way.
LEMMA StayOnTheirWay ==
  ASSUME config' = config \/ (config' # Nil /\ asked' = Nil),
         asked' # Nil => /\ asked' = asked
                         /\ Content' = Content
                         /\ \A m \in Manager : saved'[m] \in {saved[m], asked, Nil}
  PROVE  OnItsWay \subseteq OnItsWay'
<1> SUFFICES ASSUME NEW r \in OnItsWay PROVE r \in OnItsWay'
  OBVIOUS
<1>1. /\ r \in VPN!Request
      /\ r.op = "connect" => config # Nil /\ (asked # Nil => Content[config] = asked)
      /\ r.op = "save" /\ asked # Nil => r.conf = asked
      /\ r.op = "reload" /\ asked # Nil => saved[r.manager] \in {asked, Nil}
  BY DEF OnItsWay
<1>2. r.op = "reload" => r.manager \in Manager
  BY <1>1, RequestKinds
<1>3. r.op = "reload" /\ asked' # Nil => saved'[r.manager] \in {asked', Nil}
  BY <1>1, <1>2
<1>4. r.op = "connect" => config' # Nil /\ (asked' # Nil => (Content')[config'] = asked')
  BY <1>1
<1>5. r.op = "save" /\ asked' # Nil => r.conf = asked'
  BY <1>1
<1> QED BY <1>1, <1>3, <1>4, <1>5 DEF OnItsWay

\* What an answer does to the queue.
LEMMA AnswerKeeps ==
  ASSUME AllOnTheirWay, NEW i \in DOMAIN requests, NEW op,
         NEW more, VPN!Answer(i, op, more),
         OnItsWay \subseteq OnItsWay', more \in Seq(OnItsWay')
  PROVE  /\ AllOnTheirWay'
         /\ requests[i] \in OnItsWay /\ requests[i].op = op
<1> DEFINE W == OnItsWay'
<1>1. requests' = RemoveAt(requests, i) \o more /\ requests[i].op = op
  BY DEF VPN!Answer, VPN!RemoveAt, RemoveAt
<1>2. requests \in Seq(OnItsWay) /\ requests[i] \in OnItsWay
  BY DEF AllOnTheirWay
<1>3. requests \in Seq(W)
  <2>1. \A j \in DOMAIN requests : requests[j] \in OnItsWay
    BY <1>2
  <2>2. DOMAIN requests = 1 .. Len(requests) /\ Len(requests) \in Nat
        /\ requests = [j \in 1 .. Len(requests) |-> requests[j]]
    BY <1>2
  <2> HIDE DEF W
  <2>3. requests \in [1 .. Len(requests) -> W]
    BY <2>1, <2>2 DEF W
  <2> QED BY <2>2, <2>3, SeqDef
<1> HIDE DEF W
<1>4. RemoveAt(requests, i) \in Seq(W)
  BY <1>3, RemoveAtEntries
<1>5. more \in Seq(W)
  BY DEF W
<1>6. RemoveAt(requests, i) \o more \in Seq(W)
  BY <1>4, <1>5, ConcatProperties
<1>7. AllOnTheirWay' = (requests' \in Seq(W))
  BY DEF AllOnTheirWay, W
<1> QED BY <1>1, <1>2, <1>6, <1>7

\* The requests the completions make.
LEMMA OthersMade ==
  /\ \A why \in VPN!LoadOp : why # "connect" => VPN!Load(why) \in OnItsWay
  /\ \A m \in Manager : VPN!RemoveOne(m) \in OnItsWay
  BY RequestsMade DEF OnItsWay, VPN!Load, VPN!LoadOp, VPN!RemoveOne

LEMMA SaveMade ==
  ASSUME NEW m \in Manager, NEW d \in Value, asked # Nil => d = asked
  PROVE  VPN!Save(m, d) \in OnItsWay
  BY RequestsMade DEF OnItsWay, VPN!Save

LEMMA ReloadMade ==
  ASSUME NEW m \in Manager, asked' # Nil => saved'[m] \in {asked', Nil}
  PROVE  VPN!Reload(m) \in OnItsWay'
  BY RequestsMade DEF OnItsWay, VPN!Reload

-----------------------------------------------------------------------------
\* VPNManager's steps

\* A manager leaves the preferences, and what it held with it.
LEMMA ForgetKeeps ==
  ASSUME VpnTypes, NEW m \in Manager, VPN!Forget(m)
  PROVE  /\ managers' \in Seq(Manager)
         /\ saved' \in [Manager -> Value \cup {Nil}]
         /\ \A n \in Manager : saved'[n] \in {saved[n], Nil}
         /\ running' \in [Manager -> Value \cup {Nil}]
         /\ \A n \in Manager : running'[n] \in {running[n], Nil}
<1> USE DEF VpnTypes
<1>1. managers' \in Seq(Manager)
  <2>1. CASE m \in VPN!ToSet(managers)
    <3>1. VPN!Position(m) \in DOMAIN managers
      BY <2>1 DEF VPN!ToSet, VPN!Position
    <3>2. managers' = RemoveAt(managers, VPN!Position(m))
      BY <2>1 DEF VPN!Forget, VPN!RemoveAt, RemoveAt
    <3> QED BY <3>1, <3>2, RemoveAtEntries
  <2>2. CASE m \notin VPN!ToSet(managers)
    BY <2>2 DEF VPN!Forget
  <2> QED BY <2>1, <2>2
<1> QED BY <1>1 DEF VPN!Forget

\* What a completion has to leave behind.
LEMMA Completes ==
  ASSUME IInv, UNCHANGED <<store, config, asked>>,
         NEW i \in DOMAIN requests, NEW op, NEW more, VPN!Answer(i, op, more),
         managers' \in Seq(Manager),
         saved' \in [Manager -> Value \cup {Nil}],
         running' \in [Manager -> Value \cup {Nil}],
         asked # Nil => \A m \in Manager : /\ saved'[m] \in {saved[m], asked, Nil}
                                           /\ running'[m] \in {running[m], asked, Nil},
         more \in Seq(OnItsWay')
  PROVE  VpnTypes' /\ AllOnTheirWay' /\ Alive(config)' /\ VPN!StartStep
<1>1. Content' = Content
  BY DEF store, Content
<1>2. OnItsWay \subseteq OnItsWay'
  BY <1>1, StayOnTheirWay
<1>3. AllOnTheirWay'
  BY <1>2, AnswerKeeps DEF IInv
<1>4. VpnTypes' /\ Alive(config)'
  BY DEF IInv, VpnTypes, Alive, store
<1>5. VPN!StartStep
  BY DEF VPN!StartStep
<1> QED BY <1>3, <1>4, <1>5

\* The answered request is one of the queue's.
LEMMA AnsweredIsOne ==
  ASSUME AllOnTheirWay, NEW i \in DOMAIN requests, NEW op, NEW more, VPN!Answer(i, op, more)
  PROVE  requests[i] \in OnItsWay /\ requests[i] \in VPN!Request /\ requests[i].op = op
  BY DEF AllOnTheirWay, OnItsWay, VPN!Answer

LEMMA NoneIsQueue == <<>> \in Seq(OnItsWay')
  OBVIOUS

\* The completions that ask for nothing more, and those that end a chain.
LEMMA EndKeeps ==
  ASSUME IInv, UNCHANGED store, NEW i \in DOMAIN requests,
         \/ VPN!CheckLoaded(i) \/ VPN!ObserverLoaded(i) \/ VPN!DisconnectLoaded(i)
         \/ VPN!ConnectLoadFailed(i) \/ VPN!SaveFailed(i) \/ VPN!ReloadFailed(i)
  PROVE  VpnTypes' /\ AllOnTheirWay' /\ Alive(config)' /\ VPN!StartStep
<1>1. /\ \E op : VPN!Answer(i, op, <<>>)
      /\ UNCHANGED <<config, asked, managers, saved, running>>
  BY DEF VPN!CheckLoaded, VPN!ObserverLoaded, VPN!DisconnectLoaded, VPN!ConnectLoadFailed,
         VPN!SaveFailed, VPN!ReloadFailed, VPN!system
<1>2. PICK op : VPN!Answer(i, op, <<>>)
  BY <1>1
<1>3. /\ managers \in Seq(Manager)
      /\ saved \in [Manager -> Value \cup {Nil}]
      /\ running \in [Manager -> Value \cup {Nil}]
  BY DEF IInv, VpnTypes
<1>4. \A m \in Manager : saved'[m] = saved[m] /\ running'[m] = running[m]
  BY <1>1
<1> QED BY <1>1, <1>2, <1>3, <1>4, NoneIsQueue, Completes

LEMMA RemovedKeeps ==
  ASSUME IInv, UNCHANGED store, NEW i \in DOMAIN requests, VPN!Removed(i)
  PROVE  VpnTypes' /\ AllOnTheirWay' /\ Alive(config)' /\ VPN!StartStep
<1>1. /\ VPN!Answer(i, "remove", <<>>)
      /\ VPN!Forget(requests[i].manager)
      /\ UNCHANGED <<config, asked>>
  BY DEF VPN!Removed
<1>2. requests[i].manager \in Manager
  BY <1>1, AnsweredIsOne, RequestKinds DEF IInv
<1>3. /\ managers' \in Seq(Manager)
      /\ saved' \in [Manager -> Value \cup {Nil}]
      /\ \A n \in Manager : saved'[n] \in {saved[n], Nil}
      /\ running' \in [Manager -> Value \cup {Nil}]
      /\ \A n \in Manager : running'[n] \in {running[n], Nil}
  BY <1>1, <1>2, ForgetKeeps DEF IInv
<1>4. asked # Nil => \A m \in Manager : /\ saved'[m] \in {saved[m], asked, Nil}
                                        /\ running'[m] \in {running[m], asked, Nil}
  BY <1>3
<1>5. UNCHANGED <<store, config, asked>>
  BY <1>1
<1> QED BY <1>1, <1>3, <1>4, <1>5, NoneIsQueue, Completes

\* What a connect saves, it reads from the object it was asked to connect with.
LEMMA ConnectKeeps ==
  ASSUME IInv, UNCHANGED store, NEW i \in DOMAIN requests,
         VPN!ConnectLoaded(i) \/ \E m \in Manager : VPN!ConnectCreates(i, m)
  PROVE  VpnTypes' /\ AllOnTheirWay' /\ Alive(config)' /\ VPN!StartStep
<1>1. /\ \E more : VPN!Answer(i, "connect", more)
      /\ UNCHANGED <<config, asked, managers, saved, running>>
  BY DEF VPN!ConnectLoaded, VPN!ConnectCreates, VPN!system
<1>2. config # Nil /\ (asked # Nil => Content[config] = asked)
  <2>1. requests[i] \in OnItsWay /\ requests[i].op = "connect"
    BY <1>1, AnsweredIsOne DEF IInv
  <2> QED BY <2>1 DEF OnItsWay
<1>3. Content[config] \in Value
  BY <1>2, SentIsValue DEF IInv, VpnTypes
<1>4. OnItsWay \subseteq OnItsWay'
  <2>1. Content' = Content
    BY DEF store, Content
  <2> QED BY <1>1, <2>1, StayOnTheirWay
<1>5. \A m \in Manager : VPN!Save(m, Content[config]) \in OnItsWay'
  BY <1>2, <1>3, <1>4, SaveMade
<1>6. \A m \in Manager : VPN!RemoveOne(m) \in OnItsWay'
  BY <1>4, OthersMade
<1>7. PICK more : VPN!Answer(i, "connect", more) /\ more \in Seq(OnItsWay')
  <2>1. CASE VPN!ConnectLoaded(i)
    <3> DEFINE save == VPN!Save(managers[1], Content[config])
               W    == OnItsWay'
    <3>1. managers \in Seq(Manager) /\ managers # <<>>
      BY <2>1 DEF IInv, VpnTypes, VPN!ConnectLoaded
    <3>2. save \in W /\ \A j \in DOMAIN managers : VPN!RemoveOne(managers[j]) \in W
      BY <1>5, <1>6, <3>1
    <3>3. VPN!Answer(i, "connect", VPN!Removals \o <<save>>)
      BY <2>1 DEF VPN!ConnectLoaded, VPN!RemoveThenSave
    <3> HIDE DEF save, W
    <3>4. VPN!Removals \in Seq(W)
      <4>1. [j \in DOMAIN managers |-> VPN!RemoveOne(managers[j])] \in [1 .. Len(managers) -> W]
            /\ Len(managers) \in Nat
        BY <3>1, <3>2
      <4>2. [j \in DOMAIN managers |-> VPN!RemoveOne(managers[j])] \in Seq(W)
        BY <4>1, SeqDef
      <4> QED BY <4>2, EmptySeq DEF VPN!Removals
    <3>5. VPN!Removals \o <<save>> \in Seq(W)
      <4>1. <<save>> \in Seq(W)
        BY <3>2
      <4> QED BY <3>4, <4>1, ConcatProperties
    <3> QED BY <3>3, <3>5 DEF W
  <2>2. ASSUME NEW m \in Manager, VPN!ConnectCreates(i, m)
        PROVE  \E more : VPN!Answer(i, "connect", more) /\ more \in Seq(OnItsWay')
    <3> DEFINE save == VPN!Save(m, Content[config])
               W    == OnItsWay'
    <3>1. VPN!Answer(i, "connect", <<save>>)
      BY <2>2 DEF VPN!ConnectCreates
    <3>2. save \in W
      BY <1>5
    <3> HIDE DEF save, W
    <3>3. <<save>> \in Seq(W)
      BY <3>2
    <3> QED BY <3>1, <3>3 DEF W
  <2> QED BY <2>1, <2>2
<1>8. /\ managers' \in Seq(Manager)
      /\ saved' \in [Manager -> Value \cup {Nil}]
      /\ running' \in [Manager -> Value \cup {Nil}]
      /\ \A m \in Manager : saved'[m] = saved[m] /\ running'[m] = running[m]
      /\ UNCHANGED <<store, config, asked>>
  BY <1>1 DEF IInv, VpnTypes
<1> HIDE <1>1
<1> QED BY <1>7, <1>8, Completes

\* What is saved is what the request carried, and what is loaded back is that.
LEMMA SavedKeeps ==
  ASSUME IInv, UNCHANGED store, NEW i \in DOMAIN requests, VPN!Saved(i)
  PROVE  VpnTypes' /\ AllOnTheirWay' /\ Alive(config)' /\ VPN!StartStep
<1> DEFINE m == requests[i].manager
           d == requests[i].conf
<1>1. /\ VPN!Answer(i, "save", <<VPN!Reload(m)>>)
      /\ managers' = IF m \in VPN!ToSet(managers) THEN managers ELSE Append(managers, m)
      /\ saved' = [saved EXCEPT ![m] = d]
      /\ UNCHANGED <<config, asked, running>>
  BY DEF VPN!Saved
<1>2. requests[i] \in OnItsWay /\ requests[i] \in VPN!Request /\ requests[i].op = "save"
  BY <1>1, AnsweredIsOne DEF IInv
<1>3. m \in Manager /\ d \in Value
  BY <1>2, RequestKinds
<1>4. asked # Nil => d = asked
  BY <1>2 DEF OnItsWay
<1> HIDE DEF m, d
<1>5. /\ managers' \in Seq(Manager)
      /\ saved' \in [Manager -> Value \cup {Nil}]
      /\ running' \in [Manager -> Value \cup {Nil}]
      /\ asked # Nil => \A n \in Manager : /\ saved'[n] \in {saved[n], asked, Nil}
                                           /\ running'[n] \in {running[n], asked, Nil}
  BY <1>1, <1>3, <1>4 DEF IInv, VpnTypes
<1>6. asked' # Nil => saved'[m] \in {asked', Nil}
  BY <1>1, <1>3, <1>4 DEF IInv, VpnTypes
<1>7. <<VPN!Reload(m)>> \in Seq(OnItsWay')
  <2>1. VPN!Reload(m) \in OnItsWay'
    BY <1>3, <1>6, ReloadMade
  <2> QED BY <2>1
<1>8. UNCHANGED <<store, config, asked>>
  BY <1>1
<1>9. VPN!Answer(i, "save", <<VPN!Reload(m)>>)
  BY <1>1
<1> HIDE <1>1
<1> QED BY <1>5, <1>7, <1>8, <1>9, Completes

\* A tunnel is started with what is saved, which is what was asked.
LEMMA ReloadedKeeps ==
  ASSUME IInv, UNCHANGED store, NEW i \in DOMAIN requests, VPN!Reloaded(i)
  PROVE  VpnTypes' /\ AllOnTheirWay' /\ Alive(config)' /\ VPN!StartStep
<1> DEFINE m == requests[i].manager
<1>1. /\ VPN!Answer(i, "reload", <<VPN!Load("observe")>>)
      /\ running' = [running EXCEPT ![m] = saved[m]] \/ running' = running
      /\ UNCHANGED <<config, asked, managers, saved>>
  BY DEF VPN!Reloaded, VPN!Start
<1>2. requests[i] \in OnItsWay /\ requests[i] \in VPN!Request /\ requests[i].op = "reload"
  BY <1>1, AnsweredIsOne DEF IInv
<1>3. m \in Manager
  BY <1>2, RequestKinds
<1>4. asked # Nil => saved[m] \in {asked, Nil}
  BY <1>2 DEF OnItsWay
<1> HIDE DEF m
<1>5. /\ managers' \in Seq(Manager)
      /\ saved' \in [Manager -> Value \cup {Nil}]
      /\ running' \in [Manager -> Value \cup {Nil}]
      /\ asked # Nil => \A n \in Manager : /\ saved'[n] \in {saved[n], asked, Nil}
                                           /\ running'[n] \in {running[n], asked, Nil}
  BY <1>1, <1>3, <1>4 DEF IInv, VpnTypes
<1>6. <<VPN!Load("observe")>> \in Seq(OnItsWay')
  <2>1. Content' = Content
    BY DEF store, Content
  <2>2. OnItsWay \subseteq OnItsWay'
    BY <1>1, <2>1, StayOnTheirWay
  <2>3. VPN!Load("observe") \in OnItsWay
    BY OthersMade DEF VPN!LoadOp
  <2>4. VPN!Load("observe") \in OnItsWay'
    BY <2>2, <2>3
  <2> QED BY <2>4
<1>7. UNCHANGED <<store, config, asked>>
  BY <1>1
<1>8. VPN!Answer(i, "reload", <<VPN!Load("observe")>>)
  BY <1>1
<1> HIDE <1>1
<1> QED BY <1>5, <1>6, <1>7, <1>8, Completes

LEMMA CompletionKeeps ==
  ASSUME IInv, UNCHANGED store, VPN!Completion
  PROVE  VpnTypes' /\ AllOnTheirWay' /\ Alive(config)' /\ VPN!StartStep
<1>1. PICK i \in DOMAIN requests :
        \/ VPN!CheckLoaded(i) \/ VPN!ObserverLoaded(i) \/ VPN!DisconnectLoaded(i)
        \/ VPN!ConnectLoadFailed(i) \/ VPN!ConnectLoaded(i)
        \/ (\E m \in Manager : VPN!ConnectCreates(i, m))
        \/ VPN!Removed(i) \/ VPN!SaveFailed(i) \/ VPN!Saved(i)
        \/ VPN!ReloadFailed(i) \/ VPN!Reloaded(i)
  BY DEF VPN!Completion
<1> QED BY <1>1, EndKeeps, RemovedKeeps, ConnectKeeps, SavedKeeps, ReloadedKeeps


\* A sequence keeps its type when the type grows.
LEMMA LargerType ==
  ASSUME NEW S, NEW T, S \subseteq T, NEW q \in Seq(S)
  PROVE  q \in Seq(T)
<1>1. DOMAIN q = 1 .. Len(q) /\ Len(q) \in Nat /\ q = [j \in 1 .. Len(q) |-> q[j]]
      /\ \A j \in 1 .. Len(q) : q[j] \in S
  OBVIOUS
<1>2. q \in [1 .. Len(q) -> T]
  BY <1>1
<1> QED BY <1>1, <1>2, SeqDef

\* Steps that leave the queue as it is, and those that say that from here on
\* the connect is disturbed.
LEMMA QueueAlone ==
  ASSUME IInv, UNCHANGED <<config, requests>>, Grows,
         asked' = Nil \/ (asked' = asked /\ Content' = Content),
         managers' \in Seq(Manager),
         saved' \in [Manager -> Value \cup {Nil}],
         \A m \in Manager : saved'[m] \in {saved[m], Nil},
         running' \in [Manager -> Value \cup {Nil}],
         asked' # Nil => \A m \in Manager : running'[m] \in {running[m], Nil}
  PROVE  VpnTypes' /\ AllOnTheirWay' /\ Alive(config)' /\ VPN!StartStep
<1>1. OnItsWay \subseteq OnItsWay'
  BY StayOnTheirWay
<1>2. AllOnTheirWay'
  BY <1>1, LargerType DEF IInv, AllOnTheirWay
<1>3. VpnTypes' /\ Alive(config)'
  BY DEF IInv, VpnTypes, Alive, Grows
<1>4. VPN!StartStep
  BY DEF VPN!StartStep
<1> QED BY <1>2, <1>3, <1>4

\* The tunnels, Settings, notifications and the header.
LEMMA SystemKeeps ==
  ASSUME IInv, UNCHANGED store, VPN!HeaderRefresh \/ VPN!System \/ VPN!Notification
  PROVE  VpnTypes' /\ AllOnTheirWay' /\ Alive(config)' /\ VPN!StartStep
<1>1. Content' = Content /\ Grows
  BY DEF store, Content, Grows
<1>2. /\ managers \in Seq(Manager)
      /\ saved \in [Manager -> Value \cup {Nil}]
      /\ running \in [Manager -> Value \cup {Nil}]
  BY DEF IInv, VpnTypes
<1>3. CASE VPN!HeaderRefresh \/ VPN!Notification
  <2>1. UNCHANGED <<config, requests, asked, managers, saved, running>>
    BY <1>3 DEF VPN!HeaderRefresh, VPN!Notification, VPN!StatusDidChange, VPN!system
  <2> QED BY <1>1, <1>2, <2>1, QueueAlone
<1>4. ASSUME NEW m \in Manager,
             VPN!Established(m) \/ VPN!Reasserting(m) \/ VPN!Stopped(m) \/ VPN!Ended(m)
      PROVE  VpnTypes' /\ AllOnTheirWay' /\ Alive(config)' /\ VPN!StartStep
  <2>1. /\ UNCHANGED <<config, requests, asked, managers, saved>>
        /\ running' = [running EXCEPT ![m] = Nil] \/ running' = running
    BY <1>4 DEF VPN!Established, VPN!Reasserting, VPN!Stopped, VPN!Ended, VPN!Move
  <2>2. /\ running' \in [Manager -> Value \cup {Nil}]
        /\ \A n \in Manager : running'[n] \in {running[n], Nil}
    BY <1>2, <2>1
  <2> QED BY <1>1, <1>2, <2>1, <2>2, QueueAlone
<1>5. ASSUME NEW m \in Manager, VPN!SettingsStart(m)
      PROVE  VpnTypes' /\ AllOnTheirWay' /\ Alive(config)' /\ VPN!StartStep
  <2>1. /\ UNCHANGED <<config, requests, managers, saved>>
        /\ asked' = Nil
        /\ running' = [running EXCEPT ![m] = saved[m]]
    BY <1>5 DEF VPN!SettingsStart, VPN!Start
  <2>2. running' \in [Manager -> Value \cup {Nil}]
    BY <1>2, <2>1
  <2> QED BY <1>1, <1>2, <2>1, <2>2, QueueAlone
<1>6. ASSUME NEW m \in Manager, VPN!SettingsRemove(m)
      PROVE  VpnTypes' /\ AllOnTheirWay' /\ Alive(config)' /\ VPN!StartStep
  <2>1. UNCHANGED <<config, requests, asked>> /\ VPN!Forget(m)
    BY <1>6 DEF VPN!SettingsRemove
  <2>2. /\ managers' \in Seq(Manager)
        /\ saved' \in [Manager -> Value \cup {Nil}]
        /\ \A n \in Manager : saved'[n] \in {saved[n], Nil}
        /\ running' \in [Manager -> Value \cup {Nil}]
        /\ \A n \in Manager : running'[n] \in {running[n], Nil}
    BY <2>1, ForgetKeeps DEF IInv
  <2> QED BY <1>1, <2>1, <2>2, QueueAlone
<1> QED BY <1>3, <1>4, <1>5, <1>6 DEF VPN!System

\* A tap on the button.  A connect that comes while another is under way makes
\* it unclear what was asked for, and config is the later one's for both.
LEMMA TapKeeps ==
  ASSUME IInv, UNCHANGED store, VPN!TapConnect \/ VPN!TapDisconnect
  PROVE  VpnTypes' /\ AllOnTheirWay' /\ Alive(config)' /\ VPN!StartStep
<1>1. /\ requests \in Seq(OnItsWay)
      /\ managers \in Seq(Manager)
      /\ saved \in [Manager -> Value \cup {Nil}]
      /\ running \in [Manager -> Value \cup {Nil}]
      /\ config \in Id \cup {Nil} /\ asked \in Value \cup {Nil}
      /\ Alive(config) /\ Alive(selectedConfig) /\ selectedConfig \in Id \cup {Nil}
      /\ StoreTypes
  BY DEF IInv, VpnTypes, StoreTypes, RefsAlive, AllOnTheirWay
<1>2. UNCHANGED <<managers, saved, running, object>> /\ Content' = Content
  BY DEF VPN!TapConnect, VPN!TapDisconnect, VPN!system, store, Content
<1>3. VPN!StartStep
  BY <1>2 DEF VPN!StartStep
<1>4. CASE VPN!TapDisconnect
  <2>1. requests' = Append(requests, VPN!Load("disconnect")) /\ UNCHANGED <<config, asked>>
    BY <1>4 DEF VPN!TapDisconnect
  <2>2. OnItsWay \subseteq OnItsWay'
    BY <1>2, <2>1, StayOnTheirWay
  <2>3. VPN!Load("disconnect") \in OnItsWay
    BY OthersMade DEF VPN!LoadOp
  <2>4. Append(requests, VPN!Load("disconnect")) \in Seq(OnItsWay)
    BY <1>1, <2>3
  <2>5. AllOnTheirWay'
    BY <2>1, <2>2, <2>4, LargerType DEF AllOnTheirWay
  <2> QED BY <1>1, <1>2, <1>3, <2>1, <2>5 DEF VpnTypes, Alive
<1>5. CASE VPN!TapConnect
  <2>1. /\ requests' = Append(requests, VPN!Load("connect"))
        /\ config' = selectedConfig /\ selectedConfig # Nil
        /\ asked' = IF VPN!Connecting THEN Nil ELSE Content[selectedConfig]
    BY <1>5 DEF VPN!TapConnect, VPN!Connect
  <2>2. Content[selectedConfig] \in Value
    BY <1>1, <2>1, SentIsValue
  <2>3. VPN!Load("connect") \in OnItsWay'
    BY <1>2, <2>1, RequestsMade DEF OnItsWay, VPN!Load, VPN!LoadOp
  <2>4. requests \in Seq(OnItsWay')
    <3>1. CASE VPN!Connecting
      <4>1. OnItsWay \subseteq OnItsWay'
        BY <2>1, <3>1, StayOnTheirWay
      <4> QED BY <1>1, <4>1, LargerType
    <3>2. CASE ~ VPN!Connecting
      <4> DEFINE T == {r \in VPN!Request : r.op \notin {"connect", "save", "reload"}}
      <4>1. \A j \in 1 .. Len(requests) : requests[j] \in T
        BY <1>1, <3>2 DEF VPN!Connecting, OnItsWay
      <4>2. T \subseteq OnItsWay'
        BY DEF OnItsWay
      <4> HIDE DEF T
      <4>3. requests = [j \in 1 .. Len(requests) |-> requests[j]] /\ Len(requests) \in Nat
        BY <1>1
      <4>4. requests \in Seq(T)
        <5>1. requests \in [1 .. Len(requests) -> T]
          BY <4>1, <4>3
        <5> QED BY <4>3, <5>1, SeqDef
      <4> QED BY <4>2, <4>4, LargerType
    <3> QED BY <3>1, <3>2
  <2>5. AllOnTheirWay'
    <3> DEFINE W == OnItsWay'
    <3>1. requests \in Seq(W) /\ VPN!Load("connect") \in W
      BY <2>3, <2>4
    <3> HIDE DEF W
    <3>2. requests' \in Seq(W)
      BY <2>1, <3>1
    <3> QED BY <3>2 DEF AllOnTheirWay, W
  <2> QED BY <1>1, <1>2, <1>3, <2>1, <2>2, <2>5 DEF VpnTypes, Alive
<1> QED BY <1>4, <1>5

\* A new process asks for nothing yet, and holds nothing.
LEMMA NewProcessKeeps ==
  ASSUME IInv, VPN!NewProcess
  PROVE  VpnTypes' /\ AllOnTheirWay' /\ Alive(config)' /\ VPN!StartStep
<1>1. /\ requests' = VPN!LaunchRequests /\ config' = Nil /\ asked' = Nil
      /\ UNCHANGED <<managers, saved, running>>
  BY DEF VPN!NewProcess, VPN!system
<1>2. \A why \in {"check", "observe"} : VPN!Load(why) \in OnItsWay'
  BY <1>1, RequestsMade DEF OnItsWay, VPN!Load, VPN!LoadOp
<1>3. AllOnTheirWay'
  BY <1>1, <1>2 DEF AllOnTheirWay, VPN!LaunchRequests
<1> QED BY <1>1, <1>3 DEF IInv, VpnTypes, Alive, VPN!StartStep

\* What a screen does to VPNManager.
LEMMA ScreenKeeps ==
  ASSUME IInv, ScreenStep, Grows
  PROVE  VpnTypes' /\ AllOnTheirWay' /\ Alive(config)' /\ VPN!StartStep
<1>1. /\ UNCHANGED <<config, requests, managers, saved, running>>
      /\ asked' = Nil \/ (asked' = asked /\ \A c \in Id : Sent(object'[c]) = Sent(object[c]))
  BY DEF ScreenStep, system
<1>2. asked' = Nil \/ (asked' = asked /\ Content' = Content)
  BY <1>1 DEF Content, Sent
<1> QED BY <1>1, <1>2, QueueAlone DEF IInv, VpnTypes

-----------------------------------------------------------------------------
\* The theorems

LEMMA InitIInv == Init => IInv
<1> SUFFICES ASSUME Init PROVE IInv
  OBVIOUS
<1>1. /\ disk = <<>> /\ configs = <<>>
      /\ object = [c \in Id |-> Nil] /\ selectedConfig = Nil
      /\ editor \in Store!Editor /\ editor.config = Nil
  BY ClosedType DEF Init, Store!Init, Store!LoadedConfigs, Store!LoadedObjects,
                    Store!FirstSelected
<1>2. StoreTypes /\ RefsAlive
  BY <1>1, EmptySeq DEF StoreTypes, RefsAlive, RowsAlive, Alive
<1>3. /\ config = Nil /\ asked = Nil /\ requests = VPN!LaunchRequests
      /\ managers \in Seq(Manager)
      /\ saved \in [Manager -> Value \cup {Nil}]
      /\ running = [m \in Manager |-> Nil]
  BY ConstantsAssumption DEF Init, VPN!FirstLaunch
<1>4. VpnTypes /\ Alive(config)
  BY <1>3 DEF VpnTypes, Alive
<1>5. \A why \in {"check", "observe"} : VPN!Load(why) \in OnItsWay
  BY OthersMade DEF VPN!LoadOp
<1>6. AllOnTheirWay
  BY <1>3, <1>5 DEF AllOnTheirWay, VPN!LaunchRequests
<1> QED BY <1>2, <1>4, <1>6 DEF IInv

\* A step of a screen, one action of the store with VPNManager standing by.
LEMMA ScreensKeep ==
  ASSUME IInv, ScreenStep,
         \/ DidSelectAddRow
         \/ \E i \in DOMAIN configs : DidSelectRow(i) \/ AccessoryButtonTapped(i) \/ Swipe(i)
         \/ FillForm \/ LeaveEditor \/ Unswipe \/ CommitDelete
  PROVE  StoreTypes' /\ RefsAlive' /\ Grows
<1>1. StoreTypes /\ RefsAlive /\ editor \in Store!Editor
      /\ \A i \in DOMAIN configs : configs[i] \in Id /\ object[configs[i]] \in Store!Config
  BY ConstantsAssumption DEF IInv, StoreTypes, RefsAlive, RowsAlive, Alive
<1>2. CASE DidSelectAddRow
  <2>1. Store!EmptyForm \in Store!Editor /\ Store!EmptyForm.config = Nil
    BY DEF Store!EmptyForm, Store!Editor
  <2> QED BY <1>1, <1>2, <2>1, FormStepKeeps DEF DidSelectAddRow, Store!PushNew, Store!storeVars
<1>3. ASSUME NEW i \in DOMAIN configs, DidSelectRow(i)
      PROVE  StoreTypes' /\ RefsAlive' /\ Grows
  BY <1>1, <1>3, SelectKeeps DEF DidSelectRow
<1>4. ASSUME NEW i \in DOMAIN configs, AccessoryButtonTapped(i)
      PROVE  StoreTypes' /\ RefsAlive' /\ Grows
  <2>1. /\ UNCHANGED <<configs, object, disk, rxConfigs, selectedConfig>>
        /\ editor' = [Store!EmptyForm EXCEPT
                        !.config = configs[i], !.server = object[configs[i]].server,
                        !.port = object[configs[i]].port, !.cryptoText = object[configs[i]].crypto]
    BY <1>4 DEF AccessoryButtonTapped, Store!PushEdit, Store!storeVars
  <2>2. editor' \in Store!Editor /\ editor'.config = configs[i]
    BY <1>1, <2>1 DEF Store!EmptyForm, Store!Editor, Store!Config
  <2>3. object[configs[i]] # Nil
    BY <1>1, NilNoConfig
  <2> QED BY <1>1, <2>1, <2>2, <2>3, FormStepKeeps
<1>5. CASE FillForm
  <2>1. PICK server \in Server, port \in Port, item \in Crypto :
          editor' = [editor EXCEPT !.server = server, !.port = port,
                                   !.cryptoText = item, !.cryptoMethod = item]
    BY <1>5 DEF FillForm
  <2>2. editor' \in Store!Editor /\ editor'.config = editor.config
    BY <1>1, <2>1 DEF Store!Editor
  <2>3. UNCHANGED <<configs, object, disk, rxConfigs, selectedConfig>>
    BY <1>5 DEF FillForm
  <2>4. editor.config # Nil => object[editor.config] # Nil
    BY <1>1 DEF RefsAlive, Alive
  <2> QED BY <1>1, <2>2, <2>3, <2>4, FormStepKeeps
<1>6. CASE LeaveEditor
  <2>1. CASE Store!Back
    BY <1>1, <2>1, ClosedType, FormStepKeeps DEF Store!Back, Store!storeVars
  <2> QED BY <1>1, <1>6, <2>1, EditKeeps, AddKeeps DEF LeaveEditor
<1>7. CASE Unswipe \/ \E i \in DOMAIN configs : Swipe(i)
  BY <1>1, <1>7, FormStepKeeps DEF Unswipe, Swipe, store, RefsAlive, Alive
<1>8. CASE CommitDelete
  <2>1. swiped \in DOMAIN configs /\ Store!CommitDelete(swiped)
    BY <1>8 DEF CommitDelete, Store!CommitDelete
  <2> QED BY <1>1, <2>1, DeleteKeeps
<1> QED BY <1>2, <1>3, <1>4, <1>5, <1>6, <1>7, <1>8

LEMMA NextKeeps == IInv /\ [Next]_vars => IInv' /\ [VPN!StartStep]_(VPN!vars)
<1> SUFFICES ASSUME IInv, [Next]_vars PROVE IInv' /\ VPN!StartStep
  OBVIOUS
<1>1. CASE \/ DidSelectAddRow
           \/ \E i \in DOMAIN configs : DidSelectRow(i) \/ AccessoryButtonTapped(i) \/ Swipe(i)
           \/ FillForm \/ LeaveEditor \/ Unswipe \/ CommitDelete
  <2>1. ScreenStep
    BY <1>1 DEF DidSelectAddRow, DidSelectRow, AccessoryButtonTapped, Swipe, FillForm,
                LeaveEditor, Unswipe, CommitDelete
  <2> QED BY <1>1, <2>1, ScreensKeep, ScreenKeeps DEF IInv
<1>2. CASE TapButton \/ Behind
  <2>1. UNCHANGED store
    BY <1>2 DEF TapButton, Behind
  <2>2. StoreTypes' /\ RefsAlive'
    BY <2>1 DEF IInv, StoreTypes, RefsAlive, RowsAlive, Alive, store
  <2>3. VpnTypes' /\ AllOnTheirWay' /\ Alive(config)' /\ VPN!StartStep
    BY <1>2, <2>1, TapKeeps, CompletionKeeps, SystemKeeps DEF TapButton, Behind
  <2> QED BY <2>2, <2>3 DEF IInv
<1>3. CASE Relaunch
  <2>1. StoreTypes' /\ RefsAlive'
    BY <1>3, RestartKeeps DEF Relaunch, IInv
  <2>2. VpnTypes' /\ AllOnTheirWay' /\ Alive(config)' /\ VPN!StartStep
    BY <1>3, NewProcessKeeps DEF Relaunch
  <2> QED BY <2>1, <2>2 DEF IInv
<1>4. CASE UNCHANGED vars
  <2>1. UNCHANGED <<store, config, requests, asked, managers, saved, running>>
    BY <1>4 DEF vars, vpnVars, system
  <2>2. Grows /\ Content' = Content
    BY <2>1 DEF store, Grows, Content
  <2>3. StoreTypes' /\ RefsAlive'
    BY <2>1 DEF IInv, StoreTypes, RefsAlive, RowsAlive, Alive, store
  <2>4. VpnTypes' /\ AllOnTheirWay' /\ Alive(config)' /\ VPN!StartStep
    BY <2>1, <2>2, QueueAlone DEF IInv, VpnTypes
  <2> QED BY <2>3, <2>4 DEF IInv
<1> QED BY <1>1, <1>2, <1>3, <1>4 DEF Next

\* Edits in place, deletions and restarts never leave VPNManager with a
\* reference that a waiting connect would not find: HomeViewModel, DataManager
\* and VPNManager share the Config objects, and nobody but a restart ends one.
THEOREM ConfigStaysAlive == Spec => []ConfigAlive
<1>1. IInv => ConfigAlive
  <2> SUFFICES ASSUME IInv, NEW i \in DOMAIN requests, requests[i].op = "connect"
               PROVE  config # Nil /\ object[config] # Nil
    BY DEF ConfigAlive, VPN!Waiting
  <2>1. requests[i] \in OnItsWay
    BY DEF IInv, AllOnTheirWay
  <2> QED BY <2>1 DEF IInv, OnItsWay, Alive
<1>2. IInv /\ [Next]_vars => IInv'
  BY NextKeeps
<1> QED BY InitIInv, <1>1, <1>2, PTL DEF Spec

\* A tunnel that starts after an undisturbed tap on connect is started with
\* the contents of the configuration the header named at the tap, for any
\* number of managers, with any faults and doings in Settings and with
\* requests answered in any order.
THEOREM WhatWasAskedRuns == Spec => StartRunsWhatWasAsked
<1>1. IInv /\ [Next]_vars => IInv' /\ [VPN!StartStep]_(VPN!vars)
  BY NextKeeps
<1> QED BY InitIInv, <1>1, PTL DEF Spec, StartRunsWhatWasAsked, VPN!StartRunsWhatWasAsked
=============================================================================
