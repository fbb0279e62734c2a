-------------------------- MODULE ConfigStoreProofs --------------------------
(***************************************************************************)
(* The safety of ConfigStore for every set of ids, texts, ports and        *)
(* methods, and that it implements ConfigList: a handler of DataManager is *)
(* one operation of the durable list, a keystroke and a restart of the app *)
(* are none.                                                               *)
(***************************************************************************)
EXTENDS ConfigStore, SequenceLemmas, SequenceTheorems, TLAPS

\* Every reference in the list, and the one the editor holds, points at an
\* object: what the handlers read through a reference is a configuration.
Alive ==
    /\ \A i \in DOMAIN configs : object[configs[i]] # Nil
    /\ editor.config # Nil => object[editor.config] # Nil

\* None of these is inductive alone: a restart gives the list back only if it
\* is durable and its ids are distinct, and the relay has a unique first
\* selected row only if one row at most is selected.
IInv ==
    /\ TypeOK
    /\ Alive
    /\ DistinctIds
    /\ OneSelected
    /\ Durable
    /\ RelaysCurrent

-----------------------------------------------------------------------------
\* Lemmas about the operators of the model

\* Nil is no configuration.
LEMMA NilNoConfig == Nil \notin Config
  BY ConstantsAssumption

\* A list with one selected entry at most has a first selected one, or none.
LEMMA FirstSelectedType ==
  ASSUME NEW list \in Seq(Id), NEW obj,
         \A i, j \in DOMAIN list :
            obj[list[i]].isSelected /\ obj[list[j]].isSelected => i = j
  PROVE  FirstSelected(list, obj) \in Id \cup {Nil}
  BY DEF FirstSelected, IsFirstSelected

\* The only selected entry is the first selected one.
LEMMA FirstSelectedUnique ==
  ASSUME NEW list \in Seq(Id), NEW obj, NEW k \in DOMAIN list,
         obj[list[k]].isSelected,
         \A j \in DOMAIN list : obj[list[j]].isSelected => j = k
  PROVE  FirstSelected(list, obj) = list[k]
<1>1. IsFirstSelected(list, obj, k)
  BY DEF IsFirstSelected
<1>2. \A i \in DOMAIN list : IsFirstSelected(list, obj, i) => i = k
  BY DEF IsFirstSelected
<1>3. (CHOOSE i \in DOMAIN list : IsFirstSelected(list, obj, i)) = k
  BY <1>1, <1>2
<1> QED BY <1>3 DEF FirstSelected

\* A snapshot is a value UserDefaults can hold.
LEMMA SnapshotType ==
  ASSUME NEW list \in Seq(Id), NEW obj \in [Id -> Config \cup {Nil}],
         \A i \in DOMAIN list : obj[list[i]] # Nil
  PROVE  Snapshot(list, obj) \in Seq(Stored)
<1>1. DOMAIN list = 1 .. Len(list) /\ Len(list) \in Nat
  OBVIOUS
<1>2. \A i \in DOMAIN list : list[i] \in Id /\ obj[list[i]] \in Config
  BY <1>1
<1>3. Snapshot(list, obj) \in [1 .. Len(list) -> Stored]
  BY <1>1, <1>2 DEF Snapshot, Stored
<1> QED BY <1>1, <1>3, SeqDef

\* What save() leaves behind, whatever handler made the new list and objects.
LEMMA SaveKeeps ==
  ASSUME NEW list \in Seq(Id), NEW obj \in [Id -> Config \cup {Nil}],
         IsInjective(list),
         \A i \in DOMAIN list : obj[list[i]] # Nil,
         \A i, j \in DOMAIN list :
            obj[list[i]].isSelected /\ obj[list[j]].isSelected => i = j,
         Save(list, obj),
         editor' \in Editor,
         editor'.config # Nil => obj[editor'.config] # Nil
  PROVE  IInv'
<1>1. TypeOK'
  <2>1. Snapshot(list, obj) \in Seq(Stored)
    BY SnapshotType
  <2>2. FirstSelected(list, obj) \in Id \cup {Nil}
    BY FirstSelectedType
  <2> QED BY <2>1, <2>2 DEF TypeOK, Save
<1>2. Alive' /\ DistinctIds' /\ OneSelected'
  BY DEF Alive, DistinctIds, OneSelected, Save
<1>3. Durable' /\ RelaysCurrent'
  BY DEF Durable, RelaysCurrent, Save
<1> QED BY <1>1, <1>2, <1>3 DEF IInv

\* A step that changes nothing but the form keeps the invariant.
LEMMA FormStepKeeps ==
  ASSUME IInv, UNCHANGED storeVars, editor' \in Editor,
         editor'.config # Nil => object[editor'.config] # Nil
  PROVE  IInv'
  BY DEF IInv, TypeOK, Alive, DistinctIds, OneSelected, Durable, RelaysCurrent, storeVars

\* The form that done() reads, when its guard lets it pass, is a configuration.
LEMMA FormModelType ==
  ASSUME TypeOK, FormComplete
  PROVE  FormModel \in Config /\ ~FormModel.isSelected
<1>1. /\ editor.server \in Server
      /\ editor.port \in Port \cup {Junk}
      /\ editor.cryptoMethod \in Crypto
  BY DEF TypeOK, Editor, FormComplete
<1>2. ParsedPort(editor.port) \in Port
  BY ConstantsAssumption DEF ParsedPort
<1> QED BY <1>1, <1>2 DEF FormModel, Config

\* Writing the flag of a configuration leaves a configuration.
LEMMA FlagWritten ==
  ASSUME NEW o \in Config, NEW b \in BOOLEAN
  PROVE  /\ [o EXCEPT !.isSelected = b] \in Config
         /\ [o EXCEPT !.isSelected = b].isSelected = b
  BY DEF Config

\* After selecteConfig's loop the flag is set on c and on no other row.
LEMMA OnlySelectedObjects ==
  ASSUME NEW list \in Seq(Id), NEW obj \in [Id -> Config \cup {Nil}], NEW c,
         \A i \in DOMAIN list : obj[list[i]] # Nil
  PROVE  /\ OnlySelected(list, obj, c) \in [Id -> Config \cup {Nil}]
         /\ \A i \in DOMAIN list :
              /\ OnlySelected(list, obj, c)[list[i]] # Nil
              /\ OnlySelected(list, obj, c)[list[i]].isSelected = (list[i] = c)
         /\ \A d \in Id : obj[d] # Nil => OnlySelected(list, obj, c)[d] # Nil
<1> DEFINE new == OnlySelected(list, obj, c)
<1>1. \A i \in DOMAIN list : list[i] \in Id /\ obj[list[i]] \in Config
  OBVIOUS
<1>2. \A d \in ToSet(list) :
         /\ d \in Id
         /\ new[d] \in Config
         /\ new[d].isSelected = (d = c)
  <2> SUFFICES ASSUME NEW d \in ToSet(list)
               PROVE  /\ d \in Id
                      /\ new[d] \in Config
                      /\ new[d].isSelected = (d = c)
    OBVIOUS
  <2>1. d \in Id /\ obj[d] \in Config
    BY <1>1 DEF ToSet
  <2>2. new[d] = [obj[d] EXCEPT !.isSelected = (d = c)]
    BY <2>1 DEF OnlySelected
  <2>3. (d = c) \in BOOLEAN
    OBVIOUS
  <2> HIDE DEF new
  <2> QED BY <2>1, <2>2, <2>3, FlagWritten
<1>3. \A d \in Id \ ToSet(list) : new[d] = obj[d]
  BY DEF OnlySelected
<1>4. DOMAIN new = Id /\ new = [d \in Id |-> new[d]]
  BY DEF OnlySelected
<1> HIDE DEF new
<1>5. new \in [Id -> Config \cup {Nil}]
  BY <1>2, <1>3, <1>4
<1>6. \A i \in DOMAIN list : list[i] \in ToSet(list)
  BY DEF ToSet
<1>7. \A i \in DOMAIN list : new[list[i]] # Nil /\ new[list[i]].isSelected = (list[i] = c)
  BY <1>2, <1>6, NilNoConfig
<1>8. \A d \in Id : obj[d] # Nil => new[d] # Nil
  BY <1>2, <1>3, NilNoConfig
<1> QED BY <1>5, <1>7, <1>8 DEF new

\* The closed form holds no reference.
LEMMA ClosedType == Closed \in Editor /\ Closed.config = Nil
  BY DEF Closed, EmptyForm, Editor

-----------------------------------------------------------------------------
\* One lemma per handler that saves

LEMMA SelectKeeps ==
  ASSUME IInv, NEW i \in DOMAIN configs, DidSelectRow(i)
  PROVE  IInv'
<1> DEFINE c   == configs[i]
           obj == OnlySelected(configs, object, c)
<1> USE DEF IInv, TypeOK, Alive
<1>1. /\ obj \in [Id -> Config \cup {Nil}]
      /\ \A j \in DOMAIN configs :
            obj[configs[j]] # Nil /\ obj[configs[j]].isSelected = (configs[j] = c)
      /\ \A d \in Id : object[d] # Nil => obj[d] # Nil
  BY OnlySelectedObjects
<1>2. Save(configs, obj) /\ editor' = editor
  BY DEF DidSelectRow, SelecteConfig
<1> HIDE DEF obj
<1>3. \A j, k \in DOMAIN configs :
         obj[configs[j]].isSelected /\ obj[configs[k]].isSelected => j = k
  BY <1>1 DEF DistinctIds, IsInjective
<1>4. editor.config # Nil => obj[editor.config] # Nil
  BY <1>1 DEF Editor
<1> QED BY <1>1, <1>2, <1>3, <1>4, SaveKeeps DEF DistinctIds

LEMMA DeleteKeeps ==
  ASSUME IInv, NEW i \in DOMAIN configs, CommitDelete(i)
  PROVE  IInv'
<1> DEFINE list == RemoveAt(configs, i)
           at(j) == IF j < i THEN j ELSE j + 1
<1> USE DEF IInv, TypeOK, Alive
<1>1. /\ list \in Seq(Id)
      /\ DOMAIN list = 1 .. Len(configs) - 1
      /\ \A j \in DOMAIN list : list[j] = configs[at(j)]
  BY RemoveAtEntries
<1>2. /\ \A j \in DOMAIN list : at(j) \in DOMAIN configs
      /\ \A j, k \in DOMAIN list : at(j) = at(k) => j = k
  BY <1>1
<1> HIDE DEF list, at
<1>3. IsInjective(list)
  BY <1>1, <1>2 DEF DistinctIds, IsInjective
<1>4. \A j \in DOMAIN list : object[list[j]] # Nil
  BY <1>1, <1>2
<1>5. \A j, k \in DOMAIN list :
         object[list[j]].isSelected /\ object[list[k]].isSelected => j = k
  BY <1>1, <1>2 DEF OneSelected
<1>6. Save(list, object) /\ editor' = editor
  BY DEF CommitDelete, DeleteConfig, list
<1> QED BY <1>1, <1>3, <1>4, <1>5, <1>6, SaveKeeps

LEMMA EditKeeps ==
  ASSUME IInv, DoneEdit
  PROVE  IInv'
<1> DEFINE c     == editor.config
           model == [FormModel EXCEPT !.isSelected = object[c].isSelected]
           obj   == [object EXCEPT ![c] = model]
<1> USE DEF IInv, TypeOK, Alive
<1>1. c \in Id /\ object[c] \in Config
  BY DEF DoneEdit, Editor
<1>2. object[c].isSelected \in BOOLEAN
  BY <1>1 DEF Config
<1>3. model \in Config /\ model.isSelected = object[c].isSelected
  <2>1. FormModel \in Config
    BY FormModelType DEF DoneEdit
  <2> HIDE DEF IInv, TypeOK, Alive
  <2> QED BY <1>2, <2>1, FlagWritten
<1>4. UpdateConfig(c, FormModel) /\ editor' = Closed
  BY DEF DoneEdit
<1> HIDE DEF c, model
<1>5. /\ obj \in [Id -> Config \cup {Nil}]
      /\ \A d \in Id : object[d] # Nil => obj[d] # Nil /\ obj[d].isSelected = object[d].isSelected
  BY <1>1, <1>3, NilNoConfig
<1>6. \A j \in DOMAIN configs : configs[j] \in Id
  OBVIOUS
<1>7. /\ \A j \in DOMAIN configs : obj[configs[j]] # Nil
      /\ \A j, k \in DOMAIN configs :
            obj[configs[j]].isSelected /\ obj[configs[k]].isSelected => j = k
  BY <1>5, <1>6 DEF OneSelected
<1>8. editor' \in Editor /\ editor'.config = Nil
  BY <1>4, ClosedType
<1>9. CASE c \in ToSet(configs)
  <2>1. Save(configs, obj)
    BY <1>4, <1>9 DEF UpdateConfig, Update, c, model
  <2> HIDE DEF obj
  <2> QED BY <1>5, <1>7, <1>8, <2>1, SaveKeeps DEF DistinctIds
<1>10. CASE c \notin ToSet(configs)
  <2>1. object' = obj /\ UNCHANGED <<configs, disk, rxConfigs, selectedConfig>>
    BY <1>4, <1>10 DEF UpdateConfig, Update, c, model
  <2>2. \A j \in DOMAIN configs : object'[configs[j]] = object[configs[j]]
    BY <1>6, <1>10, <2>1 DEF ToSet
  <2>3. TypeOK' /\ Alive' /\ DistinctIds' /\ OneSelected'
    BY <1>5, <1>7, <1>8, <2>1 DEF DistinctIds, OneSelected
  <2>4. Durable'
    BY <2>1, <2>2 DEF Durable, Snapshot
  <2>5. RelaysCurrent'
    <3>1. CASE \E k \in DOMAIN configs : object[configs[k]].isSelected
      <4>1. PICK k \in DOMAIN configs : object[configs[k]].isSelected
        BY <3>1
      <4>2. \A j \in DOMAIN configs : object[configs[j]].isSelected => j = k
        BY <4>1 DEF OneSelected
      <4>3. FirstSelected(configs, object) = configs[k]
        BY <4>1, <4>2, FirstSelectedUnique
      <4>4. FirstSelected(configs, object') = configs[k]
        <5>1. /\ object'[configs[k]].isSelected
              /\ \A j \in DOMAIN configs : object'[configs[j]].isSelected => j = k
          BY <2>2, <4>1, <4>2
        <5> QED BY <5>1, FirstSelectedUnique
      <4> QED BY <2>1, <4>3, <4>4 DEF RelaysCurrent
    <3>2. CASE ~ \E k \in DOMAIN configs : object[configs[k]].isSelected
      BY <2>1, <2>2, <3>2 DEF RelaysCurrent, FirstSelected
    <3> QED BY <3>1, <3>2
  <2> QED BY <2>3, <2>4, <2>5
<1> QED BY <1>9, <1>10

LEMMA AddKeeps ==
  ASSUME IInv, NEW id \in Id, DoneAdd(id)
  PROVE  IInv'
<1> DEFINE list == Append(configs, id)
           with == [object EXCEPT ![id] = FormModel]
           obj  == IF Len(list) = 1 THEN OnlySelected(list, with, id) ELSE with
<1> USE DEF IInv, TypeOK, Alive
<1>1. /\ list \in Seq(Id)
      /\ DOMAIN list = 1 .. Len(configs) + 1 /\ Len(list) = Len(configs) + 1
      /\ DOMAIN configs = 1 .. Len(configs) /\ Len(configs) \in Nat
      /\ \A j \in DOMAIN configs : list[j] = configs[j] /\ configs[j] \in Id
      /\ list[Len(configs) + 1] = id
  BY AppendProperties
<1>2. FormModel \in Config /\ ~FormModel.isSelected
  BY FormModelType DEF DoneAdd
<1>3. object[id] = Nil /\ Save(list, obj) /\ editor' = Closed
  BY DEF DoneAdd, AddConfig
<1> HIDE DEF list
<1>4. /\ with \in [Id -> Config \cup {Nil}]
      /\ with[id] = FormModel
      /\ \A j \in DOMAIN configs : configs[j] # id /\ with[configs[j]] = object[configs[j]]
  BY <1>1, <1>3, <1>2
<1>5. IsInjective(list)
  <2>1. ASSUME NEW j \in DOMAIN list
        PROVE  \/ j \in DOMAIN configs /\ list[j] = configs[j] /\ list[j] # id
               \/ j = Len(configs) + 1 /\ list[j] = id
    BY <1>1, <1>4
  <2>2. \A j, k \in DOMAIN configs : configs[j] = configs[k] => j = k
    BY DEF DistinctIds, IsInjective
  <2> HIDE DEF IInv, TypeOK, Alive
  <2> QED BY <2>1, <2>2 DEF IsInjective
<1> HIDE DEF with
<1>6. \A j \in DOMAIN list : with[list[j]] # Nil
  BY <1>1, <1>2, <1>4, NilNoConfig
<1>7. /\ obj \in [Id -> Config \cup {Nil}]
      /\ \A j \in DOMAIN list : obj[list[j]] # Nil
      /\ \A j, k \in DOMAIN list :
            obj[list[j]].isSelected /\ obj[list[k]].isSelected => j = k
  <2>1. CASE Len(list) = 1
    <3>1. \A j, k \in DOMAIN list : j = k
      BY <1>1, <2>1
    <3> QED BY <1>1, <1>4, <1>6, <2>1, <3>1, OnlySelectedObjects
  <2>2. CASE Len(list) # 1
    <3>1. \A j \in DOMAIN list : with[list[j]].isSelected =>
             j \in DOMAIN configs /\ object[configs[j]].isSelected
      BY <1>1, <1>2, <1>4
    <3> QED BY <1>4, <1>6, <2>2, <3>1 DEF OneSelected
  <2> QED BY <2>1, <2>2
<1>8. editor' \in Editor /\ editor'.config = Nil
  BY <1>3, ClosedType
<1> HIDE DEF obj
<1> QED BY <1>1, <1>3, <1>5, <1>7, <1>8, SaveKeeps

\* What a new process reads is what the last one had: the same references,
\* and behind each the same contents.
LEMMA RelaunchKeeps ==
  ASSUME IInv, Relaunch
  PROVE  IInv'
<1> USE DEF IInv, TypeOK, Alive
<1>1. /\ DOMAIN disk = DOMAIN configs
      /\ \A i \in DOMAIN configs :
            disk[i] = [id |-> configs[i], config |-> object[configs[i]]]
  BY DEF Durable, Snapshot
<1>2. LoadedConfigs(disk) = configs
  BY <1>1 DEF LoadedConfigs
<1>3. \A i \in DOMAIN configs : LoadedObjects(disk)[configs[i]] = object[configs[i]]
  <2> SUFFICES ASSUME NEW i \in DOMAIN configs
               PROVE  LoadedObjects(disk)[configs[i]] = object[configs[i]]
    OBVIOUS
  <2>1. configs[i] \in Id /\ disk[i].id = configs[i]
    BY <1>1
  <2>2. \A j \in DOMAIN disk : disk[j].id = configs[i] => j = i
    BY <1>1 DEF DistinctIds, IsInjective
  <2>3. (CHOOSE j \in DOMAIN disk : disk[j].id = configs[i]) = i
    BY <1>1, <2>1, <2>2
  <2> QED BY <1>1, <2>1, <2>3 DEF LoadedObjects
<1>4. LoadedObjects(disk) \in [Id -> Config \cup {Nil}]
  <2>1. \A i \in DOMAIN disk : disk[i].config \in Config
    BY <1>1
  <2> QED BY <2>1 DEF LoadedObjects
<1>5. /\ configs' = configs /\ disk' = disk /\ rxConfigs' = configs
      /\ object' = LoadedObjects(disk)
      /\ selectedConfig' = FirstSelected(configs', object')
      /\ editor' \in Editor /\ editor'.config = Nil
  BY <1>2, ClosedType DEF Relaunch
<1>6. OneSelected' /\ DistinctIds'
  BY <1>3, <1>5 DEF OneSelected, DistinctIds
<1>7. selectedConfig' \in Id \cup {Nil}
  BY <1>5, <1>6, FirstSelectedType DEF OneSelected
<1>8. TypeOK' /\ Alive'
  BY <1>3, <1>4, <1>5, <1>7
<1>9. Durable' /\ RelaysCurrent'
  BY <1>1, <1>3, <1>5 DEF Durable, Snapshot, RelaysCurrent
<1> QED BY <1>6, <1>8, <1>9
-----------------------------------------------------------------------------
\* The theorems

\* A new process without a stored list starts with nothing.
LEMMA InitIInv == Init => IInv
<1> SUFFICES ASSUME Init PROVE IInv
  OBVIOUS
<1>1. /\ disk = <<>> /\ configs = <<>> /\ rxConfigs = <<>>
      /\ object = [c \in Id |-> Nil] /\ selectedConfig = Nil
  BY DEF Init, LoadedConfigs, LoadedObjects, FirstSelected
<1>2. editor \in Editor /\ editor.config = Nil
  BY ClosedType DEF Init
<1>3. TypeOK
  BY <1>1, <1>2, EmptySeq DEF TypeOK
<1>4. Alive /\ DistinctIds /\ OneSelected
  BY <1>1, <1>2 DEF Alive, DistinctIds, IsInjective, OneSelected
<1>5. Durable /\ RelaysCurrent
  BY <1>1 DEF Durable, Snapshot, RelaysCurrent, FirstSelected
<1> QED BY <1>3, <1>4, <1>5 DEF IInv

\* Every handler, every keystroke and every restart keeps the invariant.
LEMMA NextIInv == IInv /\ [Next]_vars => IInv'
<1> SUFFICES ASSUME IInv, [Next]_vars PROVE IInv'
  OBVIOUS
<1> USE DEF IInv, TypeOK, Alive
<1>1. CASE PushNew
  <2>1. EmptyForm \in Editor /\ EmptyForm.config = Nil
    BY DEF EmptyForm, Editor
  <2> QED BY <1>1, <2>1, FormStepKeeps DEF PushNew
<1>2. ASSUME NEW i \in DOMAIN configs, PushEdit(i)
      PROVE  IInv'
  <2>1. configs[i] \in Id /\ object[configs[i]] \in Config
    OBVIOUS
  <2>2. editor' \in Editor /\ editor'.config = configs[i]
    BY <1>2, <2>1 DEF PushEdit, EmptyForm, Editor, Config
  <2> QED BY <1>2, <2>2, FormStepKeeps DEF PushEdit
<1>3. ASSUME NEW text \in Server \cup {Blank}, TypeServer(text)
      PROVE  IInv'
  BY <1>3, FormStepKeeps DEF TypeServer, Editor
<1>4. ASSUME NEW text \in Port \cup {Blank, Junk}, TypePort(text)
      PROVE  IInv'
  BY <1>4, FormStepKeeps DEF TypePort, Editor
<1>5. ASSUME NEW item \in Crypto, PickCrypto(item)
      PROVE  IInv'
  BY <1>5, FormStepKeeps DEF PickCrypto, Editor
<1>6. CASE DoneRefused
  BY <1>6, FormStepKeeps DEF DoneRefused, Editor
<1>7. CASE TipDismissed
  BY <1>7, FormStepKeeps DEF TipDismissed, Editor
<1>8. CASE Back
  BY <1>8, FormStepKeeps, ClosedType DEF Back
<1>9. CASE UNCHANGED vars
  BY <1>9, FormStepKeeps DEF vars
<1> QED
  BY <1>1, <1>2, <1>3, <1>4, <1>5, <1>6, <1>7, <1>8, <1>9,
     SelectKeeps, DeleteKeeps, EditKeeps, AddKeeps, RelaunchKeeps DEF Next

\* The invariant holds of every behaviour.
THEOREM Invariant == Spec => []IInv
  BY InitIInv, NextIInv, PTL DEF Spec

\* Every variable keeps its type; in particular no configuration ever has a
\* field the editor should have refused.
THEOREM TypeCorrect == Spec => []TypeOK
  BY Invariant, PTL DEF IInv

\* However often the app is killed, memory and disk agree between two
\* handlers.
THEOREM Durability == Spec => []Durable
  BY Invariant, PTL DEF IInv

\* At most one configuration is selected.
THEOREM SelectionSafe == Spec => []OneSelected
  BY Invariant, PTL DEF IInv

\* The table and the header show the list and its selected configuration.
THEOREM RelaysFollow == Spec => []RelaysCurrent
  BY Invariant, PTL DEF IInv

\* No configuration has two rows, so that an id finds the row it means.
THEOREM RowsDistinct == Spec => []DistinctIds
  BY Invariant, PTL DEF IInv
----------------------------------------------------------------------------
\* What the list says of a configuration, without its flag.
Value(o) == [server |-> o.server, port |-> o.port, crypto |-> o.crypto]

\* The list read through its references, of any list and objects.
Read(list, obj) == [i \in DOMAIN list |-> [id |-> list[i], value |-> Value(obj[list[i]])]]

LEMMA StoredListIsRead == StoredList = Read(configs, object)
  BY DEF StoredList, Read, Value

LEMMA StoredListIsReadNext == StoredList' = Read(configs', object')
  BY DEF StoredList, Read, Value

\* Only the contents behind the list's own references are read.
LEMMA ReadSame ==
  ASSUME NEW list, NEW obj1, NEW obj2,
         \A i \in DOMAIN list : Value(obj1[list[i]]) = Value(obj2[list[i]])
  PROVE  Read(list, obj1) = Read(list, obj2)
  BY DEF Read

\* The flag is no part of a value.
LEMMA ValueOfFlagged ==
  ASSUME NEW o \in Config, NEW b
  PROVE  Value([o EXCEPT !.isSelected = b]) = Value(o)
  BY DEF Value, Config

\* Without a selected row nothing is chosen.
LEMMA FirstSelectedNone ==
  ASSUME NEW list, NEW obj, \A i \in DOMAIN list : ~ obj[list[i]].isSelected
  PROVE  FirstSelected(list, obj) = Nil
  BY DEF FirstSelected

\* A step after which the list reads the same and the same row is chosen is
\* none of the abstract list's.
LEMMA Stutters ==
  ASSUME StoredList' = StoredList, selectedConfig' = selectedConfig
  PROVE  [Abstract!Next]_(Abstract!vars)
  BY DEF Abstract!vars

-----------------------------------------------------------------------------
LEMMA InitRefines == Init => Abstract!Init
<1> SUFFICES ASSUME Init PROVE Abstract!Init
  OBVIOUS
<1>1. configs = <<>> /\ selectedConfig = Nil
  BY DEF Init, LoadedConfigs, LoadedObjects, FirstSelected
<1>2. StoredList = <<>>
  BY <1>1 DEF StoredList
<1> QED BY <1>1, <1>2 DEF Abstract!Init

\* A tap on a row chooses it and changes no entry.
LEMMA SelectRefines ==
  ASSUME IInv, NEW i \in DOMAIN configs, DidSelectRow(i)
  PROVE  Abstract!Choose(i) /\ i \in DOMAIN StoredList
<1> DEFINE c   == configs[i]
           obj == OnlySelected(configs, object, c)
<1> USE DEF IInv, TypeOK, Alive
<1>1. Save(configs, obj)
  BY DEF DidSelectRow, SelecteConfig
<1>2. \A j \in DOMAIN configs : obj[configs[j]].isSelected = (configs[j] = c)
  BY OnlySelectedObjects
<1>3. \A j \in DOMAIN configs : Value(obj[configs[j]]) = Value(object[configs[j]])
  <2> SUFFICES ASSUME NEW j \in DOMAIN configs
               PROVE  Value(obj[configs[j]]) = Value(object[configs[j]])
    OBVIOUS
  <2>1. configs[j] \in Id /\ object[configs[j]] \in Config /\ configs[j] \in ToSet(configs)
    BY DEF ToSet
  <2>2. obj[configs[j]] = [object[configs[j]] EXCEPT !.isSelected = (configs[j] = c)]
    BY <2>1 DEF OnlySelected
  <2> HIDE DEF obj, c, IInv, TypeOK, Alive
  <2> QED BY <2>1, <2>2, ValueOfFlagged
<1> HIDE DEF obj
<1>4. Read(configs, obj) = Read(configs, object)
  BY <1>3, ReadSame
<1>5. StoredList' = StoredList
  BY <1>1, <1>4, StoredListIsRead, StoredListIsReadNext DEF Save
<1>6. FirstSelected(configs, obj) = configs[i]
  <2>1. \A j \in DOMAIN configs : configs[j] = c <=> j = i
    BY DEF DistinctIds, IsInjective
  <2>2. \A j \in DOMAIN configs : obj[configs[j]].isSelected <=> j = i
    BY <1>2, <2>1
  <2>3. configs \in Seq(Id) /\ obj[configs[i]].isSelected
    BY <2>2
  <2> HIDE DEF IInv, TypeOK, Alive, c
  <2> QED BY <2>2, <2>3, FirstSelectedUnique
<1>7. DOMAIN StoredList = DOMAIN configs /\ StoredList[i].id = configs[i]
  BY DEF StoredList
<1> QED BY <1>1, <1>5, <1>6, <1>7 DEF Abstract!Choose, Save

\* The first selected row is chosen by flags alone.
LEMMA FirstSelectedSame ==
  ASSUME NEW list, NEW obj1, NEW obj2,
         \A i \in DOMAIN list : obj1[list[i]].isSelected <=> obj2[list[i]].isSelected
  PROVE  FirstSelected(list, obj1) = FirstSelected(list, obj2)
<1> DEFINE some1 == \E i \in DOMAIN list : obj1[list[i]].isSelected
           some2 == \E i \in DOMAIN list : obj2[list[i]].isSelected
           first1 == CHOOSE i \in DOMAIN list : IsFirstSelected(list, obj1, i)
           first2 == CHOOSE i \in DOMAIN list : IsFirstSelected(list, obj2, i)
<1>1. \A i : IsFirstSelected(list, obj1, i) <=> IsFirstSelected(list, obj2, i)
  BY DEF IsFirstSelected
<1>2. first1 = first2
  BY <1>1
<1>3. some1 <=> some2
  OBVIOUS
<1>4. /\ FirstSelected(list, obj1) = IF some1 THEN list[first1] ELSE Nil
      /\ FirstSelected(list, obj2) = IF some2 THEN list[first2] ELSE Nil
  BY DEF FirstSelected
<1> HIDE DEF some1, some2, first1, first2
<1> QED BY <1>2, <1>3, <1>4

\* A deletion takes one entry out, and the choice with it if it was chosen.
LEMMA DeleteRefines ==
  ASSUME IInv, NEW i \in DOMAIN configs, CommitDelete(i)
  PROVE  Abstract!Delete(i) /\ i \in DOMAIN StoredList
<1> DEFINE list == RemoveAt(configs, i)
           at(j) == IF j < i THEN j ELSE j + 1
           kept  == RemoveAt(StoredList, i)
           entry(j) == [id |-> configs[j], value |-> Value(object[configs[j]])]
<1>1. Save(list, object)
  BY DEF CommitDelete, DeleteConfig
<1>2. configs \in Seq(Id) /\ DistinctIds /\ OneSelected
      /\ selectedConfig = FirstSelected(configs, object)
  BY DEF IInv, TypeOK, RelaysCurrent
<1>3. /\ list \in Seq(Id)
      /\ DOMAIN list = 1 .. Len(configs) - 1
      /\ \A j \in DOMAIN list : list[j] = configs[at(j)]
  BY <1>2, RemoveAtEntries
<1>4. /\ DOMAIN configs = 1 .. Len(configs) /\ Len(configs) \in Nat /\ i \in 1 .. Len(configs)
      /\ \A j \in DOMAIN list : at(j) \in DOMAIN configs
  BY <1>2, <1>3
<1>5. /\ DOMAIN StoredList = DOMAIN configs
      /\ \A j \in DOMAIN configs : StoredList[j] = entry(j)
  BY StoredListIsRead DEF Read
<1>6. \E S : StoredList \in Seq(S) /\ Len(StoredList) = Len(configs)
  <2> DEFINE S == {entry(j) : j \in DOMAIN configs}
  <2>1. StoredList = [j \in 1 .. Len(configs) |-> entry(j)]
    BY <1>4, StoredListIsRead DEF Read
  <2>2. \A j \in 1 .. Len(configs) : entry(j) \in S
    BY <1>4
  <2> HIDE DEF S, entry
  <2>3. StoredList \in Seq(S) /\ Len(StoredList) = Len(configs)
    BY <1>4, <2>1, <2>2
  <2> QED BY <2>3
<1>7. /\ DOMAIN kept = 1 .. Len(configs) - 1
      /\ kept = [j \in DOMAIN kept |-> kept[j]]
      /\ \A j \in DOMAIN kept : kept[j] = StoredList[at(j)]
  <2>1. PICK S : StoredList \in Seq(S) /\ Len(StoredList) = Len(configs)
    BY <1>6
  <2>2. i \in DOMAIN StoredList
    BY <1>5
  <2>3. /\ kept \in Seq(S)
        /\ DOMAIN kept = 1 .. Len(configs) - 1
        /\ \A j \in 1 .. Len(configs) - 1 : kept[j] = IF j < i THEN StoredList[j] ELSE StoredList[j + 1]
    BY <2>1, <2>2, RemoveAtEntries
  <2> HIDE DEF kept
  <2>4. kept = [j \in DOMAIN kept |-> kept[j]]
    BY <2>3
  <2> QED BY <2>3, <2>4
<1> HIDE DEF list, kept, at, entry
<1>8. Read(list, object) = kept
  <2>1. \A j \in DOMAIN list : kept[j] = [id |-> list[j], value |-> Value(object[list[j]])]
    BY <1>3, <1>4, <1>5, <1>7 DEF entry
  <2>2. DOMAIN list = DOMAIN kept
    BY <1>3, <1>7
  <2> QED BY <1>7, <2>1, <2>2 DEF Read
<1>9. StoredList' = kept
  BY <1>1, <1>8, StoredListIsReadNext DEF Save
<1>10. FirstSelected(list, object)
        = IF configs[i] = selectedConfig THEN Nil ELSE selectedConfig
  <2>1. CASE \E k \in DOMAIN configs : object[configs[k]].isSelected
    <3>1. PICK k \in DOMAIN configs : object[configs[k]].isSelected
      BY <2>1
    <3>2. \A j \in DOMAIN configs : object[configs[j]].isSelected => j = k
      BY <1>2, <3>1 DEF OneSelected
    <3>3. selectedConfig = configs[k]
      BY <1>2, <3>1, <3>2, FirstSelectedUnique
    <3>4. CASE k = i
      <4>1. \A j \in DOMAIN list : ~ object[list[j]].isSelected
        BY <1>3, <1>4, <3>2, <3>4 DEF at
      <4> QED BY <3>3, <3>4, <4>1, FirstSelectedNone
    <3>5. CASE k # i
      <4>1. configs[i] # configs[k]
        BY <1>2, <3>5 DEF DistinctIds, IsInjective
      <4>2. PICK l \in DOMAIN list : at(l) = k
        <5>1. CASE k < i
          BY <1>3, <1>4, <5>1 DEF at
        <5>2. CASE ~ (k < i)
          <6>1. k - 1 \in DOMAIN list /\ at(k - 1) = k
            BY <1>3, <1>4, <3>5, <5>2 DEF at
          <6> QED BY <6>1
        <5> QED BY <5>1, <5>2
      <4>3. list[l] = configs[k]
        BY <1>3, <4>2
      <4>4. \A j \in DOMAIN list : object[list[j]].isSelected => j = l
        BY <1>3, <1>4, <3>2, <4>2 DEF at
      <4>5. object[list[l]].isSelected
        BY <3>1, <4>3
      <4>6. FirstSelected(list, object) = list[l]
        BY <1>3, <4>4, <4>5, FirstSelectedUnique
      <4> QED BY <3>3, <4>1, <4>3, <4>6
    <3> QED BY <3>4, <3>5
  <2>2. CASE ~ \E k \in DOMAIN configs : object[configs[k]].isSelected
    <3>1. selectedConfig = Nil
      BY <1>2, <2>2, FirstSelectedNone
    <3>2. \A j \in DOMAIN list : ~ object[list[j]].isSelected
      BY <1>3, <1>4, <2>2
    <3>3. FirstSelected(list, object) = Nil
      BY <3>2, FirstSelectedNone
    <3> QED BY <3>1, <3>3
  <2> QED BY <2>1, <2>2
<1>11. StoredList[i].id = configs[i]
  BY <1>4, <1>5 DEF entry
<1>12. kept = Abstract!RemoveAt(StoredList, i)
  BY DEF kept, RemoveAt, Abstract!RemoveAt
<1> QED BY <1>1, <1>5, <1>9, <1>10, <1>11, <1>12 DEF Abstract!Delete, Save

\* An edit puts a new value at the row of the edited configuration; if that
\* row is gone, the list does not change.
LEMMA EditRefines ==
  ASSUME IInv, DoneEdit
  PROVE  \/ UNCHANGED <<StoredList, selectedConfig>>
         \/ \E i \in DOMAIN StoredList, v \in [server : Server, port : Port, crypto : Crypto] :
              Abstract!Replace(i, v)
<1> DEFINE c     == editor.config
           model == [FormModel EXCEPT !.isSelected = object[c].isSelected]
           obj   == [object EXCEPT ![c] = model]
<1>1. /\ configs \in Seq(Id) /\ DistinctIds
      /\ selectedConfig = FirstSelected(configs, object)
      /\ object \in [Id -> Config \cup {Nil}]
      /\ \A j \in DOMAIN configs : configs[j] \in Id
  BY DEF IInv, TypeOK, RelaysCurrent
<1>2. c \in Id /\ object[c] \in Config
  BY DEF IInv, TypeOK, Alive, DoneEdit, Editor
<1>3. UpdateConfig(c, FormModel)
  BY DEF DoneEdit
<1>4. /\ FormModel \in Config
      /\ model \in Config /\ model.isSelected = object[c].isSelected
      /\ Value(model) = Value(FormModel)
  <2>1. FormModel \in Config
    BY FormModelType DEF DoneEdit, IInv, TypeOK
  <2>2. object[c].isSelected \in BOOLEAN
    BY <1>2 DEF Config
  <2> QED BY <2>1, <2>2, FlagWritten, ValueOfFlagged
<1> HIDE DEF c, model
<1>5. obj[c] = model /\ \A d \in Id : d # c => obj[d] = object[d]
  BY <1>1, <1>2
<1> HIDE DEF obj
<1>6. \A j \in DOMAIN configs : obj[configs[j]].isSelected = object[configs[j]].isSelected
  BY <1>1, <1>4, <1>5
<1>7. FirstSelected(configs, obj) = selectedConfig
  BY <1>1, <1>6, FirstSelectedSame
<1>8. CASE c \notin ToSet(configs)
  <2>1. object' = obj /\ UNCHANGED <<configs, selectedConfig>>
    BY <1>3, <1>8 DEF UpdateConfig, Update, model, obj, c
  <2>2. \A j \in DOMAIN configs : obj[configs[j]] = object[configs[j]]
    BY <1>1, <1>5, <1>8 DEF ToSet
  <2>3. Read(configs, obj) = Read(configs, object)
    BY <2>2, ReadSame
  <2> QED BY <2>1, <2>3, StoredListIsRead, StoredListIsReadNext
<1>9. CASE c \in ToSet(configs)
  <2>1. Save(configs, obj)
    BY <1>3, <1>9 DEF UpdateConfig, Update, model, obj, c
  <2>2. PICK i \in DOMAIN configs : configs[i] = c
    BY <1>9 DEF ToSet
  <2>3. \A j \in DOMAIN configs : j # i => configs[j] # c
    BY <1>1, <2>2 DEF DistinctIds, IsInjective
  <2> DEFINE v == Value(FormModel)
  <2>4. v \in [server : Server, port : Port, crypto : Crypto]
    BY <1>4 DEF Value, Config
  <2>5. \A j \in DOMAIN configs :
           Value(obj[configs[j]]) = IF j = i THEN v ELSE Value(object[configs[j]])
    BY <1>1, <1>4, <1>5, <2>2, <2>3
  <2> HIDE DEF v
  <2>6. Read(configs, obj) = [Read(configs, object) EXCEPT ![i].value = v]
    BY <2>2, <2>5 DEF Read
  <2>7. StoredList' = [StoredList EXCEPT ![i].value = v]
    BY <2>1, <2>6, StoredListIsRead, StoredListIsReadNext DEF Save
  <2>8. selectedConfig' = selectedConfig
    BY <1>7, <2>1 DEF Save
  <2>9. i \in DOMAIN StoredList
    BY <2>2, StoredListIsRead DEF Read
  <2>10. Abstract!Replace(i, v)
    BY <2>7, <2>8 DEF Abstract!Replace
  <2> QED BY <2>4, <2>9, <2>10
<1> QED BY <1>8, <1>9

\* A new configuration goes to the end; alone in the list it is chosen.
LEMMA AddRefines ==
  ASSUME IInv, NEW id \in Id, DoneAdd(id)
  PROVE  \E e \in Abstract!Entry : Abstract!Add(e)
<1> DEFINE list == Append(configs, id)
           with == [object EXCEPT ![id] = FormModel]
           obj  == IF Len(list) = 1 THEN OnlySelected(list, with, id) ELSE with
           e    == [id |-> id, value |-> Value(FormModel)]
<1>1. /\ configs \in Seq(Id) /\ object \in [Id -> Config \cup {Nil}]
      /\ selectedConfig = FirstSelected(configs, object)
      /\ \A j \in DOMAIN configs : object[configs[j]] # Nil
  BY DEF IInv, TypeOK, Alive, RelaysCurrent
<1>2. /\ list \in Seq(Id)
      /\ DOMAIN list = 1 .. Len(configs) + 1 /\ Len(list) = Len(configs) + 1
      /\ DOMAIN configs = 1 .. Len(configs) /\ Len(configs) \in Nat
      /\ \A j \in DOMAIN configs : list[j] = configs[j] /\ configs[j] \in Id
      /\ list[Len(configs) + 1] = id
  BY <1>1, AppendProperties
<1>3. FormModel \in Config /\ ~FormModel.isSelected
  BY FormModelType DEF DoneAdd, IInv, TypeOK
<1>4. object[id] = Nil /\ Save(list, obj)
  BY DEF DoneAdd, AddConfig
<1> HIDE DEF list
<1>5. /\ with \in [Id -> Config \cup {Nil}] /\ with[id] = FormModel
      /\ \A j \in DOMAIN configs : configs[j] # id /\ with[configs[j]] = object[configs[j]]
  BY <1>1, <1>2, <1>3, <1>4
<1> HIDE DEF with
<1>6. \A j \in DOMAIN list : with[list[j]] \in Config
  BY <1>1, <1>2, <1>3, <1>5
<1>7. \A j \in DOMAIN list : Value(obj[list[j]]) = Value(with[list[j]])
  <2>1. CASE Len(list) = 1
    <3>1. ASSUME NEW j \in DOMAIN list
          PROVE  Value(obj[list[j]]) = Value(with[list[j]])
      <4>1. list[j] \in Id /\ list[j] \in ToSet(list)
        BY <1>2 DEF ToSet
      <4>2. obj[list[j]] = [with[list[j]] EXCEPT !.isSelected = (list[j] = id)]
        BY <2>1, <4>1 DEF OnlySelected
      <4> HIDE DEF obj
      <4> QED BY <1>6, <4>2, ValueOfFlagged
    <3> QED BY <3>1
  <2>2. CASE Len(list) # 1
    BY <2>2
  <2> QED BY <2>1, <2>2
<1>8. FirstSelected(list, obj) = IF configs = <<>> THEN id ELSE selectedConfig
  <2>1. CASE configs = <<>>
    <3>1. Len(list) = 1 /\ DOMAIN list = {1} /\ list[1] = id
      BY <1>2, <2>1
    <3>2. obj[list[1]].isSelected
      <4>1. \A j \in DOMAIN list : with[list[j]] # Nil
        BY <1>6, NilNoConfig
      <4>2. obj = OnlySelected(list, with, id)
        BY <3>1
      <4>3. OnlySelected(list, with, id)[list[1]].isSelected = (list[1] = id)
        BY <1>2, <1>5, <3>1, <4>1, OnlySelectedObjects
      <4> HIDE DEF obj
      <4> QED BY <3>1, <4>2, <4>3
    <3> HIDE DEF obj
    <3>3. FirstSelected(list, obj) = list[1]
      BY <1>2, <3>1, <3>2, FirstSelectedUnique
    <3> QED BY <2>1, <3>1, <3>3
  <2>2. CASE configs # <<>>
    <3>1. obj = with
      BY <1>2, <2>2
    <3>2. \A j \in DOMAIN list : with[list[j]].isSelected <=>
             j \in DOMAIN configs /\ object[configs[j]].isSelected
      BY <1>2, <1>3, <1>5
    <3> HIDE DEF obj
    <3>3. CASE \E k \in DOMAIN configs : object[configs[k]].isSelected
      <4>1. PICK k \in DOMAIN configs : object[configs[k]].isSelected
        BY <3>3
      <4>2. \A j \in DOMAIN configs : object[configs[j]].isSelected => j = k
        BY <4>1 DEF IInv, OneSelected
      <4>3. selectedConfig = configs[k]
        BY <1>1, <4>1, <4>2, FirstSelectedUnique
      <4>4. k \in DOMAIN list /\ with[list[k]].isSelected
        BY <1>2, <3>2, <4>1
      <4>5. \A j \in DOMAIN list : with[list[j]].isSelected => j = k
        BY <3>2, <4>2
      <4>6. FirstSelected(list, with) = list[k]
        BY <1>2, <4>4, <4>5, FirstSelectedUnique
      <4> QED BY <1>2, <2>2, <3>1, <4>3, <4>6
    <3>4. CASE ~ \E k \in DOMAIN configs : object[configs[k]].isSelected
      BY <1>1, <2>2, <3>1, <3>2, <3>4, FirstSelectedNone
    <3> QED BY <3>3, <3>4
  <2> QED BY <2>1, <2>2
<1> HIDE DEF obj
<1>9. Read(list, obj) = Read(list, with)
  BY <1>7, ReadSame
<1>10. Read(list, with) = Append(Read(configs, object), e)
  <2>1. /\ Read(configs, object) = [j \in 1 .. Len(configs) |->
                                     [id |-> configs[j], value |-> Value(object[configs[j]])]]
        /\ Read(list, with) = [j \in 1 .. Len(configs) + 1 |->
                                [id |-> list[j], value |-> Value(with[list[j]])]]
    BY <1>2 DEF Read
  <2>2. Len(Read(configs, object)) = Len(configs)
    BY <1>2, <2>1
  <2>3. \A j \in 1 .. Len(configs) : j \in 1 .. Len(configs) + 1 /\ j # Len(configs) + 1
    BY <1>2
  <2> HIDE DEF Read, Value
  <2>4. \A j \in 1 .. Len(configs) + 1 :
           Read(list, with)[j] = IF j = Len(configs) + 1 THEN e ELSE Read(configs, object)[j]
    <3> SUFFICES ASSUME NEW j \in 1 .. Len(configs) + 1
                 PROVE  Read(list, with)[j] = IF j = Len(configs) + 1 THEN e ELSE Read(configs, object)[j]
      OBVIOUS
    <3>1. CASE j = Len(configs) + 1
      BY <1>2, <1>5, <2>1, <3>1
    <3>2. CASE j # Len(configs) + 1
      <4>1. j \in 1 .. Len(configs) /\ j \in DOMAIN configs
        BY <1>2, <3>2
      <4>2. list[j] = configs[j] /\ with[list[j]] = object[configs[j]]
        BY <1>2, <1>5, <4>1
      <4> QED BY <2>1, <3>2, <4>1, <4>2
    <3> QED BY <3>1, <3>2
  <2>5. Append(Read(configs, object), e) =
          [j \in 1 .. Len(configs) + 1 |->
             IF j = Len(configs) + 1 THEN e ELSE Read(configs, object)[j]]
    BY <1>2, <2>1, <2>2, <2>3
  <2> QED BY <2>1, <2>4, <2>5
<1>11. StoredList' = Append(StoredList, e)
  BY <1>4, <1>9, <1>10, StoredListIsRead, StoredListIsReadNext DEF Save
<1>12. selectedConfig' = IF StoredList = <<>> THEN id ELSE selectedConfig
  <2>1. StoredList = <<>> <=> configs = <<>>
    BY <1>1, StoredListIsRead DEF Read
  <2> QED BY <1>4, <1>8, <2>1 DEF Save
<1>13. id \notin Abstract!Ids(StoredList)
  BY <1>1, <1>4, StoredListIsRead DEF Read, Abstract!Ids
<1>14. e \in Abstract!Entry
  BY <1>3 DEF Abstract!Entry, Value, Config
<1>15. Abstract!Add(e)
  BY <1>11, <1>12, <1>13 DEF Abstract!Add
<1> QED BY <1>14, <1>15

\* A new process reads the list the last one had.
LEMMA RelaunchRefines ==
  ASSUME IInv, Relaunch
  PROVE  UNCHANGED <<configs, StoredList, selectedConfig>>
<1>1. /\ configs \in Seq(Id) /\ DistinctIds /\ disk = Snapshot(configs, object)
      /\ selectedConfig = FirstSelected(configs, object)
      /\ \A i \in DOMAIN configs : configs[i] \in Id
  BY DEF IInv, TypeOK, Durable, RelaysCurrent
<1>2. /\ DOMAIN disk = DOMAIN configs
      /\ \A i \in DOMAIN configs :
            disk[i] = [id |-> configs[i], config |-> object[configs[i]]]
  BY <1>1 DEF Snapshot
<1>3. LoadedConfigs(disk) = configs
  BY <1>1, <1>2 DEF LoadedConfigs
<1>4. \A i \in DOMAIN configs : LoadedObjects(disk)[configs[i]] = object[configs[i]]
  <2> SUFFICES ASSUME NEW i \in DOMAIN configs
               PROVE  LoadedObjects(disk)[configs[i]] = object[configs[i]]
    OBVIOUS
  <2>1. configs[i] \in Id /\ disk[i].id = configs[i] /\ i \in DOMAIN disk
    BY <1>1, <1>2
  <2>2. \A j \in DOMAIN disk : disk[j].id = configs[i] => j = i
    BY <1>1, <1>2 DEF DistinctIds, IsInjective
  <2>3. (CHOOSE j \in DOMAIN disk : disk[j].id = configs[i]) = i
    BY <2>1, <2>2
  <2> QED BY <1>2, <2>1, <2>3 DEF LoadedObjects
<1>5. /\ configs' = configs /\ object' = LoadedObjects(disk)
      /\ selectedConfig' = FirstSelected(configs, LoadedObjects(disk))
  BY <1>3 DEF Relaunch
<1>6. Read(configs, LoadedObjects(disk)) = Read(configs, object)
  BY <1>4, ReadSame
<1>7. FirstSelected(configs, LoadedObjects(disk)) = FirstSelected(configs, object)
  BY <1>4, FirstSelectedSame
<1> QED BY <1>1, <1>5, <1>6, <1>7, StoredListIsRead, StoredListIsReadNext

-----------------------------------------------------------------------------
\* What a step that only concerns the form leaves alone.
LEMMA FormRefines ==
  ASSUME UNCHANGED storeVars
  PROVE  UNCHANGED <<configs, StoredList, selectedConfig>>
  BY DEF storeVars, StoredList

\* The handlers that end in one of DataManager's operations.
Saving ==
    \/ \E i \in DOMAIN configs : DidSelectRow(i) \/ CommitDelete(i)
    \/ DoneEdit
    \/ \E id \in Id : DoneAdd(id)

\* Every other step leaves the list and the choice alone.
LEMMA OtherSteps ==
  ASSUME IInv, [Next]_vars, ~Saving
  PROVE  UNCHANGED <<configs, StoredList, selectedConfig>>
<1>1. CASE Relaunch
  BY <1>1, RelaunchRefines
<1>2. CASE UNCHANGED storeVars
  BY <1>2, FormRefines
<1>3. Relaunch \/ UNCHANGED storeVars
  BY DEF Next, Saving, vars, storeVars, PushNew, PushEdit, TypeServer, TypePort,
         PickCrypto, DoneRefused, TipDismissed, Back
<1> QED BY <1>1, <1>2, <1>3

\* Every step of the store is a step of the list, or none.
LEMMA StepRefines == IInv /\ [Next]_vars => [Abstract!Next]_(Abstract!vars)
<1> SUFFICES ASSUME IInv, [Next]_vars PROVE [Abstract!Next]_(Abstract!vars)
  OBVIOUS
<1>1. ASSUME NEW i \in DOMAIN configs, DidSelectRow(i)
      PROVE  Abstract!Next
  BY <1>1, SelectRefines DEF Abstract!Next
<1>2. ASSUME NEW i \in DOMAIN configs, CommitDelete(i)
      PROVE  Abstract!Next
  BY <1>2, DeleteRefines DEF Abstract!Next
<1>3. ASSUME DoneEdit
      PROVE  Abstract!Next \/ UNCHANGED Abstract!vars
  BY <1>3, EditRefines DEF Abstract!Next, Abstract!vars
<1>4. ASSUME NEW id \in Id, DoneAdd(id)
      PROVE  Abstract!Next
  BY <1>4, AddRefines DEF Abstract!Next
<1>5. CASE ~Saving
  BY <1>5, OtherSteps DEF Abstract!vars
<1> QED BY <1>1, <1>2, <1>3, <1>4, <1>5 DEF Saving

\* The store keeps what ConfigList promises: DataManager's handlers, its
\* writes to UserDefaults and its reads of them after a kill at any moment
\* behave as one durable list with one choice, for any number of rows.
THEOREM Implements == Spec => ImplementsConfigList
<1>1. IInv /\ [Next]_vars => [Abstract!Next]_(Abstract!vars)
  BY StepRefines
<1> QED BY <1>1, InitRefines, Invariant, PTL DEF Spec, ImplementsConfigList, Abstract!Spec

\* No step moves the selection but the four the user is told of.
LEMMA SelectionMoves == IInv /\ [Next]_vars => [SelectionStep]_vars
<1> SUFFICES ASSUME IInv, [Next]_vars PROVE SelectionStep
  OBVIOUS
<1>1. ASSUME NEW i \in DOMAIN configs, DidSelectRow(i)
      PROVE  SelectionStep
  <2>1. configs' = configs /\ selectedConfig' = StoredList[i].id
    BY <1>1, SelectRefines DEF Abstract!Choose, DidSelectRow, SelecteConfig, Save
  <2>2. StoredList[i].id = configs[i] /\ configs[i] \in ToSet(configs)
    BY StoredListIsRead DEF Read, ToSet
  <2> QED BY <2>1, <2>2 DEF SelectionStep
<1>2. ASSUME NEW i \in DOMAIN configs, CommitDelete(i)
      PROVE  SelectionStep
  <2>1. selectedConfig' = IF StoredList[i].id = selectedConfig THEN Nil ELSE selectedConfig
    BY <1>2, DeleteRefines DEF Abstract!Delete
  <2>2. StoredList[i].id = configs[i]
    BY StoredListIsRead DEF Read
  <2>3. configs' = RemoveAt(configs, i)
    BY <1>2 DEF CommitDelete, DeleteConfig, Save
  <2>4. configs \in Seq(Id) /\ DistinctIds
    BY DEF IInv, TypeOK
  <2>5. \A j \in DOMAIN configs' : \E k \in DOMAIN configs \ {i} : configs'[j] = configs[k]
    <3>1. /\ DOMAIN configs' = 1 .. Len(configs) - 1
          /\ \A j \in 1 .. Len(configs) - 1 :
               configs'[j] = IF j < i THEN configs[j] ELSE configs[j + 1]
      BY <2>3, <2>4, RemoveAtEntries
    <3>2. DOMAIN configs = 1 .. Len(configs) /\ Len(configs) \in Nat /\ i \in Nat
      BY <2>4
    <3> SUFFICES ASSUME NEW j \in 1 .. Len(configs) - 1
                 PROVE  \E k \in DOMAIN configs \ {i} : configs'[j] = configs[k]
      BY <3>1
    <3>3. CASE j < i
      <4>1. j \in DOMAIN configs \ {i}
        BY <3>2, <3>3
      <4> QED BY <3>1, <3>3, <4>1
    <3>4. CASE ~ (j < i)
      <4>1. j + 1 \in DOMAIN configs \ {i}
        BY <3>2, <3>4
      <4> QED BY <3>1, <3>4, <4>1
    <3> QED BY <3>3, <3>4
  <2>6. configs[i] \notin ToSet(configs')
    BY <2>4, <2>5 DEF ToSet, DistinctIds, IsInjective
  <2> QED BY <2>1, <2>2, <2>6 DEF SelectionStep
<1>3. ASSUME DoneEdit
      PROVE  SelectionStep
  BY <1>3, EditRefines DEF Abstract!Replace, SelectionStep
<1>4. ASSUME NEW id \in Id, DoneAdd(id)
      PROVE  SelectionStep
  <2>1. PICK e \in Abstract!Entry : Abstract!Add(e)
    BY <1>4, AddRefines
  <2>2. configs' = Append(configs, id) /\ configs \in Seq(Id)
    BY <1>4 DEF DoneAdd, AddConfig, Save, IInv, TypeOK
  <2>3. CASE configs # <<>>
    <3>1. StoredList # <<>>
      BY <2>2, <2>3, StoredListIsRead DEF Read
    <3> QED BY <2>1, <3>1 DEF Abstract!Add, SelectionStep
  <2>4. CASE configs = <<>>
    <3>1. StoredList = <<>>
      BY <2>4, StoredListIsRead DEF Read
    <3>2. configs' = <<id>>
      BY <2>2, <2>4
    <3>3. selectedConfig' = e.id
      BY <2>1, <3>1 DEF Abstract!Add
    <3>4. StoredList'[1].id = e.id
      BY <2>1, <3>1 DEF Abstract!Add
    <3>5. StoredList'[1].id = id
      BY <3>2, StoredListIsReadNext DEF Read
    <3> QED BY <2>4, <3>2, <3>3, <3>4, <3>5 DEF SelectionStep
  <2> QED BY <2>3, <2>4
<1>5. CASE ~Saving
  BY <1>5, OtherSteps DEF SelectionStep
<1> QED BY <1>1, <1>2, <1>3, <1>4, <1>5 DEF Saving

\* The selection is the user's: no edit, deletion of another row, further
\* addition or restart moves it.
THEOREM SelectionKept == Spec => SelectionIsTheUsers
<1>1. IInv /\ [Next]_vars => [SelectionStep]_vars
  BY SelectionMoves
<1> QED BY <1>1, Invariant, PTL DEF Spec, SelectionIsTheUsers
=============================================================================
