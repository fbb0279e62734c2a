----------------------------- MODULE ConfigList -----------------------------
(***************************************************************************)
(* What the configuration store promises: a durable list of configurations *)
(* in the order they were added, and at most one of them chosen.  There is *)
(* no process here, no disk and no reference: a restart of the app is no   *)
(* step of this specification at all.                                      *)
(***************************************************************************)
EXTENDS Naturals, SequencesExt

CONSTANTS Id, Value, None

VARIABLES
    list,   \* the entries, [id, value]
    chosen  \* the id of the chosen entry, or None

vars == <<list, chosen>>

Entry == [id : Id, value : Value]
Ids(l) == {l[i].id : i \in DOMAIN l}

Init == list = <<>> /\ chosen = None

\* The first entry of an empty list is chosen by being added.
Add(e) ==
    /\ e.id \notin Ids(list)
    /\ list' = Append(list, e)
    /\ chosen' = IF list = <<>> THEN e.id ELSE chosen

\* Deleting the chosen entry leaves nothing chosen.
Delete(i) ==
    /\ list' = RemoveAt(list, i)
    /\ chosen' = IF list[i].id = chosen THEN None ELSE chosen

Choose(i) ==
    /\ chosen' = list[i].id
    /\ UNCHANGED list

Replace(i, value) ==
    /\ list' = [list EXCEPT ![i].value = value]
    /\ UNCHANGED chosen

Next ==
    \/ \E e \in Entry : Add(e)
    \/ \E i \in DOMAIN list : Delete(i) \/ Choose(i)
    \/ \E i \in DOMAIN list, value \in Value : Replace(i, value)

Spec == Init /\ [][Next]_vars
============================================================================
