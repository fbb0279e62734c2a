------------------------------- MODULE Alarms -------------------------------
(***************************************************************************)
(* What a caller of sys_timeout may count on: a list of alarms, each with  *)
(* the time that has to pass on the clock of sys_check_timeouts before it  *)
(* goes off.  Setting and cancelling one leaves the others' times alone,   *)
(* they go off in the order of their times, and equal ones in the order in *)
(* which they were set.                                                    *)
(***************************************************************************)
EXTENDS Naturals, SequencesExt

CONSTANTS Handler

VARIABLE alarms

Alarm == [h : Handler, due : Nat]

Init ==
    /\ alarms \in Seq(Alarm)
    /\ \A i, j \in DOMAIN alarms : i < j => alarms[i].due <= alarms[j].due

\* The new alarm is the last of those that are due no later.
Set ==
    \E i \in 1..Len(alarms) + 1 :
      /\ Len(alarms') = Len(alarms) + 1
      /\ alarms'[i] \in Alarm
      /\ RemoveAt(alarms', i) = alarms
      /\ \A j \in 1..i - 1 : alarms[j].due <= alarms'[i].due
      /\ i <= Len(alarms) => alarms[i].due > alarms'[i].due

Cancel ==
    \E i \in DOMAIN alarms :
      /\ \A j \in 1..i - 1 : alarms[j].h # alarms[i].h
      /\ alarms' = RemoveAt(alarms, i)

\* The first goes off, and what it waited the others have waited too.
GoOff ==
    /\ alarms # <<>>
    /\ alarms' = [i \in 1..Len(alarms) - 1 |->
                    [alarms[i + 1] EXCEPT !.due = @ - alarms[1].due]]

Next == Set \/ Cancel \/ GoOff

Spec == Init /\ [][Next]_alarms
=============================================================================
