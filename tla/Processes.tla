------------------------------ MODULE Processes ------------------------------
(***************************************************************************)
(* What the native scheduler promises its processes: that they run as if   *)
(* each had a processor of its own.  A process does the instructions of    *)
(* its program one after the other; between "lock" and "unlock" it is the  *)
(* only one; once it has put itself to sleep it does no more than the rest *)
(* of ksleep; and the clock may wake any of those who sleep, but not while *)
(* somebody holds the lock.                                                *)
(***************************************************************************)
EXTENDS Integers, Sequences

CONSTANTS
  Procs,
  programs,    \* the instructions of each process
  Nobody

VARIABLES place, asleep, holder
vars == <<place, asleep, holder>>

Init ==
  /\ place = [p \in Procs |-> 1]
  /\ asleep = {}
  /\ holder = Nobody

Following(p) == IF place[p] = Len(programs[p]) THEN 1 ELSE place[p] + 1
Does(p, op) ==
  /\ programs[p][place[p]] = op
  /\ place' = [place EXCEPT ![p] = Following(p)]

Enter(p) ==
  /\ Does(p, "lock") /\ p \notin asleep
  /\ holder = Nobody /\ holder' = p
  /\ UNCHANGED asleep

FallAsleep(p) ==
  /\ Does(p, "mark") /\ holder = p
  /\ asleep' = asleep \cup {p}
  /\ UNCHANGED holder

SetAlarm(p) ==
  /\ Does(p, "timer") /\ holder = p
  /\ UNCHANGED <<asleep, holder>>

Leave(p) ==
  /\ Does(p, "unlock") /\ holder = p
  /\ holder' = Nobody
  /\ UNCHANGED asleep

GiveWay(p) == Does(p, "int") /\ UNCHANGED <<asleep, holder>>

Halt(p) == Does(p, "hlt") /\ p \notin asleep /\ UNCHANGED <<asleep, holder>>

Wake ==
  /\ holder = Nobody
  /\ \E S \in SUBSET asleep : asleep' = asleep \ S
  /\ UNCHANGED <<place, holder>>

Runs(p) ==
  Enter(p) \/ FallAsleep(p) \/ SetAlarm(p) \/ Leave(p) \/ GiveWay(p) \/ Halt(p)

Next == Wake \/ \E p \in Procs : Runs(p)

Spec == Init /\ [][Next]_vars
=============================================================================
