--------------------------- MODULE NativeScheduler ---------------------------
(***************************************************************************)
(* The scheduler of the native runtime (src/src/multitasking.rs, native.rs *)
(* and the timer handler of interrupts.rs): processes on one processor, a  *)
(* timer interrupt that wakes sleepers and switches to the next process,   *)
(* and ksleep, with which a process puts itself to sleep.                  *)
(*                                                                         *)
(* The handler runs with interrupts off, so it is one step; everything     *)
(* else may be interrupted between any two of its steps.  The processes    *)
(* are those of boot(): vat_runner sleeps twice and halts, again and       *)
(* again; halt_proc halts.  Printing is left out: it changes nothing here, *)
(* and holds its lock only while interrupts are off.  A context is the     *)
(* place to go on at: the handler saves the instruction and stack pointers *)
(* and the flags, and no other register, of which there is none here.      *)
(***************************************************************************)
EXTENDS Integers, Sequences

CONSTANTS
  N,         \* length of process_queue
  Runners,   \* indices of the processes that run vat_runner
  Sleep,     \* the argument of ksleep
  Period     \* what the handler takes off a sleep_timer

Procs == 0 .. N - 1
Free == N    \* nobody holds the lock of SCHEDULER

ASSUME PeriodAssumption == Sleep \in Nat \ {0} /\ Period \in Nat \ {0}
ASSUME HaltAssumption ==
  N \in Nat /\ Runners \subseteq Procs /\ Procs \ Runners # {}

VARIABLES
  status, timer, saved,   \* the process control blocks
  current,                \* current_pid
  firstTime,              \* first_time: boot() is still running
  lock,                   \* who holds the lock of SCHEDULER
  handling,               \* the processor is in the timer handler
  pc                      \* place of whoever is, or was, running

vars == <<status, timer, saved, current, firstTime, lock, handling, pc>>

-----------------------------------------------------------------------------
(* Programs *)

\* Two calls of ksleep, the second one in call_other_func.
VatRunner ==
  <<"lock", "mark", "timer", "unlock", "int",
    "lock", "mark", "timer", "unlock", "int", "hlt">>
HaltProc == <<"hlt">>

Program(p) == IF p \in Runners THEN VatRunner ELSE HaltProc
BootPlace == 0
Op == IF firstTime THEN "hlt" ELSE Program(current)[pc]
After ==
  IF firstTime THEN pc ELSE IF pc = Len(Program(current)) THEN 1 ELSE pc + 1

Init ==
  /\ status = [p \in Procs |-> "awake"]
  /\ timer = [p \in Procs |-> 0]
  /\ saved = [p \in Procs |-> 1]
  /\ current = 0 /\ firstTime = TRUE
  /\ lock = Free /\ handling = FALSE
  /\ pc = BootPlace

-----------------------------------------------------------------------------
(* Broken variants of definitions below, one step wrong in each. *)

\* Timers that run below zero are left there.
TimersNowBelow ==
  [p \in Procs |-> IF status[p] = "sleeping" THEN timer[p] - Period ELSE timer[p]]

\* Whoever is next, awake or not.
NextProcAny == (current + 1) % N

\* The search begins at the front of the queue.
NextProcFromFront ==
  LET ready == {p \in Procs \ {current} : status[p] = "awake"} IN
  IF ready = {} THEN current ELSE CHOOSE p \in ready : \A q \in ready : p <= q

\* A timer that is up is reset and its process left asleep.
StatusNowAsleep == status

-----------------------------------------------------------------------------
(* The timer handler *)

Wakes == {p \in Procs : status[p] = "sleeping" /\ timer[p] - Period < 0}
StatusNow == [p \in Procs |-> IF p \in Wakes THEN "awake" ELSE status[p]]
Awake == {p \in Procs : StatusNow[p] = "awake"}

TimersNow ==
  [p \in Procs |->
     IF p \in Wakes THEN 0
     ELSE IF status[p] = "sleeping" THEN timer[p] - Period ELSE timer[p]]

\* The context of boot() is not stored.
SavedNow == IF firstTime THEN saved ELSE [saved EXCEPT ![current] = pc]

\* The next process that is awake, round the queue; if there is none, the
\* current one goes on, even if it sleeps.
Ahead(p) == (p - current) % N
NextProc ==
  LET ready == Awake \ {current} IN
  IF ready = {} THEN current
  ELSE CHOOSE p \in ready : \A q \in ready : Ahead(p) <= Ahead(q)

\* Broken variant of the handler: it does not wait for the lock.
TimerHandlerForces ==
  /\ handling
  /\ status' = StatusNow
  /\ timer' = TimersNow
  /\ saved' = SavedNow
  /\ firstTime' = FALSE
  /\ current' = NextProc
  /\ pc' = SavedNow[NextProc]
  /\ handling' = FALSE
  /\ UNCHANGED lock

\* It waits for the lock, and on one processor nobody releases it meanwhile.
TimerHandler ==
  /\ handling /\ lock = Free
  /\ status' = StatusNow
  /\ timer' = TimersNow
  /\ saved' = SavedNow
  /\ firstTime' = FALSE
  /\ current' = NextProc
  /\ pc' = SavedNow[NextProc]
  /\ handling' = FALSE
  /\ UNCHANGED lock

\* The 8259 interrupts: before an instruction, or while the processor is
\* halted, and then the hlt is done.
TimerInterrupt ==
  /\ ~handling
  /\ handling' = TRUE
  /\ pc' \in {pc} \cup (IF Op = "hlt" THEN {After} ELSE {})
  /\ UNCHANGED <<status, timer, saved, current, firstTime, lock>>

-----------------------------------------------------------------------------
(* ksleep *)

At(op) == ~handling /\ Op = op /\ pc' = After

SchedulerLock ==
  /\ At("lock") /\ lock = Free
  /\ lock' = current
  /\ UNCHANGED <<status, timer, saved, current, firstTime, handling>>

MarkSleeping ==
  /\ At("mark")
  /\ status' = [status EXCEPT ![current] = "sleeping"]
  /\ UNCHANGED <<timer, saved, current, firstTime, lock, handling>>

SetTimer ==
  /\ At("timer")
  /\ timer' = [timer EXCEPT ![current] = Sleep]
  /\ UNCHANGED <<status, saved, current, firstTime, lock, handling>>

SchedulerUnlock ==
  /\ At("unlock")
  /\ lock' = Free
  /\ UNCHANGED <<status, timer, saved, current, firstTime, handling>>

\* asm!("int 32"): the timer's handler, called by the process.
Int32 ==
  /\ At("int")
  /\ handling' = TRUE
  /\ UNCHANGED <<status, timer, saved, current, firstTime, lock>>

Step == SchedulerLock \/ MarkSleeping \/ SetTimer \/ SchedulerUnlock \/ Int32

Next == Step \/ TimerInterrupt \/ TimerHandler

Spec == Init /\ [][Next]_vars

(* Fairness: the processor runs and the timer ticks. *)
FairSpec ==
  /\ Spec
  /\ WF_vars(Step) /\ WF_vars(TimerInterrupt) /\ WF_vars(TimerHandler)

-----------------------------------------------------------------------------
(* Properties *)

TypeOK ==
  /\ status \in [Procs -> {"awake", "sleeping"}]
  /\ timer \in [Procs -> 0 .. Sleep]
  /\ \A p \in Procs : saved[p] \in DOMAIN Program(p)
  /\ DOMAIN saved = Procs
  /\ current \in Procs
  /\ firstTime \in BOOLEAN /\ handling \in BOOLEAN
  /\ lock \in Procs \cup {Free}
  /\ IF firstTime THEN pc = BootPlace ELSE pc \in DOMAIN Program(current)

\* Nobody returns from ksleep before the timer is up: a process that sleeps
\* runs only between its marking and its interrupt, wherever the 8259 cuts
\* in (interrupts.rs: 172-190, native.rs: 160-172).
SleepersRest ==
  ~handling /\ ~firstTime /\ status[current] = "sleeping"
    => Op \in {"timer", "unlock", "int"}

\* Every process runs as if the processor were its own: whatever the ticks
\* cut into, none of its instructions is skipped, done twice or done for
\* another, not even those of the first one, at whose expense boot() is left
\* (interrupts.rs: 162-169), and nobody gets the processor between the lock
\* and the unlock of somebody else's ksleep (native.rs: 162-166).
PlaceOf(p) == IF p = current /\ ~firstTime THEN pc ELSE saved[p]
Places == [p \in Procs |-> PlaceOf(p)]
Sleepers == {p \in Procs : status[p] = "sleeping"}
OwnProcessors ==
  INSTANCE Processes WITH
    programs <- [p \in Procs |-> Program(p)], Nobody <- Free,
    place <- Places, asleep <- Sleepers, holder <- lock
ImplementsProcesses == OwnProcessors!Spec

\* The handler waits for a lock that the interrupted process holds.
Stuck == handling /\ lock # Free
Unstuck == []~Stuck

\* Whoever sleeps wakes up, and whoever is awake gets the processor, as long
\* as the handler does not wait for the interrupted process.
SleepersWake ==
  Unstuck => \A p \in Procs : status[p] = "sleeping" ~> status[p] = "awake"
EveryoneRuns ==
  Unstuck => \A p \in Procs : status[p] = "awake" ~> current = p

\* "If we looped around and couldn't find something to schedule, just let the
\* current process run" (interrupts.rs:176): every timer interrupt ends with
\* some process running.
InterruptEnds == handling ~> ~handling
=============================================================================
