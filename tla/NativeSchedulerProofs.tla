------------------------ MODULE NativeSchedulerProofs ------------------------
(***************************************************************************)
(* Safety of NativeScheduler for every process queue that has a halt_proc, *)
(* and every sleep and timer period.                                       *)
(***************************************************************************)
EXTENDS NativeScheduler, FiniteSetTheorems, WellFoundedInduction, TLAPS

-----------------------------------------------------------------------------
(* Choosing the next process *)

\* Every non-empty set of numbers below a bound has a least element: of the
\* intervals 0 .. n that end in it, one contains no other.
LEMMA LeastBelow ==
  ASSUME NEW b \in Nat, NEW T \in SUBSET (0 .. b), T # {}
  PROVE  \E m \in T : \A n \in T : m <= n
<1> DEFINE S == 0 .. b
           upto == {0 .. n : n \in T}
<1>1. IsWellFoundedOn(StrictSubsetOrdering(S), FiniteSubsetsOf(S))
  BY FS_StrictSubsetOrderingWellFounded
<1>2. upto \subseteq FiniteSubsetsOf(S) /\ upto # {}
  <2>1. ASSUME NEW n \in T PROVE 0 .. n \in FiniteSubsetsOf(S)
    BY FS_Interval DEF FiniteSubsetsOf
  <2> QED BY <2>1
<1>3. PICK u \in upto : \A v \in upto : <<v, u>> \notin StrictSubsetOrdering(S)
  BY <1>1, <1>2, WFMin
<1>4. PICK m \in T : u = 0 .. m
  OBVIOUS
<1>5. ASSUME NEW n \in T, n < m PROVE FALSE
  <2>1. 0 .. n \subseteq 0 .. m /\ m \in 0 .. m /\ m \notin 0 .. n /\ 0 .. m \subseteq S
    BY <1>5
  <2>2. <<0 .. n, u>> \in StrictSubsetOrdering(S)
    BY <1>4, <2>1 DEF StrictSubsetOrdering
  <2> QED BY <1>3, <2>2
<1> QED BY <1>5

\* The search of the handler ends at a process that is ready, if one is.
LEMMA NextReady ==
  ASSUME current \in Procs, Awake \subseteq Procs
  PROVE  /\ NextProc \in Procs
         /\ Awake \ {current} # {} => NextProc \in Awake
         /\ Awake \ {current} = {} => NextProc = current
<1> DEFINE ready == Awake \ {current}
<1>1. CASE ready = {}
  BY <1>1 DEF NextProc
<1>2. CASE ready # {}
  <2>1. \A p \in ready : Ahead(p) \in 0 .. N
    BY HaltAssumption DEF Ahead, Procs
  <2> DEFINE distances == {Ahead(p) : p \in ready}
  <2>2. distances \in SUBSET (0 .. N) /\ distances # {}
    BY <1>2, <2>1
  <2> HIDE DEF distances
  <2>3. PICK m \in distances : \A n \in distances : m <= n
    BY <2>2, LeastBelow, HaltAssumption
  <2>4. \E p \in ready : \A q \in ready : Ahead(p) <= Ahead(q)
    BY <2>3 DEF distances
  <2>5. NextProc \in ready
    BY <1>2, <2>4 DEF NextProc
  <2> QED BY <1>2, <2>5
<1> QED BY <1>1, <1>2

-----------------------------------------------------------------------------
(* Programs *)

LEMMA Programs ==
  ASSUME NEW p
  PROVE  /\ DOMAIN Program(p) = 1 .. Len(Program(p))
         /\ Len(Program(p)) \in Nat /\ 1 \in DOMAIN Program(p)
         /\ p \notin Runners => DOMAIN Program(p) = {1} /\ Program(p)[1] = "hlt"
         /\ p \in Runners => Program(p) = VatRunner /\ DOMAIN Program(p) = 1 .. 11
<1>1. DOMAIN VatRunner = 1 .. 11 /\ Len(VatRunner) = 11
  BY DEF VatRunner
<1>2. DOMAIN HaltProc = {1} /\ Len(HaltProc) = 1 /\ HaltProc[1] = "hlt" /\ 1 .. 1 = {1}
  BY DEF HaltProc
<1>3. CASE p \in Runners
  <2>1. Program(p) = VatRunner
    BY <1>3 DEF Program
  <2>2. 1 \in 1 .. 11 /\ 11 \in Nat
    OBVIOUS
  <2> QED BY <1>1, <1>3, <2>1, <2>2
<1>4. CASE p \notin Runners
  BY <1>2, <1>4 DEF Program
<1> QED BY <1>3, <1>4

\* The place after the current one is a place of the same program.
LEMMA AfterIsPlace ==
  ASSUME TypeOK
  PROVE  IF firstTime THEN After = BootPlace ELSE After \in DOMAIN Program(current)
  BY Programs DEF TypeOK, After

\* ksleep, step by step; halt_proc never gets there.
LEMMA KsleepSteps ==
  ASSUME TypeOK, Op # "hlt"
  PROVE  /\ ~firstTime /\ current \in Runners
         /\ Op = "lock" => Program(current)[After] = "mark"
         /\ Op = "mark" => Program(current)[After] = "timer"
         /\ Op = "timer" => Program(current)[After] = "unlock"
         /\ Op = "unlock" => Program(current)[After] = "int"
<1>1. ~firstTime /\ current \in Runners
  BY Programs DEF TypeOK, Op
<1>2. Program(current) = VatRunner /\ Len(VatRunner) = 11 /\ pc \in 1 .. 11
  BY <1>1, Programs DEF TypeOK, VatRunner
<1> QED BY <1>1, <1>2 DEF Op, After, VatRunner

-----------------------------------------------------------------------------
(* The inductive invariant.  SleepersRest alone is not inductive: when     *)
(* nobody is ready the handler lets the current process go on, asleep or   *)
(* not.  That it is awake then is due to the halt_proc, always ready.      *)

HaltsAwake == \A p \in Procs \ Runners : status[p] = "awake"
SchedulerInv == TypeOK /\ HaltsAwake /\ SleepersRest

LEMMA InitScheduler == Init => SchedulerInv
<1> SUFFICES ASSUME Init PROVE SchedulerInv
  OBVIOUS
<1>1. TypeOK
  <2>1. 0 \in Procs
    BY HaltAssumption DEF Procs
  <2>2. \A p \in Procs : 1 \in DOMAIN Program(p)
    BY Programs
  <2>3. 0 \in 0 .. Sleep
    BY PeriodAssumption
  <2> QED BY <2>1, <2>2, <2>3 DEF Init, TypeOK
<1> QED BY <1>1 DEF Init, HaltsAwake, SleepersRest, SchedulerInv

\* After the handler a process runs that is awake.
LEMMA HandlerPicksAwake ==
  ASSUME SchedulerInv, TimerHandler
  PROVE  SchedulerInv'
<1>1. current \in Procs /\ Awake \subseteq Procs /\ Procs \ Runners \subseteq Awake
  BY DEF SchedulerInv, TypeOK, HaltsAwake, Awake, StatusNow
<1>2. NextProc \in Procs /\ NextProc \in Awake
  BY <1>1, NextReady, HaltAssumption
<1>3. \A p \in Procs : status'[p] = "awake" <=> p \in Awake
  BY DEF TimerHandler, Awake
<1>4. \A p \in Procs : SavedNow[p] \in DOMAIN Program(p)
  BY <1>1 DEF SchedulerInv, TypeOK, SavedNow
<1>5. TypeOK'
  <2>1. \A p \in Procs : TimersNow[p] \in 0 .. Sleep
    BY PeriodAssumption DEF SchedulerInv, TypeOK, TimersNow, Wakes
  <2>2. status' \in [Procs -> {"awake", "sleeping"}] /\ timer' \in [Procs -> 0 .. Sleep]
    BY <2>1 DEF SchedulerInv, TypeOK, TimerHandler, TimersNow, StatusNow
  <2>3. saved' = SavedNow /\ DOMAIN saved' = Procs
    BY DEF SchedulerInv, TypeOK, TimerHandler, SavedNow
  <2>4. current' = NextProc /\ ~firstTime' /\ pc' = SavedNow[NextProc]
        /\ handling' = FALSE /\ firstTime' = FALSE /\ lock' = lock
    BY DEF TimerHandler
  <2>5. pc' \in DOMAIN Program(current')
    BY <1>2, <1>4, <2>4
  <2> QED
    BY <1>2, <1>4, <2>2, <2>3, <2>4, <2>5 DEF SchedulerInv, TypeOK, Program
<1>6. HaltsAwake'
  BY <1>1, <1>3 DEF HaltsAwake
<1>7. SleepersRest'
  BY <1>2, <1>3 DEF TimerHandler, SleepersRest
<1> QED BY <1>5, <1>6, <1>7 DEF SchedulerInv

LEMMA NextScheduler == SchedulerInv /\ [Next]_vars => SchedulerInv'
<1> SUFFICES ASSUME SchedulerInv, [Next]_vars PROVE SchedulerInv'
  OBVIOUS
<1>0. TypeOK /\ HaltsAwake /\ SleepersRest
  BY DEF SchedulerInv
<1>1. CASE TimerHandler
  BY <1>1, HandlerPicksAwake
<1>2. CASE TimerInterrupt
  <2>1. TypeOK'
    BY <1>0, <1>2, AfterIsPlace, PeriodAssumption DEF TypeOK, TimerInterrupt, Program
  <2> QED BY <1>0, <1>2, <2>1 DEF TimerInterrupt, HaltsAwake, SleepersRest, SchedulerInv
<1>3. CASE SchedulerLock
  <2>1. TypeOK'
    BY <1>0, <1>3, AfterIsPlace, KsleepSteps DEF TypeOK, SchedulerLock, At, Program
  <2>2. SleepersRest'
    BY <1>0, <1>3, KsleepSteps DEF SchedulerLock, At, SleepersRest
  <2> QED BY <1>0, <1>3, <2>1, <2>2 DEF SchedulerLock, HaltsAwake, SchedulerInv
<1>4. CASE MarkSleeping
  <2>1. current \in Runners /\ ~firstTime /\ Program(current)[After] = "timer"
    BY <1>0, <1>4, KsleepSteps DEF MarkSleeping, At
  <2>2. TypeOK'
    BY <1>0, <1>4, <2>1, AfterIsPlace DEF TypeOK, MarkSleeping, At, Program
  <2>3. HaltsAwake'
    BY <1>0, <1>4, <2>1 DEF MarkSleeping, HaltsAwake, TypeOK
  <2>4. SleepersRest'
    BY <1>4, <2>1 DEF MarkSleeping, At, SleepersRest, Op, Program
  <2> QED BY <2>2, <2>3, <2>4 DEF SchedulerInv
<1>5. CASE SetTimer
  <2>1. ~firstTime /\ Program(current)[After] = "unlock"
    BY <1>0, <1>5, KsleepSteps DEF SetTimer, At
  <2>2. TypeOK'
    BY <1>0, <1>5, <2>1, AfterIsPlace, PeriodAssumption DEF TypeOK, SetTimer, At, Program
  <2>3. SleepersRest'
    BY <1>5, <2>1 DEF SetTimer, At, SleepersRest, Op, Program
  <2> QED BY <1>0, <1>5, <2>2, <2>3 DEF SetTimer, HaltsAwake, SchedulerInv
<1>6. CASE SchedulerUnlock
  <2>1. ~firstTime /\ Program(current)[After] = "int"
    BY <1>0, <1>6, KsleepSteps DEF SchedulerUnlock, At
  <2>2. TypeOK'
    BY <1>0, <1>6, <2>1, AfterIsPlace DEF TypeOK, SchedulerUnlock, At, Program
  <2>3. SleepersRest'
    BY <1>6, <2>1 DEF SchedulerUnlock, At, SleepersRest, Op, Program
  <2> QED BY <1>0, <1>6, <2>2, <2>3 DEF SchedulerUnlock, HaltsAwake, SchedulerInv
<1>7. CASE Int32
  <2>1. TypeOK'
    BY <1>0, <1>7, AfterIsPlace DEF TypeOK, Int32, At, Program
  <2> QED BY <1>0, <1>7, <2>1 DEF Int32, At, HaltsAwake, SleepersRest, SchedulerInv
<1>8. CASE UNCHANGED vars
  BY <1>0, <1>8
     DEF vars, TypeOK, HaltsAwake, SleepersRest, SchedulerInv, Op, Program
<1> QED BY <1>1, <1>2, <1>3, <1>4, <1>5, <1>6, <1>7, <1>8 DEF Next, Step

\* Every variable of the scheduler keeps its type; in particular a timer is
\* never negative and a saved context is a place of its own program.
THEOREM SchedulerType == Spec => []TypeOK
<1>1. SchedulerInv => TypeOK
  BY DEF SchedulerInv
<1> QED BY <1>1, InitScheduler, NextScheduler, PTL DEF Spec

\* A process that sleeps does not run, but for the end of ksleep itself.
THEOREM SleepersDoNotRun == Spec => []SleepersRest
<1>1. SchedulerInv => SleepersRest
  BY DEF SchedulerInv
<1> QED BY <1>1, InitScheduler, NextScheduler, PTL DEF Spec

-----------------------------------------------------------------------------
(* A processor for each process.  The abstract steps of ksleep ask for the *)
(* lock: who is between the lock and the unlock is who holds it, and the   *)
(* processor is not taken from it.                                         *)

InKsleep(p) == Program(p)[PlaceOf(p)] \in {"mark", "timer", "unlock"}
KsleepUndivided ==
  /\ lock \in {Free, current}
  /\ firstTime => lock = Free
  /\ \A p \in Procs : InKsleep(p) <=> lock = p
ProcessorInv == SchedulerInv /\ KsleepUndivided

LEMMA PlacesAreTyped ==
  ASSUME TypeOK, NEW p \in Procs
  PROVE  PlaceOf(p) \in DOMAIN Program(p) /\ PlaceOf(p) \in Nat
<1>1. PlaceOf(p) \in DOMAIN Program(p)
  BY DEF TypeOK, PlaceOf
<1> QED BY <1>1, Programs

\* Where an instruction leads to.
Beyond(p) == IF PlaceOf(p) = Len(Program(p)) THEN 1 ELSE PlaceOf(p) + 1

\* An instruction of ksleep moves the process that runs, by one place.
LEMMA StepMovesOn ==
  ASSUME TypeOK, NEW op, op # "hlt", At(op), UNCHANGED <<saved, current, firstTime>>
  PROVE  /\ ~firstTime /\ current \in Procs
         /\ Program(current)[PlaceOf(current)] = op
         /\ \A p \in Procs : p = current => PlaceOf(p)' = After
         /\ \A p \in Procs \ {current} : PlaceOf(p)' = PlaceOf(p)
         /\ Places' = [Places EXCEPT ![current] = Beyond(current)]
<1>1. Op = op /\ pc' = After /\ ~firstTime /\ current \in Procs
  BY KsleepSteps DEF At, TypeOK
<1>2. PlaceOf(current) = pc /\ PlaceOf(current)' = pc'
  BY <1>1 DEF PlaceOf
<1>3. \A p \in Procs \ {current} : PlaceOf(p)' = PlaceOf(p)
  BY <1>1 DEF PlaceOf
<1>4. Program(current)[PlaceOf(current)] = op /\ PlaceOf(current)' = Beyond(current)
  BY <1>1, <1>2 DEF Op, After, Beyond
<1>5. Places' = [Places EXCEPT ![current] = Beyond(current)]
  BY <1>1, <1>3, <1>4 DEF Places
<1>6. \A p \in Procs : p = current => PlaceOf(p)' = After
  BY <1>1 DEF PlaceOf
<1> QED BY <1>1, <1>3, <1>4, <1>5, <1>6

\* A switch moves nobody: who stops and who goes on does so where it was.
LEMMA SwitchMovesNobody ==
  ASSUME SchedulerInv, TimerHandler
  PROVE  Places' = Places /\ \A p \in Procs : PlaceOf(p)' = PlaceOf(p)
<1>1. \A p \in Procs : PlaceOf(p)' = SavedNow[p]
  BY DEF TimerHandler, PlaceOf
<1>2. \A p \in Procs : SavedNow[p] = PlaceOf(p)
  BY DEF SchedulerInv, TypeOK, SavedNow, PlaceOf
<1> QED BY <1>1, <1>2 DEF Places

\* The 8259 moves at most a process that halts.
LEMMA TickMovesOn ==
  ASSUME TypeOK, TimerInterrupt
  PROVE  /\ \A p \in Procs : ~InKsleep(p)' <=> ~InKsleep(p)
         /\ \/ Places' = Places
            \/ /\ ~firstTime /\ ~handling /\ Op = "hlt" /\ current \in Procs
               /\ Program(current)[PlaceOf(current)] = "hlt"
               /\ Places' = [Places EXCEPT ![current] = Beyond(current)]
<1>1. CASE pc' = pc \/ firstTime
  <2>1. \A p \in Procs : PlaceOf(p)' = PlaceOf(p)
    BY <1>1 DEF TimerInterrupt, PlaceOf
  <2> QED BY <2>1 DEF Places, InKsleep, Program
<1>2. CASE pc' # pc /\ ~firstTime
  <2>1. Op = "hlt" /\ pc' = After /\ current \in Procs /\ ~handling
    BY <1>2 DEF TimerInterrupt, TypeOK
  <2>2. PlaceOf(current) = pc /\ PlaceOf(current)' = pc'
    BY <1>2 DEF TimerInterrupt, PlaceOf
  <2>3. \A p \in Procs \ {current} : PlaceOf(p)' = PlaceOf(p)
    BY <1>2 DEF TimerInterrupt, PlaceOf
  <2>4. Program(current)[PlaceOf(current)] = "hlt" /\ PlaceOf(current)' = Beyond(current)
    BY <1>2, <2>1, <2>2 DEF Op, After, Beyond
  <2>5. Places' = [Places EXCEPT ![current] = Beyond(current)]
    BY <2>1, <2>3, <2>4 DEF Places, TimerInterrupt
  <2>6. \A p \in Procs : p = current => ~InKsleep(p) /\ ~InKsleep(p)'
    <3>1. pc \in DOMAIN Program(current)
      BY <1>2 DEF TypeOK
    <3>2. Program(current)[pc'] \in {"hlt", "lock"}
      BY <1>2, <2>1, <3>1, Programs DEF Op, After, VatRunner
    <3>3. \A p \in Procs : p = current => PlaceOf(p)' = pc'
      BY <1>2 DEF TimerInterrupt, PlaceOf
    <3> QED BY <2>4, <3>2, <3>3 DEF InKsleep, Program
  <2>7. \A p \in Procs \ {current} : InKsleep(p)' <=> InKsleep(p)
    BY <2>3 DEF InKsleep, Program
  <2> QED BY <1>2, <2>1, <2>4, <2>5, <2>6, <2>7
<1> QED BY <1>1, <1>2

LEMMA InitProcessors == Init => ProcessorInv
<1> SUFFICES ASSUME Init PROVE ProcessorInv
  OBVIOUS
<1>1. SchedulerInv
  BY InitScheduler
<1>2. ASSUME NEW p \in Procs PROVE ~InKsleep(p) /\ lock # p
  <2>1. PlaceOf(p) = 1 /\ lock = N /\ p # N
    BY HaltAssumption DEF Init, PlaceOf, Free, Procs
  <2>2. Program(p)[1] \in {"lock", "hlt"}
    BY DEF Program, VatRunner, HaltProc
  <2> QED BY <2>1, <2>2 DEF InKsleep
<1> QED BY <1>1, <1>2 DEF Init, KsleepUndivided, ProcessorInv

LEMMA NextProcessors == ProcessorInv /\ [Next]_vars => ProcessorInv'
<1> SUFFICES ASSUME ProcessorInv, [Next]_vars PROVE ProcessorInv'
  OBVIOUS
<1>0. TypeOK /\ SchedulerInv /\ KsleepUndivided /\ SchedulerInv' /\ current \in Procs
  BY NextScheduler DEF ProcessorInv, SchedulerInv, TypeOK
<1>f. Free \notin Procs
  BY HaltAssumption DEF Free, Procs
<1> SUFFICES KsleepUndivided'
  BY <1>0 DEF ProcessorInv
<1>1. CASE TimerHandler
  <2>1. lock = Free /\ lock' = Free
    BY <1>1 DEF TimerHandler
  <2>2. \A p \in Procs : ~InKsleep(p)
    BY <1>0, <1>f, <2>1 DEF KsleepUndivided
  <2>3. \A p \in Procs : ~InKsleep(p)'
    BY <1>0, <1>1, <2>2, SwitchMovesNobody DEF InKsleep, Program
  <2> QED BY <1>f, <2>1, <2>3 DEF KsleepUndivided
<1>2. CASE TimerInterrupt
  <2>1. \A p \in Procs : InKsleep(p)' <=> InKsleep(p)
    BY <1>0, <1>2, TickMovesOn
  <2>2. UNCHANGED <<lock, current, firstTime>>
    BY <1>2 DEF TimerInterrupt
  <2> QED BY <1>0, <2>1, <2>2 DEF KsleepUndivided
<1>3. CASE Step
  <2>1. PICK op \in {"lock", "mark", "timer", "unlock", "int"} : At(op) /\ Op = op
    BY <1>3 DEF Step, SchedulerLock, MarkSleeping, SetTimer, SchedulerUnlock, Int32, At
  <2>2. UNCHANGED <<saved, current, firstTime>>
    BY <1>3 DEF Step, SchedulerLock, MarkSleeping, SetTimer, SchedulerUnlock, Int32
  <2>3. /\ ~firstTime
        /\ Program(current)[PlaceOf(current)] = op
        /\ \A p \in Procs : p = current => PlaceOf(p)' = After
        /\ \A p \in Procs \ {current} : PlaceOf(p)' = PlaceOf(p)
    BY <1>0, <2>1, <2>2, StepMovesOn
  <2>4. \A p \in Procs \ {current} : (InKsleep(p)' <=> InKsleep(p)) /\ lock # p
    BY <1>0, <1>f, <2>3 DEF InKsleep, Program, KsleepUndivided
  <2>5. InKsleep(current) <=> op \in {"mark", "timer", "unlock"}
    BY <2>3 DEF InKsleep
  <2>6. \A p \in Procs : p = current => (InKsleep(p)' <=> op \in {"lock", "mark", "timer"})
    <3>1. \A p \in Procs : p = current =>
            (InKsleep(p)' <=> Program(p)[After] \in {"mark", "timer", "unlock"})
      BY <2>2, <2>3 DEF InKsleep, Program
    <3>2. op = "int" => Program(current)[After] \in {"lock", "hlt"}
      <4> SUFFICES ASSUME op = "int" PROVE Program(current)[After] \in {"lock", "hlt"}
        OBVIOUS
      <4>1. Program(current) = VatRunner /\ Len(VatRunner) = 11 /\ pc \in 1 .. 11
        BY <1>0, <2>1, KsleepSteps, Programs DEF TypeOK, VatRunner
      <4> QED BY <2>1, <2>3, <4>1 DEF Op, After, VatRunner
    <3>3. /\ op = "lock" => Program(current)[After] = "mark"
          /\ op = "mark" => Program(current)[After] = "timer"
          /\ op = "timer" => Program(current)[After] = "unlock"
          /\ op = "unlock" => Program(current)[After] = "int"
      BY <1>0, <2>1, KsleepSteps
    <3> QED BY <2>1, <3>1, <3>2, <3>3
  <2>7. lock' = IF op = "lock" THEN current ELSE IF op = "unlock" THEN Free ELSE lock
    BY <1>3, <2>1 DEF Step, SchedulerLock, MarkSleeping, SetTimer, SchedulerUnlock, Int32, At
  <2>8. \A p \in Procs : p = current => (InKsleep(p)' <=> lock' = p)
    BY <1>0, <1>f, <2>1, <2>5, <2>6, <2>7 DEF KsleepUndivided
  <2>9. \A p \in Procs \ {current} : ~InKsleep(p)' /\ lock' # p
    BY <1>0, <1>f, <2>4, <2>7 DEF KsleepUndivided
  <2>10. lock' \in {Free, current'} /\ ~firstTime'
    BY <1>0, <2>2, <2>3, <2>7 DEF KsleepUndivided
  <2>11. \A p \in Procs : InKsleep(p)' <=> lock' = p
    BY <2>8, <2>9
  <2> QED BY <2>10, <2>11 DEF KsleepUndivided
<1>4. CASE UNCHANGED vars
  BY <1>0, <1>4 DEF vars, KsleepUndivided, InKsleep, PlaceOf, Program
<1> QED BY <1>1, <1>2, <1>3, <1>4 DEF Next

\* The processes begin as the abstract ones do.
LEMMA InitImplements == Init => OwnProcessors!Init
  BY HaltAssumption DEF Init, OwnProcessors!Init, Places, PlaceOf, Sleepers

\* Every step is one of the process that runs, a waking of sleepers, or
\* nothing that a process could see.
LEMMA NextImplements ==
  ProcessorInv /\ [Next]_vars => [OwnProcessors!Next]_OwnProcessors!vars
<1> SUFFICES ASSUME ProcessorInv, [Next]_vars
             PROVE  OwnProcessors!Next \/ UNCHANGED <<Places, Sleepers, lock>>
  BY DEF OwnProcessors!vars
<1>0. TypeOK /\ SchedulerInv /\ KsleepUndivided /\ current \in Procs
  BY DEF ProcessorInv, SchedulerInv, TypeOK
<1>f. Free \notin Procs
  BY HaltAssumption DEF Free, Procs
<1>p. \A p \in Procs : Places[p] = PlaceOf(p)
  BY DEF Places
<1>b. \A p \in Procs : OwnProcessors!Following(p) = Beyond(p)
  BY <1>p DEF OwnProcessors!Following, Beyond
<1>1. CASE TimerHandler
  <2>1. Places' = Places /\ lock = Free /\ lock' = lock
    BY <1>0, <1>1, SwitchMovesNobody DEF TimerHandler
  <2>2. Sleepers' = Sleepers \ Wakes /\ Wakes \in SUBSET Sleepers
    BY <1>0, <1>1 DEF TimerHandler, StatusNow, Wakes, Sleepers
  <2>3. OwnProcessors!Wake
    BY <2>1, <2>2 DEF OwnProcessors!Wake
  <2> QED BY <2>3 DEF OwnProcessors!Next
<1>2. CASE TimerInterrupt
  <2>1. UNCHANGED <<Sleepers, lock>>
    BY <1>2 DEF TimerInterrupt, Sleepers
  <2>2. CASE Places' = Places
    BY <2>1, <2>2
  <2>3. CASE Places' # Places
    <3>1. /\ ~firstTime /\ ~handling /\ Op = "hlt"
          /\ Program(current)[PlaceOf(current)] = "hlt"
          /\ Places' = [Places EXCEPT ![current] = Beyond(current)]
      BY <1>0, <1>2, <2>3, TickMovesOn
    <3>2. current \notin Sleepers
      BY <1>0, <3>1 DEF SchedulerInv, SleepersRest, Sleepers
    <3>3. OwnProcessors!Does(current, "hlt")
      BY <1>0, <1>p, <1>b, <3>1 DEF OwnProcessors!Does
    <3>4. OwnProcessors!Halt(current)
      BY <2>1, <3>2, <3>3 DEF OwnProcessors!Halt
    <3> QED BY <1>0, <3>4 DEF OwnProcessors!Next, OwnProcessors!Runs
  <2> QED BY <2>2, <2>3
<1>3. CASE Step
  <2>1. ASSUME NEW op \in {"lock", "mark", "timer", "unlock", "int"}, At(op),
               UNCHANGED <<saved, current, firstTime>>
        PROVE  /\ OwnProcessors!Does(current, op)
               /\ op \in {"mark", "timer", "unlock"} => lock = current
               /\ op \in {"lock", "hlt"} => current \notin Sleepers
    <3>1. /\ Program(current)[PlaceOf(current)] = op
          /\ Places' = [Places EXCEPT ![current] = Beyond(current)]
          /\ ~firstTime
      BY <1>0, <2>1, StepMovesOn
    <3>2. OwnProcessors!Does(current, op)
      BY <1>0, <1>p, <1>b, <3>1 DEF OwnProcessors!Does
    <3>3. op \in {"mark", "timer", "unlock"} => lock = current
      BY <1>0, <3>1 DEF KsleepUndivided, InKsleep
    <3>4. op = "lock" => current \notin Sleepers
      BY <1>0, <2>1, <3>1 DEF SchedulerInv, SleepersRest, Sleepers, At
    <3> QED BY <3>2, <3>3, <3>4
  <2>2. CASE SchedulerLock
    <3>1. OwnProcessors!Enter(current)
      BY <2>1, <2>2 DEF SchedulerLock, OwnProcessors!Enter, Sleepers
    <3> QED BY <1>0, <3>1 DEF OwnProcessors!Next, OwnProcessors!Runs
  <2>3. CASE MarkSleeping
    <3>1. Sleepers' = Sleepers \cup {current}
      BY <1>0, <2>3 DEF MarkSleeping, Sleepers, TypeOK
    <3>2. OwnProcessors!FallAsleep(current)
      BY <2>1, <2>3, <3>1 DEF MarkSleeping, OwnProcessors!FallAsleep
    <3> QED BY <1>0, <3>2 DEF OwnProcessors!Next, OwnProcessors!Runs
  <2>4. CASE SetTimer
    <3>1. OwnProcessors!SetAlarm(current)
      BY <2>1, <2>4 DEF SetTimer, OwnProcessors!SetAlarm, Sleepers
    <3> QED BY <1>0, <3>1 DEF OwnProcessors!Next, OwnProcessors!Runs
  <2>5. CASE SchedulerUnlock
    <3>1. OwnProcessors!Leave(current)
      BY <2>1, <2>5 DEF SchedulerUnlock, OwnProcessors!Leave, Sleepers
    <3> QED BY <1>0, <3>1 DEF OwnProcessors!Next, OwnProcessors!Runs
  <2>6. CASE Int32
    <3>1. OwnProcessors!GiveWay(current)
      BY <2>1, <2>6 DEF Int32, OwnProcessors!GiveWay, Sleepers
    <3> QED BY <1>0, <3>1 DEF OwnProcessors!Next, OwnProcessors!Runs
  <2> QED BY <1>3, <2>2, <2>3, <2>4, <2>5, <2>6 DEF Step
<1>4. CASE UNCHANGED vars
  BY <1>4 DEF vars, Places, PlaceOf, Sleepers
<1> QED BY <1>1, <1>2, <1>3, <1>4 DEF Next

\* The one processor with its timer implements one processor per process: no
\* instruction is skipped or done twice, wherever it is cut in, and nobody
\* else runs while a process holds the lock of SCHEDULER.
THEOREM ProcessorForEach == Spec => ImplementsProcesses
  BY InitProcessors, NextProcessors, InitImplements, NextImplements, PTL
     DEF Spec, ImplementsProcesses, OwnProcessors!Spec
=============================================================================
