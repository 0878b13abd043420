-------------------------- MODULE SharedCounterProofs --------------------------
(***************************************************************************)
(* Proofs about SharedCounter for every number of threads and of rounds.   *)
(***************************************************************************)
EXTENDS SharedCounter, FiniteSetTheorems, TLAPS

\* A thread of a guarded program adds while it owns the lock, and only then.
LockOwned == program.guarded =>
                 \A t \in Threads : pc[t] \in {"load", "store", "unlock"} <=> lock = t

\* What the owner of the lock has loaded is the value of the counter still.
LoadedIsCurrent == program.guarded =>
                       \A t \in Threads : pc[t] = "store" => loaded[t] = counter

\* A thread in the loop body has rounds left.
RoundsLeft == \A t \in Threads :
                  pc[t] \in {"lock", "load", "store"} => laps[t] < program.rounds[t]

\* A thread that is done has no rounds left, and main exits after all of them.
DoneLast == /\ \A t \in Threads : pc[t] = "done" => laps[t] = program.rounds[t]
            /\ main = "exit" => \A t \in Threads : pc[t] = "done"

\* Only finitely much is added.
FinitelyMuch == laps \in [Threads -> Nat] /\ IsFiniteSet(Units)

\* The fewest rounds and the smallest amount of a thread that works.
Fewest == Min({program.rounds[t] : t \in Working})
Least == Min({program.amount[t] : t \in Working})

\* An addition survives from the first store on, and with it in whatever is
\* loaded for a later round; so the last store of all, which ends the last round
\* of its thread, leaves two, or one if no thread has a second round.
Surviving ==
    /\ counter >= program.start
    /\ \A t \in Threads : laps[t] > 0 => counter >= program.start + Least
    /\ \A t \in Threads : pc[t] = "store" =>
           /\ loaded[t] >= program.start
           /\ laps[t] > 0 => loaded[t] >= program.start + Least
    /\ (\A t \in Threads : laps[t] = program.rounds[t]) =>
           counter >= program.start + Least * (IF Fewest = 1 THEN 1 ELSE 2)

\* The inductive invariant.
CounterInv == /\ CounterTypeOK
              /\ LockOwned
              /\ LoadedIsCurrent
              /\ RoundsLeft
              /\ DoneLast
              /\ FinitelyMuch
              /\ GuardedIsExact
              /\ NothingMadeUp
              /\ Surviving
-------------------------------------------------------------------------------
\* What the five programs have in common.
LEMMA ProgramShape ==
    ASSUME NEW p \in CounterPrograms
    PROVE  /\ p.start \in Int /\ p.guarded \in BOOLEAN
           /\ p.rounds \in [Threads -> Nat] /\ p.amount \in [Threads -> Nat]
           /\ p.guarded => \A t \in Threads : p.amount[t] = 1
<1> USE CounterAssumption DEF CounterPrograms, Program, Threads
<1>1. CASE p = tmp_adders
    BY <1>1 DEF tmp_adders, Two
<1>2. CASE p = no_mutex
    BY <1>2 DEF no_mutex, Two, All
<1>3. CASE p = mutex
    BY <1>3 DEF mutex, Two, All
<1>4. CASE p = once_each
    BY <1>4 DEF once_each, All
<1>5. CASE p = spinlock
    BY <1>5 DEF spinlock, All
<1> QED
    BY <1>1, <1>2, <1>3, <1>4, <1>5

\* Some thread works, and has no fewer rounds and adds no less than the least.
LEMMA LeastShape ==
    ASSUME program \in CounterPrograms
    PROVE  /\ Working # {} /\ Fewest \in Nat \ {0} /\ Least \in Nat
           /\ \A t \in Working : program.rounds[t] >= Fewest /\ program.amount[t] >= Least
<1> USE CounterAssumption DEF Program, Threads
<1>1. 1 \in Threads /\ 2 \in Threads
    OBVIOUS
<1>2. ASSUME NEW n \in Nat \ {0}, \A t \in Working : program.rounds[t] = n, Working # {}
      PROVE  Fewest = n
  <2>1. {program.rounds[t] : t \in Working} = {n}
    BY <1>2
  <2> QED
    BY <2>1 DEF Fewest, Min
<1>3. ASSUME program # tmp_adders
      PROVE  /\ Working # {} /\ Fewest \in Nat \ {0} /\ Least \in Nat
             /\ \A t \in Working : program.rounds[t] >= Fewest /\ program.amount[t] >= Least
  <2>1. PICK n \in Nat \ {0} : /\ program.rounds \in {Two(n), All(n)}
                               /\ program.amount = All(1)
    BY <1>3 DEF CounterPrograms, no_mutex, mutex, once_each, spinlock
  <2>2. \A t \in Threads : program.rounds[t] \in {0, n} /\ program.amount[t] = 1
    BY <2>1 DEF Two, All
  <2>3. program.rounds[1] = n
    BY <1>1, <2>1 DEF Two, All
  <2>4. 1 \in Working /\ \A t \in Working : program.rounds[t] = n
    BY <1>1, <2>2, <2>3 DEF Working
  <2>5. {program.amount[t] : t \in Working} = {1}
    BY <2>2, <2>4 DEF Working
  <2>6. Least = 1
    BY <2>5 DEF Least, Min
  <2> QED
    BY <1>2, <2>2, <2>4, <2>6 DEF Working
<1>4. ASSUME program = tmp_adders
      PROVE  /\ Working # {} /\ Fewest \in Nat \ {0} /\ Least \in Nat
             /\ \A t \in Working : program.rounds[t] >= Fewest /\ program.amount[t] >= Least
  <2>1. \A t \in Threads : /\ program.rounds[t] = (IF t <= 2 THEN 1 ELSE 0)
                           /\ program.amount[t] = t
    BY <1>4 DEF tmp_adders, Two
  <2>2. Working = {1, 2}
    BY <1>1, <2>1 DEF Working
  <2>3. \A t \in Working : program.rounds[t] = 1
    BY <1>1, <2>1, <2>2
  <2>4. {program.amount[t] : t \in Working} = {1, 2}
    BY <1>1, <2>1, <2>2
  <2>5. Least = 1
    BY <2>4 DEF Least, Min
  <2> QED
    BY <1>1, <1>2, <2>1, <2>2, <2>3, <2>5
<1> QED
    BY <1>3, <1>4

\* The product of one factor more.
LEMMA OneFactorMore == \A m, n \in Nat : m * n \in Nat /\ (m + 1) * n = m * n + n
    OBVIOUS

\* A round more of thread t is as many units more as it adds.
LEMMA RoundMore ==
    ASSUME CounterInv, NEW t \in Threads, program' = program,
           laps' = [laps EXCEPT ![t] = @ + 1]
    PROVE  IsFiniteSet(Units') /\ Added' = Added + program.amount[t]
<1>1. /\ laps \in [Threads -> Nat] /\ program.amount \in [Threads -> Nat]
      /\ IsFiniteSet(Units)
    BY ProgramShape DEF CounterInv, CounterTypeOK, FinitelyMuch
<1>2. PICK n \in Nat : n = program.amount[t]
    BY <1>1
<1>3. PICK m \in Nat : m = laps[t] * program.amount[t]
    BY <1>1, OneFactorMore
<1>4. /\ laps'[t] * program'.amount[t] = m + n
      /\ \A s \in Threads \ {t} : laps'[s] * program'.amount[s] = laps[s] * program.amount[s]
  <2>1. laps'[t] = laps[t] + 1 /\ \A s \in Threads \ {t} : laps'[s] = laps[s]
    BY <1>1
  <2>2. (laps[t] + 1) * program.amount[t] = laps[t] * program.amount[t] + program.amount[t]
    BY <1>1, OneFactorMore
  <2>3. laps'[t] * program'.amount[t] = (laps[t] + 1) * program.amount[t]
    BY <2>1
  <2> QED
    BY <1>2, <1>3, <2>1, <2>2, <2>3
<1> DEFINE more == {t} \X (m + 1 .. m + n)
<1>5. Units' = Units \cup more
  <2>1. 1 .. m + n = (1 .. m) \cup (m + 1 .. m + n)
    OBVIOUS
  <2>2. {t} \X (1 .. m + n) = ({t} \X (1 .. m)) \cup more
    BY <2>1
  <2>3. Units = UNION {{s} \X (1 .. laps[s] * program.amount[s]) : s \in Threads}
    BY DEF Units
  <2>4. Units' = UNION {{s} \X (1 .. laps'[s] * program'.amount[s]) : s \in Threads}
    BY DEF Units
  <2> HIDE DEF more
  <2> QED
    BY <1>3, <1>4, <2>2, <2>3, <2>4
<1>6. Units \cap more = {}
  <2>1. ASSUME NEW u \in Units, u \in more PROVE FALSE
    <3>1. PICK s \in Threads : u \in {s} \X (1 .. laps[s] * program.amount[s])
      BY DEF Units
    <3>2. s = t
      BY <2>1, <3>1
    <3>3. u[2] \in 1 .. m /\ u[2] \in m + 1 .. m + n
      BY <1>3, <2>1, <3>1, <3>2
    <3> QED
      BY <3>3
  <2> QED
    BY <2>1
<1>7. IsFiniteSet(more) /\ Cardinality(more) = n
  <2>1. IsFiniteSet(m + 1 .. m + n) /\ Cardinality(m + 1 .. m + n) = n
    <3>1. m + 1 \in Int /\ m + n \in Int
      OBVIOUS
    <3>2. /\ IsFiniteSet(m + 1 .. m + n)
          /\ Cardinality(m + 1 .. m + n) =
                 IF m + 1 > m + n THEN 0 ELSE (m + n) - (m + 1) + 1
      BY <3>1, FS_Interval
    <3> QED
      BY <3>2
  <2>2. IsFiniteSet({t}) /\ Cardinality({t}) = 1
    BY FS_Singleton
  <2>3. IsFiniteSet(more) /\ Cardinality(more) = 1 * n
    BY <2>1, <2>2, FS_Product
  <2> QED
    BY <2>3
<1> HIDE DEF more
<1>8. Cardinality(Units \cup more) = Cardinality(Units) + n - Cardinality({})
    BY <1>1, <1>6, <1>7, FS_Union
<1>9. Cardinality(Units) \in Nat /\ Cardinality({}) = 0
    BY <1>1, FS_CardinalityType, FS_EmptySet
<1>10. IsFiniteSet(Units')
    BY <1>1, <1>5, <1>7, FS_Union
<1> QED
    BY <1>2, <1>5, <1>8, <1>9, <1>10 DEF Added
-------------------------------------------------------------------------------
\* Every program starts in a state that satisfies the invariant.
LEMMA CounterInitInv == CounterInit => CounterInv
<1> SUFFICES ASSUME CounterInit PROVE CounterInv
    OBVIOUS
<1>1. /\ program \in CounterPrograms /\ program.start \in Int /\ program.guarded \in BOOLEAN
      /\ program.rounds \in [Threads -> Nat] /\ program.amount \in [Threads -> Nat]
    BY ProgramShape DEF CounterInit
<1>2. /\ laps = [t \in Threads |-> 0] /\ counter = program.start /\ lock = Nobody
      /\ loaded = [t \in Threads |-> 0] /\ main = "join"
      /\ pc = [t \in Threads |-> LoopHead(t, 0)]
    BY DEF CounterInit
<1>3. \A t \in Threads : /\ LoopHead(t, 0) \in {"lock", "load", "done"}
                         /\ LoopHead(t, 0) # "done" => 0 < program.rounds[t]
                         /\ program.guarded => LoopHead(t, 0) # "load"
    BY DEF LoopHead
<1>4. Nobody \notin Threads
    BY DEF Nobody, Threads
<1>5. \A t \in Threads : /\ pc[t] \in {"lock", "load", "done"} /\ laps[t] = 0
                         /\ pc[t] # "done" => 0 < program.rounds[t]
                         /\ program.guarded => pc[t] # "load"
  <2>1. \A t \in Threads : pc[t] = LoopHead(t, 0) /\ laps[t] = 0
    BY <1>2
  <2> QED
    BY <1>3, <2>1
<1>6. CounterTypeOK /\ LockOwned /\ LoadedIsCurrent /\ RoundsLeft
  <2>1. \A t \in Threads : laps[t] \in 0 .. program.rounds[t]
    BY <1>1, <1>5
  <2>2. counter \in Int /\ loaded \in [Threads -> Int]
    BY <1>1, <1>2
  <2>3. pc \in [Threads -> {"lock", "load", "store", "unlock", "done"}]
    <3>1. \A t \in Threads : LoopHead(t, 0) \in {"lock", "load", "store", "unlock", "done"}
      BY <1>3
    <3>2. pc = [t \in Threads |-> LoopHead(t, 0)]
      BY <1>2
    <3> QED
      BY ONLY <3>1, <3>2
  <2>4. CounterTypeOK
    BY <1>1, <1>2, <2>1, <2>2, <2>3 DEF CounterTypeOK
  <2>5. LockOwned /\ LoadedIsCurrent
    BY <1>2, <1>4, <1>5 DEF LockOwned, LoadedIsCurrent
  <2>6. RoundsLeft
    BY <1>5 DEF RoundsLeft
  <2> QED
    BY <2>4, <2>5, <2>6
<1>7. laps \in [Threads -> Nat]
    BY <1>2
<1>8. Units = {}
  <2>1. \A t \in Threads : laps[t] * program.amount[t] = 0
    BY <1>1, <1>5
  <2> QED
    BY <2>1 DEF Units
<1>9. IsFiniteSet(Units) /\ Added = 0
    BY <1>8, FS_EmptySet DEF Added
<1>10. FinitelyMuch /\ GuardedIsExact
    BY <1>1, <1>2, <1>7, <1>9 DEF FinitelyMuch, GuardedIsExact
<1>11. NothingMadeUp
  <2>1. program.start >= 0
    BY <1>1 DEF CounterPrograms, Program, tmp_adders, no_mutex, mutex, once_each, spinlock
  <2> QED
    BY <1>1, <1>2, <1>9, <2>1 DEF NothingMadeUp
<1>12. DoneLast
  <2>1. \A t \in Threads : pc[t] = "done" => program.rounds[t] = 0
    BY <1>1, <1>2 DEF LoopHead
  <2> QED
    BY <1>2, <2>1 DEF DoneLast
<1>13. Surviving
  <2>1. \A t \in Threads : laps[t] = 0 /\ pc[t] # "store"
    BY <1>5
  <2>2. \E t \in Threads : program.rounds[t] > 0
    BY <1>1, LeastShape DEF Working
  <2> QED
    BY <1>1, <1>2, <2>1, <2>2 DEF Surviving
<1> QED
    BY <1>6, <1>10, <1>11, <1>12, <1>13 DEF CounterInv

\* The lock, the loaded values and the loop counters.
LEMMA ThreadStep ==
    CounterInv /\ [CounterNext]_counterVars =>
        (CounterTypeOK /\ LockOwned /\ LoadedIsCurrent /\ RoundsLeft)'
<1> SUFFICES ASSUME CounterInv, [CounterNext]_counterVars
             PROVE  (CounterTypeOK /\ LockOwned /\ LoadedIsCurrent /\ RoundsLeft)'
    OBVIOUS
<1>1. /\ program \in CounterPrograms /\ program.start \in Int /\ program.guarded \in BOOLEAN
      /\ program.rounds \in [Threads -> Nat] /\ program.amount \in [Threads -> Nat]
    BY ProgramShape DEF CounterInv, CounterTypeOK
<1>2. Nobody \notin Threads
    BY DEF Nobody, Threads
<1> USE <1>1, <1>2 DEF CounterInv, CounterTypeOK, LockOwned, LoadedIsCurrent, RoundsLeft,
        FinitelyMuch, Goto, LoopHead
<1>3. ASSUME NEW t \in Threads, TakeLock(t)
      PROVE  (CounterTypeOK /\ LockOwned /\ LoadedIsCurrent /\ RoundsLeft)'
    BY <1>3 DEF TakeLock
<1>4. ASSUME NEW t \in Threads, Load(t)
      PROVE  (CounterTypeOK /\ LockOwned /\ LoadedIsCurrent /\ RoundsLeft)'
    BY <1>4 DEF Load
<1>5. ASSUME NEW t \in Threads, Store(t)
      PROVE  (CounterTypeOK /\ LockOwned /\ LoadedIsCurrent /\ RoundsLeft)'
    BY <1>5 DEF Store
<1>6. ASSUME NEW t \in Threads, Release(t)
      PROVE  (CounterTypeOK /\ LockOwned /\ LoadedIsCurrent /\ RoundsLeft)'
    BY <1>6 DEF Release
<1>7. CASE Finish
    BY <1>7 DEF Finish
<1>8. CASE UNCHANGED counterVars
    BY <1>8 DEF counterVars
<1> QED
    BY <1>3, <1>4, <1>5, <1>6, <1>7, <1>8 DEF CounterNext, increment

\* The loops end when the rounds are over, and main after the loops.
LEMMA DoneStep == CounterInv /\ [CounterNext]_counterVars => DoneLast'
<1> SUFFICES ASSUME CounterInv, [CounterNext]_counterVars PROVE DoneLast'
    OBVIOUS
<1>1. /\ program \in CounterPrograms /\ program.rounds \in [Threads -> Nat]
      /\ laps \in [Threads -> Nat]
      /\ \A t \in Threads : laps[t] \in 0 .. program.rounds[t]
      /\ pc \in [Threads -> {"lock", "load", "store", "unlock", "done"}]
    BY ProgramShape DEF CounterInv, CounterTypeOK, FinitelyMuch
<1>2. RoundsLeft /\ DoneLast
    BY DEF CounterInv
<1> USE DEF DoneLast, RoundsLeft, Goto, LoopHead
<1>3. ASSUME NEW t \in Threads, TakeLock(t) \/ Load(t) PROVE DoneLast'
    BY <1>1, <1>2, <1>3 DEF TakeLock, Load
<1>4. ASSUME NEW t \in Threads, Store(t) PROVE DoneLast'
    BY <1>1, <1>2, <1>4 DEF Store
<1>5. ASSUME NEW t \in Threads, Release(t) PROVE DoneLast'
    BY <1>1, <1>2, <1>5 DEF Release
<1>6. ASSUME Finish \/ UNCHANGED counterVars PROVE DoneLast'
    BY <1>2, <1>6 DEF Finish, counterVars
<1> QED
    BY <1>3, <1>4, <1>5, <1>6 DEF CounterNext, increment

\* Under the lock a store adds to the counter what is added; without it the
\* counter may fall behind, but is never ahead.
LEMMA CountStep ==
    CounterInv /\ [CounterNext]_counterVars =>
        (FinitelyMuch /\ GuardedIsExact /\ NothingMadeUp)'
<1> SUFFICES ASSUME CounterInv, [CounterNext]_counterVars
             PROVE  (FinitelyMuch /\ GuardedIsExact /\ NothingMadeUp)'
    OBVIOUS
<1>1. /\ program \in CounterPrograms /\ laps \in [Threads -> Nat] /\ counter \in Int
      /\ loaded \in [Threads -> Int]
      /\ program.start \in Int /\ program.amount \in [Threads -> Nat]
    BY ProgramShape DEF CounterInv, CounterTypeOK, FinitelyMuch
<1>2. FinitelyMuch /\ GuardedIsExact /\ NothingMadeUp /\ Added \in Nat
    BY FS_CardinalityType DEF CounterInv, FinitelyMuch, Added
<1>3. ASSUME UNCHANGED <<program, laps>>
      PROVE  Added' = Added /\ FinitelyMuch'
    BY <1>2, <1>3 DEF FinitelyMuch, Added, Units
<1>4. ASSUME UNCHANGED <<program, counter, laps, loaded>>
      PROVE  (FinitelyMuch /\ GuardedIsExact /\ NothingMadeUp)'
    BY <1>2, <1>3, <1>4 DEF GuardedIsExact, NothingMadeUp
<1>5. ASSUME NEW t \in Threads, Load(t)
      PROVE  (FinitelyMuch /\ GuardedIsExact /\ NothingMadeUp)'
  <2>1. UNCHANGED <<program, counter, laps>> /\ loaded' = [loaded EXCEPT ![t] = counter]
    BY <1>5 DEF Load
  <2>2. Added' = Added /\ FinitelyMuch'
    BY <1>3, <2>1
  <2>3. \A s \in Threads : loaded'[s] <= program.start + Added
    BY <1>1, <1>2, <2>1 DEF NothingMadeUp
  <2> QED
    BY <1>2, <2>1, <2>2, <2>3 DEF GuardedIsExact, NothingMadeUp
<1>6. ASSUME NEW t \in Threads, Store(t)
      PROVE  (FinitelyMuch /\ GuardedIsExact /\ NothingMadeUp)'
  <2>1. /\ program' = program /\ laps' = [laps EXCEPT ![t] = @ + 1] /\ loaded' = loaded
        /\ counter' = loaded[t] + program.amount[t] /\ pc[t] = "store"
    BY <1>6 DEF Store, Goto
  <2>2. IsFiniteSet(Units') /\ Added' = Added + program.amount[t]
    BY <2>1, RoundMore
  <2>3. FinitelyMuch'
    BY <1>1, <2>1, <2>2 DEF FinitelyMuch
  <2>4. loaded[t] \in Int /\ program.amount[t] \in Nat
    BY <1>1
  <2>5. ASSUME program.guarded PROVE counter' = program.start + Added'
    BY <1>1, <1>2, <2>1, <2>2, <2>4, <2>5 DEF CounterInv, LoadedIsCurrent, GuardedIsExact
  <2>6. counter' <= program.start + Added'
    BY <1>1, <1>2, <2>1, <2>2, <2>4 DEF NothingMadeUp
  <2>7. \A s \in Threads : loaded[s] <= program.start + Added'
    BY <1>1, <1>2, <2>2, <2>4 DEF NothingMadeUp
  <2> QED
    BY <2>1, <2>3, <2>5, <2>6, <2>7 DEF GuardedIsExact, NothingMadeUp
<1>7. ASSUME NEW t \in Threads, TakeLock(t) \/ Release(t)
      PROVE  UNCHANGED <<program, counter, laps, loaded>>
    BY <1>7 DEF TakeLock, Release
<1>8. ASSUME Finish \/ UNCHANGED counterVars PROVE UNCHANGED <<program, counter, laps, loaded>>
    BY <1>8 DEF Finish, counterVars
<1> QED
    BY <1>4, <1>5, <1>6, <1>7, <1>8 DEF CounterNext, increment

\* No step takes the last two additions away.
LEMMA SurvivingStep == CounterInv /\ [CounterNext]_counterVars => Surviving'
<1> SUFFICES ASSUME CounterInv, [CounterNext]_counterVars PROVE Surviving'
    OBVIOUS
<1>1. /\ program \in CounterPrograms /\ laps \in [Threads -> Nat] /\ counter \in Int
      /\ loaded \in [Threads -> Int] /\ program.start \in Int
      /\ program.rounds \in [Threads -> Nat] /\ program.amount \in [Threads -> Nat]
      /\ pc \in [Threads -> {"lock", "load", "store", "unlock", "done"}]
    BY ProgramShape DEF CounterInv, CounterTypeOK, FinitelyMuch
<1>2. Surviving /\ RoundsLeft
    BY DEF CounterInv
<1>3. /\ Fewest \in Nat \ {0} /\ Least \in Nat
      /\ \A t \in Working : program.rounds[t] >= Fewest /\ program.amount[t] >= Least
    BY <1>1, LeastShape
<1>4. program' = program /\ Fewest' = Fewest /\ Least' = Least
  <2>1. program' = program
    BY DEF CounterNext, increment, TakeLock, Load, Store, Release, Finish, counterVars
  <2> QED
    BY <2>1 DEF Fewest, Least, Working
<1>5. ASSUME UNCHANGED <<counter, loaded, laps>>,
             \A t \in Threads : pc'[t] = "store" => pc[t] = "store"
      PROVE  Surviving'
    BY <1>2, <1>4, <1>5 DEF Surviving
<1>6. ASSUME NEW t \in Threads, Load(t) PROVE Surviving'
  <2>1. /\ loaded' = [loaded EXCEPT ![t] = counter] /\ UNCHANGED <<counter, laps>>
        /\ pc' = [pc EXCEPT ![t] = "store"]
    BY <1>6 DEF Load, Goto
  <2>2. ASSUME NEW s \in Threads, pc'[s] = "store"
        PROVE  /\ loaded'[s] >= program.start
               /\ laps[s] > 0 => loaded'[s] >= program.start + Least
    BY <1>1, <1>2, <2>1, <2>2 DEF Surviving
  <2> QED
    BY <1>2, <1>4, <2>1, <2>2 DEF Surviving
<1>7. ASSUME NEW t \in Threads, Store(t) PROVE Surviving'
  <2>1. /\ counter' = loaded[t] + program.amount[t] /\ laps' = [laps EXCEPT ![t] = @ + 1]
        /\ loaded' = loaded /\ pc[t] = "store"
        /\ \A s \in Threads : pc'[s] = "store" => pc[s] = "store" /\ s # t
    BY <1>1, <1>7 DEF Store, Goto, LoopHead
  <2>2. t \in Working /\ laps[t] < program.rounds[t]
    BY <1>1, <1>2, <2>1 DEF RoundsLeft, Working
  <2>3. /\ loaded[t] \in Int /\ program.amount[t] \in Nat /\ laps[t] \in Nat
        /\ program.amount[t] >= Least /\ program.rounds[t] >= Fewest
        /\ program.rounds[t] \in Nat
    BY <1>1, <1>3, <2>2
  <2>4. /\ loaded[t] >= program.start
        /\ laps[t] > 0 => loaded[t] >= program.start + Least
    BY <1>2, <2>1 DEF Surviving
  <2>5. counter' >= program.start /\ counter' >= program.start + Least
    BY <1>1, <1>3, <2>1, <2>3, <2>4
  <2>6. ASSUME NEW s \in Threads, pc'[s] = "store"
        PROVE  /\ loaded'[s] >= program.start
               /\ laps'[s] > 0 => loaded'[s] >= program.start + Least
    BY <1>1, <1>2, <2>1, <2>6 DEF Surviving
  <2>7. ASSUME \A s \in Threads : laps'[s] = program.rounds[s]
        PROVE  counter' >= program.start + Least * (IF Fewest = 1 THEN 1 ELSE 2)
    <3>1. laps[t] + 1 = program.rounds[t]
      BY <1>1, <2>1, <2>7
    <3>2. CASE Fewest = 1
      BY <1>3, <2>5, <3>2
    <3>3. CASE Fewest # 1
      <4>1. laps[t] > 0
        BY <1>3, <2>3, <3>1, <3>3
      <4>2. counter' >= program.start + Least + Least
        BY <1>1, <1>3, <2>1, <2>3, <2>4, <4>1
      <4> QED
        BY <1>1, <1>3, <3>3, <4>2
    <3> QED
      BY <3>2, <3>3
  <2> QED
    BY <1>4, <2>5, <2>6, <2>7 DEF Surviving
<1>8. ASSUME NEW t \in Threads, TakeLock(t) \/ Release(t) PROVE Surviving'
  <2>1. /\ UNCHANGED <<counter, loaded, laps>>
        /\ \A s \in Threads : pc'[s] = "store" => pc[s] = "store"
    BY <1>1, <1>8 DEF TakeLock, Release, Goto, LoopHead
  <2> QED
    BY <1>5, <2>1
<1>9. ASSUME Finish \/ UNCHANGED counterVars PROVE Surviving'
    BY <1>5, <1>9 DEF Finish, counterVars
<1> QED
    BY <1>6, <1>7, <1>8, <1>9 DEF CounterNext, increment

LEMMA CounterStep == CounterInv /\ [CounterNext]_counterVars => CounterInv'
    BY ThreadStep, DoneStep, CountStep, SurvivingStep DEF CounterInv
-------------------------------------------------------------------------------
\* Every reachable state satisfies the inductive invariant.
THEOREM CountersInvariant == CounterSafeSpec => []CounterInv
    BY CounterInitInv, CounterStep, PTL DEF CounterSafeSpec

\* The loops never run past their bounds.
THEOREM CountersTypesHold == CounterSafeSpec => []CounterTypeOK
<1>1. CounterInv => CounterTypeOK
    BY DEF CounterInv
<1> QED
    BY CountersInvariant, <1>1, PTL

\* No increment under the mutex or the spinlock is ever lost.
THEOREM LockedCountIsExact == CounterSafeSpec => []GuardedIsExact
<1>1. CounterInv => GuardedIsExact
    BY DEF CounterInv
<1> QED
    BY CountersInvariant, <1>1, PTL

\* Without a lock nothing is made up, and however the loads and stores of any
\* number of threads and rounds interleave, two rounds survive: no_mutex.c
\* prints at least 2 and at most the sum, asm_7/ex_1 at least 6 and at most 8.
THEOREM LossIsBounded == CounterSafeSpec => []DamageBounded
<1>1. CounterInv => DamageBounded
  <2> SUFFICES ASSUME CounterInv PROVE DamageBounded
      OBVIOUS
  <2>1. ASSUME main = "exit" PROVE \A t \in Threads : laps[t] = program.rounds[t]
      BY <2>1 DEF CounterInv, DoneLast
  <2>2. AtLeastTwoSurvive
      BY <2>1 DEF CounterInv, Surviving, Fewest, Least, AtLeastTwoSurvive
  <2> QED
      BY <2>2 DEF CounterInv, DamageBounded
<1> QED
    BY CountersInvariant, <1>1, PTL
===============================================================================
