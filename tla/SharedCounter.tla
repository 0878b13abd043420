----------------------------- MODULE SharedCounter -----------------------------
(***************************************************************************)
(* The programs in which threads add to one shared integer and main prints *)
(* it after joining them:                                                  *)
(*   src/asm_7/ex_1/ex_1.c      two threads, once, +1 and +2, no lock      *)
(*   src/asm_7/ex_2/no_mutex.c  two threads, 100000 times, no lock         *)
(*   src/asm_7/ex_2/mutex.c     the same under a mutex                     *)
(*   src/asm_8/ex_1/ex_1.c      n threads, once, under a mutex             *)
(*   src/asm_8/ex_4/ex_4.c      n threads, 100 times, under a spinlock     *)
(* They differ in the data of the variable program, fixed at the start.    *)
(*                                                                         *)
(* The addition is a load and a store: without a lock it is a data race,   *)
(* and the tasks.json of the programs builds them without optimisation, so *)
(* every round of the loop loads and stores the counter.                   *)
(***************************************************************************)
EXTENDS Integers, FiniteSetsExt

CONSTANTS THREADS,                \* the number of threads the user asks for
          LOOPS,                  \* 100000 in the programs of asm_7/ex_2
          INCREMENTS_PER_THREAD   \* 100 in asm_8/ex_4

ASSUME CounterAssumption == /\ THREADS \in Nat \ {0, 1}
                            /\ LOOPS \in Nat \ {0}
                            /\ INCREMENTS_PER_THREAD \in Nat \ {0}

Threads == 1 .. THREADS
Nobody == 0

\* A program: the initial counter, whether the addition is locked, what each
\* thread adds and how often (0 times: the program has no such thread).
Program(start, guarded, rounds, amount) ==
    [start |-> start, guarded |-> guarded, rounds |-> rounds, amount |-> amount]

Two(n) == [t \in Threads |-> IF t <= 2 THEN n ELSE 0]
All(n) == [t \in Threads |-> n]

tmp_adders == Program(5, FALSE, Two(1), [t \in Threads |-> t])
no_mutex == Program(0, FALSE, Two(LOOPS), All(1))
mutex == Program(0, TRUE, Two(LOOPS), All(1))
once_each == Program(0, TRUE, All(1), All(1))
spinlock == Program(0, TRUE, All(INCREMENTS_PER_THREAD), All(1))

CounterPrograms == {tmp_adders, no_mutex, mutex, once_each, spinlock}

VARIABLES program,    \* the program that runs
          counter,    \* the shared integer
          loaded,     \* the value each thread has loaded
          laps,       \* loop counter of each thread
          pc,         \* where each thread stands
          lock,       \* the owner of the lock
          main        \* main is joining, or has printed the counter

counterVars == <<program, counter, loaded, laps, pc, lock, main>>

\* The head of the loop, for thread t with k rounds behind it.
LoopHead(t, k) == IF k < program.rounds[t]
                  THEN IF program.guarded THEN "lock" ELSE "load"
                  ELSE "done"

Goto(t, from, to) == pc[t] = from /\ pc' = [pc EXCEPT ![t] = to]

CounterInit == /\ program \in CounterPrograms
               /\ counter = program.start
               /\ loaded = [t \in Threads |-> 0]
               /\ laps = [t \in Threads |-> 0]
               /\ pc = [t \in Threads |-> LoopHead(t, 0)]
               /\ lock = Nobody
               /\ main = "join"

\* Mutation: the lock does not exclude anybody.
TakeLockBroken(t) == /\ Goto(t, "lock", "load")
                     /\ lock' = t
                     /\ UNCHANGED <<program, counter, loaded, laps, main>>

\* pthread_mutex_lock or pthread_spin_lock returns.
TakeLock(t) == /\ Goto(t, "lock", "load")
               /\ lock = Nobody
               /\ lock' = t
               /\ UNCHANGED <<program, counter, loaded, laps, main>>

Load(t) == /\ Goto(t, "load", "store")
           /\ loaded' = [loaded EXCEPT ![t] = counter]
           /\ UNCHANGED <<program, counter, laps, lock, main>>

\* Mutation: "=+" for "+=".
StoreAssigned(t) == /\ Goto(t, "store", IF program.guarded THEN "unlock"
                                        ELSE LoopHead(t, laps[t] + 1))
                    /\ counter' = program.amount[t]
                    /\ laps' = [laps EXCEPT ![t] = @ + 1]
                    /\ UNCHANGED <<program, loaded, lock, main>>

\* The sum is stored; without a lock the next round begins at once.
Store(t) == /\ Goto(t, "store", IF program.guarded THEN "unlock"
                                ELSE LoopHead(t, laps[t] + 1))
            /\ counter' = loaded[t] + program.amount[t]
            /\ laps' = [laps EXCEPT ![t] = @ + 1]
            /\ UNCHANGED <<program, loaded, lock, main>>

\* Mutation: the lock stays taken.
ReleaseForgotten(t) == /\ Goto(t, "unlock", LoopHead(t, laps[t]))
                       /\ UNCHANGED <<program, counter, loaded, laps, lock, main>>

Release(t) == /\ Goto(t, "unlock", LoopHead(t, laps[t]))
              /\ lock' = Nobody
              /\ UNCHANGED <<program, counter, loaded, laps, main>>

\* main has joined the threads, destroys the lock and prints the counter.
Finish == /\ main = "join"
          /\ \A t \in Threads : pc[t] = "done"
          /\ main' = "exit"
          /\ UNCHANGED <<program, counter, loaded, laps, pc, lock>>

increment(t) == TakeLock(t) \/ Load(t) \/ Store(t) \/ Release(t)

CounterNext == (\E t \in Threads : increment(t)) \/ Finish

CounterSafeSpec == CounterInit /\ [][CounterNext]_counterVars
-------------------------------------------------------------------------------
\* The variables keep their types.
CounterTypeOK == /\ program \in CounterPrograms
                 /\ counter \in Int
                 /\ loaded \in [Threads -> Int]
                 /\ \A t \in Threads : laps[t] \in 0 .. program.rounds[t]
                 /\ pc \in [Threads -> {"lock", "load", "store", "unlock", "done"}]
                 /\ lock \in Threads \cup {Nobody}
                 /\ main \in {"join", "exit"}

\* What the threads have added so far, if nothing got lost: the units of all
\* of them, counted.
Units == UNION {{t} \X (1 .. laps[t] * program.amount[t]) : t \in Threads}
Added == Cardinality(Units)

\* With the lock nothing is ever lost: mutex.c, ex_1.c and ex_4.c print the
\* number of increments (and asm_8/ex_1 the exact running count).
GuardedIsExact == program.guarded => counter = program.start + Added

\* Without it additions can be lost but never made up.
NothingMadeUp == /\ counter <= program.start + Added
                 /\ \A t \in Threads : loaded[t] <= program.start + Added

Working == {t \in Threads : program.rounds[t] > 0}

\* How much no_mutex.c and asm_7/ex_1 can lose: of all rounds of all threads
\* at least the additions of two rounds survive (of one, if each has only one),
\* however the loads and stores interleave.
AtLeastTwoSurvive ==
    main = "exit" =>
        LET rounds == Min({program.rounds[t] : t \in Working})
            amount == Min({program.amount[t] : t \in Working})
        IN  counter >= program.start + amount * (IF rounds = 1 THEN 1 ELSE 2)

\* Both bounds of what the programs without a lock print.
DamageBounded == NothingMadeUp /\ AtLeastTwoSurvive
===============================================================================
