------------------------------- MODULE LockOrder -------------------------------
(***************************************************************************)
(* src/asm_7/demo_deadlock.c: two threads take two mutexes in opposite     *)
(* orders.  Thread 1 makes ROUNDS rounds; thread 2 returns inside its loop *)
(* and makes one.                                                          *)
(***************************************************************************)
EXTENDS Integers

CONSTANT ROUNDS   \* 100000 in the program

ASSUME LockOrderAssumption == ROUNDS \in Nat \ {0}

LockThreads == {1, 2}
First(t) == t            \* increment_1 starts with lock1, increment_2 with lock2
Second(t) == 3 - t
Rounds == <<ROUNDS, 1>>

VARIABLES holder,    \* who holds each mutex, 0 for nobody
          thread,    \* where each thread stands
          round,     \* the rounds each thread has completed
          joined     \* main has joined both threads

lockVars == <<holder, thread, round, joined>>

LockInit == /\ holder = <<0, 0>>
            /\ thread = <<"first", "first">>
            /\ round = <<0, 0>>
            /\ joined = FALSE

Steps(t, from, to) == thread[t] = from /\ thread' = [thread EXCEPT ![t] = to]
Takes(t, m) == holder[m] = 0 /\ holder' = [holder EXCEPT ![m] = t]
Gives(m) == holder' = [holder EXCEPT ![m] = 0]

LockFirst(t) == /\ Steps(t, "first", "second") /\ Takes(t, First(t))
                /\ UNCHANGED <<round, joined>>

LockSecond(t) == /\ Steps(t, "second", "print") /\ Takes(t, Second(t))
                 /\ UNCHANGED <<round, joined>>

UnlockSecond(t) == /\ Steps(t, "print", "unlock") /\ Gives(Second(t))
                   /\ UNCHANGED <<round, joined>>

\* Mutation: the return of thread 2 stands before the last unlock.
UnlockFirstReturning(t) ==
    /\ Steps(t, "unlock", IF round[t] + 1 < Rounds[t] THEN "first" ELSE "done")
    /\ IF t = 2 THEN UNCHANGED holder ELSE Gives(First(t))
    /\ round' = [round EXCEPT ![t] = @ + 1]
    /\ UNCHANGED joined

UnlockFirst(t) ==
    /\ Steps(t, "unlock", IF round[t] + 1 < Rounds[t] THEN "first" ELSE "done")
    /\ Gives(First(t))
    /\ round' = [round EXCEPT ![t] = @ + 1]
    /\ UNCHANGED joined

Increment(t) == LockFirst(t) \/ LockSecond(t) \/ UnlockSecond(t) \/ UnlockFirst(t)

\* The joins and the destruction of the mutexes.
JoinBoth == /\ ~joined
            /\ \A t \in LockThreads : thread[t] = "done"
            /\ joined' = TRUE
            /\ UNCHANGED <<holder, thread, round>>

LockNext == (\E t \in LockThreads : Increment(t)) \/ JoinBoth
-------------------------------------------------------------------------------
\* The variables keep their types.
LockTypeOK == /\ holder \in [{1, 2} -> {0} \cup LockThreads]
              /\ thread \in [LockThreads -> {"first", "second", "print", "unlock", "done"}]
              /\ \A t \in LockThreads : round[t] \in 0 .. Rounds[t]
              /\ joined \in BOOLEAN

Crosswise == \A t \in LockThreads : thread[t] = "second" /\ holder[First(t)] = t

\* The program ends, with both mutexes free to be destroyed, unless each thread
\* holds the mutex the other one waits for; once thread 2 has made its only
\* round that cannot happen any more and the program does end.
EndsOrLocksUp == /\ <>(Crosswise \/ (joined /\ holder = <<0, 0>>))
                 /\ thread[2] = "done" ~> joined
===============================================================================
