---------------------------- MODULE ThreadPipeline ----------------------------
(***************************************************************************)
(* src/asm_7/pthread_cond.c: three threads in a row, each handing NUM      *)
(* tokens to the next through a flag under one mutex.  Thread 1 polls      *)
(* until its flag is free; threads 2 and 3 wait on conditions.  Thread 2   *)
(* sets b_done without looking at it, so a token that thread 3 has not     *)
(* taken yet can be overwritten.                                           *)
(*                                                                         *)
(* A step is the code between two calls that other threads can see.  The   *)
(* flag is set and the condition signalled under the mutex, with nothing   *)
(* between them that another thread can see, so they are one step.         *)
(***************************************************************************)
EXTENDS Integers

CONSTANT NUM              \* tokens each thread handles, 5 in the program

ASSUME NumAssumption == NUM \in Nat \ {0}

VARIABLES a_done,         \* thread 1 has a token for thread 2
          b_done,         \* thread 2 has a token for thread 3
          i,              \* loop counter of each thread
          pc,             \* where each thread stands
          joined,         \* threads main has joined
          owner, waiters  \* the mutex and the wait sets of the conditions

Threads == 1 .. 3
Conds == {"cond_A_done", "cond_B_done"}
Nobody == 0

INSTANCE Pthreads

flags == <<a_done, b_done>>
mutexVars == <<owner, waiters>>
vars == <<flags, i, pc, joined, mutexVars>>

Goto(t, label) == pc' = [pc EXCEPT ![t] = label]

\* main has created the threads.
Init == /\ a_done = 0 /\ b_done = 0
        /\ i = [t \in Threads |-> 0]
        /\ pc = [t \in Threads |-> "lock"]
        /\ joined = 0
        /\ MutexInit(Conds)
-------------------------------------------------------------------------------
\* What the thread functions do alike.

\* The mutex is taken: at the head of an iteration, or by thread 1 after
\* its usleep.
Enter(t) == /\ pc[t] = "lock"
            /\ Lock(t)
            /\ Goto(t, "test")
            /\ UNCHANGED <<flags, i, joined>>

\* pthread_cond_wait returns with the mutex; the loop condition is retested.
WakeUp(t) == /\ pc[t] = "wake" /\ ~Blocked(t)
             /\ Lock(t)
             /\ Goto(t, "test")
             /\ UNCHANGED <<flags, i, joined>>

\* The loop condition holds: wait for cond, giving up the mutex.
BlockOn(t, cond) == /\ pc[t] = "test"
                    /\ Wait(t, cond)
                    /\ Goto(t, "wake")
                    /\ UNCHANGED <<flags, i, joined>>

\* Thread t finds its flag as it needs it and is done with the flags.
Process(t) == /\ pc[t] = "test"
              /\ Goto(t, "unlock")
              /\ UNCHANGED <<i, joined>>

\* Mutation: one iteration too many.
LeaveLate(t) == /\ pc[t] = "unlock"
                /\ Unlock
                /\ i' = [i EXCEPT ![t] = @ + 1]
                /\ Goto(t, IF i[t] + 1 <= NUM THEN "lock" ELSE "done")
                /\ UNCHANGED <<flags, joined>>

\* The mutex is released and the next iteration, if any, begins.
Leave(t) == /\ pc[t] = "unlock"
            /\ Unlock
            /\ i' = [i EXCEPT ![t] = @ + 1]
            /\ Goto(t, IF i[t] + 1 < NUM THEN "lock" ELSE "done")
            /\ UNCHANGED <<flags, joined>>
-------------------------------------------------------------------------------
\* Thread 1 releases the mutex and sleeps while its last token is there.
Poll == /\ pc[1] = "test"
        /\ a_done # 0
        /\ Unlock
        /\ Goto(1, "lock")
        /\ UNCHANGED <<flags, i, joined>>

\* Mutation: thread 1 does not look whether its last token was taken.
ProcessAUnchecked == /\ Process(1)
                     /\ a_done' = 1
                     /\ Signal("cond_A_done")
                     /\ UNCHANGED b_done

\* Mutation: thread 1 signals the condition of thread 3.
ProcessAMissignalled == /\ a_done = 0
                        /\ Process(1)
                        /\ a_done' = 1
                        /\ Signal("cond_B_done")
                        /\ UNCHANGED b_done

ProcessA == /\ a_done = 0
            /\ Process(1)
            /\ a_done' = 1
            /\ Signal("cond_A_done")
            /\ UNCHANGED b_done

WaitForA == a_done = 0 /\ BlockOn(2, "cond_A_done")

\* Mutation: thread 2 passes the token on without telling thread 3.
ProcessBSilent == /\ a_done # 0
                  /\ Process(2)
                  /\ a_done' = 0
                  /\ b_done' = 1
                  /\ UNCHANGED mutexVars

\* Thread 2 passes the token on, whatever b_done is.
ProcessB == /\ a_done # 0
            /\ Process(2)
            /\ a_done' = 0
            /\ b_done' = 1
            /\ Signal("cond_B_done")

WaitForB == b_done = 0 /\ BlockOn(3, "cond_B_done")

ProcessC == /\ b_done # 0
            /\ Process(3)
            /\ b_done' = 0
            /\ UNCHANGED <<a_done, mutexVars>>
-------------------------------------------------------------------------------
\* main joins the threads in order and returns after the last.
Join == /\ joined < 3
        /\ pc[joined + 1] = "done"
        /\ joined' = joined + 1
        /\ UNCHANGED <<flags, i, pc, mutexVars>>

Spurious == SpuriousWakeup /\ UNCHANGED <<flags, i, pc, joined>>

Exited == joined = 3 /\ UNCHANGED vars
-------------------------------------------------------------------------------
Either(t) == Enter(t) \/ WakeUp(t) \/ Leave(t)
Thread_1 == Either(1) \/ Poll \/ ProcessA
Thread_2 == Either(2) \/ WaitForA \/ ProcessB
Thread_3 == Either(3) \/ WaitForB \/ ProcessC

Next == Thread_1 \/ Thread_2 \/ Thread_3 \/ Join \/ Spurious \/ Exited

\* A runnable thread runs, and nobody is kept from the mutex for ever: the
\* only unbounded loop is Poll, which sleeps outside the mutex each round.
Fairness == /\ WF_vars(Thread_1) /\ WF_vars(Thread_2) /\ WF_vars(Thread_3)
            /\ WF_vars(Join)
            /\ \A t \in Threads : SF_vars(Enter(t)) /\ SF_vars(WakeUp(t))

SafeSpec == Init /\ [][Next]_vars
Spec == SafeSpec /\ Fairness
===============================================================================
