--------------------------- MODULE SemaphoreSection ---------------------------
(***************************************************************************)
(* src/asm_8/ex_2/ex_2.c: threads that pass once through a section guarded *)
(* by a counting semaphore; main joins them and destroys the semaphore.    *)
(* PrinterPool (printer.c) implements this specification.                  *)
(***************************************************************************)
EXTENDS Integers

CONSTANTS Threads,    \* the threads main creates, 6 in ex_2.c, 15 in printer.c
          PERMITS     \* initial value of the semaphore, 3 in both

VARIABLES sem,        \* value of the semaphore
          stage,      \* stage of each thread: before, in or after the section
          main        \* main is joining, or has destroyed the semaphore

sectionVars == <<sem, stage, main>>

Init == /\ sem = PERMITS
        /\ stage = [t \in Threads |-> "before"]
        /\ main = "join"

\* sem_wait returns: there was a permit.
SemWait(t) == /\ stage[t] = "before"
              /\ sem > 0
              /\ sem' = sem - 1
              /\ stage' = [stage EXCEPT ![t] = "in"]
              /\ UNCHANGED main

SemPost(t) == /\ stage[t] = "in"
              /\ sem' = sem + 1
              /\ stage' = [stage EXCEPT ![t] = "after"]
              /\ UNCHANGED main

\* The last pthread_join has returned.
Destroy == /\ main = "join"
           /\ \A t \in Threads : stage[t] = "after"
           /\ main' = "exit"
           /\ UNCHANGED <<sem, stage>>

Exited == main = "exit" /\ UNCHANGED sectionVars

Next == (\E t \in Threads : SemWait(t) \/ SemPost(t)) \/ Destroy \/ Exited

\* Every thread that can go on goes on; a thread waits once, so each passage
\* of another brings its own nearer.
Fairness == /\ \A t \in Threads : WF_sectionVars(SemWait(t) \/ SemPost(t))
            /\ WF_sectionVars(Destroy)

SafeSpec == Init /\ [][Next]_sectionVars
Spec == SafeSpec /\ Fairness
===============================================================================
