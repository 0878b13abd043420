------------------------------ MODULE PrinterPool ------------------------------
(***************************************************************************)
(* src/asm_8/printer.c: each thread takes a permit of a counting semaphore *)
(* that starts at the number of printers, asks get_printer for a printer,  *)
(* prints, and gives the permit back.  get_printer hands the printers out  *)
(* in turn, under a mutex, without looking whether the printer is free.    *)
(***************************************************************************)
EXTENDS Integers, FiniteSets

CONSTANTS Threads,       \* the threads main creates, 15 in the program
          PRINTERS,      \* number of printers and of permits, 3 in the program
          Nobody         \* the owner of a free mutex

ASSUME PoolAssumption == /\ IsFiniteSet(Threads)
                         /\ PRINTERS \in Nat \ {0}
                         /\ Nobody \notin Threads

VARIABLES printer_sem,   \* value of the semaphore
          printer_index, \* index of the printer to hand out next
          printer_mutex, \* the owner of the mutex
          pc,            \* where each thread stands
          printer_id,    \* the printer each thread was given; 0 for none
          main           \* main is joining, or has destroyed the primitives

vars == <<printer_sem, printer_index, printer_mutex, pc, printer_id, main>>

available_printers == [k \in 0 .. PRINTERS - 1 |-> k + 1]

Goto(t, from, to) == pc[t] = from /\ pc' = [pc EXCEPT ![t] = to]

Init == /\ printer_sem = PRINTERS
        /\ printer_index = 0
        /\ printer_mutex = Nobody
        /\ pc = [t \in Threads |-> "wait"]
        /\ printer_id = [t \in Threads |-> 0]
        /\ main = "join"
-------------------------------------------------------------------------------
\* Mutation: the semaphore admits one thread too many.
SemWaitLoose(t) == /\ Goto(t, "wait", "lock")
                   /\ printer_sem >= 0
                   /\ printer_sem' = printer_sem - 1
                   /\ UNCHANGED <<printer_index, printer_mutex, printer_id, main>>

\* sem_wait returns: there was a permit.
SemWait(t) == /\ Goto(t, "wait", "lock")
              /\ printer_sem > 0
              /\ printer_sem' = printer_sem - 1
              /\ UNCHANGED <<printer_index, printer_mutex, printer_id, main>>

\* Mutation: get_printer does without its mutex.
LockSkipped(t) == /\ Goto(t, "lock", "read")
                  /\ UNCHANGED <<printer_sem, printer_index, printer_mutex,
                                 printer_id, main>>

\* get_printer: take the mutex,
Lock(t) == /\ Goto(t, "lock", "read")
           /\ printer_mutex = Nobody
           /\ printer_mutex' = t
           /\ UNCHANGED <<printer_sem, printer_index, printer_id, main>>

\* read the entry at the index,
ReadPrinter(t) == /\ Goto(t, "read", "advance")
                  /\ printer_id' = [printer_id EXCEPT
                                       ![t] = available_printers[printer_index]]
                  /\ UNCHANGED <<printer_sem, printer_index, printer_mutex, main>>

\* Mutation: the index does not wrap.
AdvanceUnwrapped(t) == /\ Goto(t, "advance", "unlock")
                       /\ printer_index' = printer_index + 1
                       /\ UNCHANGED <<printer_sem, printer_mutex, printer_id, main>>

\* advance the index, around the table,
Advance(t) == /\ Goto(t, "advance", "unlock")
              /\ printer_index' = (printer_index + 1) % PRINTERS
              /\ UNCHANGED <<printer_sem, printer_mutex, printer_id, main>>

\* Mutation: get_printer returns with the mutex.
UnlockForgotten(t) == /\ Goto(t, "unlock", "print")
                      /\ UNCHANGED <<printer_sem, printer_index, printer_mutex,
                                     printer_id, main>>

\* release the mutex and return the entry.
Unlock(t) == /\ Goto(t, "unlock", "print")
             /\ printer_mutex' = Nobody
             /\ UNCHANGED <<printer_sem, printer_index, printer_id, main>>

\* The printing is over (the sleep is not modelled).
SemPost(t) == /\ Goto(t, "print", "done")
              /\ printer_sem' = printer_sem + 1
              /\ UNCHANGED <<printer_index, printer_mutex, printer_id, main>>

\* main has joined every thread and destroys the semaphore and the mutex.
Destroy == /\ main = "join"
           /\ \A t \in Threads : pc[t] = "done"
           /\ main' = "exit"
           /\ UNCHANGED <<printer_sem, printer_index, printer_mutex, pc,
                          printer_id>>

Exited == main = "exit" /\ UNCHANGED vars
-------------------------------------------------------------------------------
thread_func(t) == \/ SemWait(t)
                  \/ Lock(t) \/ ReadPrinter(t) \/ Advance(t) \/ Unlock(t)
                  \/ SemPost(t)

Next == (\E t \in Threads : thread_func(t)) \/ Destroy \/ Exited

\* A thread that can run runs; it waits for a permit and for the mutex only
\* once each, so weak fairness is enough.
Fairness == /\ \A t \in Threads : WF_vars(thread_func(t))
            /\ WF_vars(Destroy)

SafeSpec == Init /\ [][Next]_vars
Spec == SafeSpec /\ Fairness
===============================================================================
