--------------------------- MODULE PrinterPoolProps ---------------------------
(***************************************************************************)
(* What is true of PrinterPool, and what its printers would need.          *)
(***************************************************************************)
EXTENDS PrinterPool

\* The variables keep their types; the index never leaves the table that
\* get_printer reads with it (printer.c:20).
TypeOK ==
    /\ printer_sem \in Int
    /\ printer_index \in 0 .. PRINTERS - 1
    /\ printer_mutex \in Threads \cup {Nobody}
    /\ pc \in [Threads -> {"wait", "lock", "read", "advance", "unlock", "print",
                           "done"}]
    /\ printer_id \in [Threads -> 0 .. PRINTERS]
    /\ main \in {"join", "exit"}

\* Threads that get_printer has moved the index for.
Served == {t \in Threads : pc[t] \in {"unlock", "print", "done"}}

Given(p) == {t \in Served : printer_id[t] = p}

\* The printers are handed out strictly in turn, however the threads
\* interleave: after n calls the index is n modulo the number of printers, and
\* printer p was given in each full round and, if the last round came that far,
\* once more.
HandedOutInTurn ==
    LET n == Cardinality(Served)
    IN  /\ printer_index = n % PRINTERS
        /\ \A p \in 1 .. PRINTERS :
              Cardinality(Given(p)) =
                  n \div PRINTERS + (IF p <= (n % PRINTERS) THEN 1 ELSE 0)

Inside == {t \in Threads : pc[t] \notin {"wait", "done"}}

\* The permits are out with the threads between sem_wait and sem_post: never
\* more of them than printers.
PermitAccounting == printer_sem >= 0 /\ printer_sem + Cardinality(Inside) = PRINTERS

\* When main destroys the semaphore and the mutex all permits are back and
\* nobody holds the mutex.
SafeDestroy == main = "exit" => /\ printer_sem = PRINTERS
                                /\ printer_mutex = Nobody
                                /\ \A t \in Threads : pc[t] = "done"

\* Both: the permits add up until the semaphore is destroyed, and it is
\* destroyed when all of them are back.
SafeSemaphore == PermitAccounting /\ SafeDestroy

\* The stage of a thread in the section that the semaphore guards.
Stage(t) == CASE pc[t] = "wait" -> "before"
              [] pc[t] = "done" -> "after"
              [] OTHER          -> "in"

Section == INSTANCE SemaphoreSection WITH
               PERMITS <- PRINTERS,
               sem <- printer_sem,
               stage <- [t \in Threads |-> Stage(t)]

\* The program is the semaphore section of ex_2.c with get_printer and the
\* printing in it, and like it lets everybody through, main last.
ImplementsSection == Section!Spec

Printing(t) == pc[t] = "print"

\* What available_printers and the message of printer.c:35 say: a thread that
\* got a printer has it to itself while it prints.
ExclusivePrinter ==
    \A s, t \in Threads : Printing(s) /\ Printing(t) /\ s # t =>
                              printer_id[s] # printer_id[t]
===============================================================================
