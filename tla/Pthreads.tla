------------------------------- MODULE Pthreads -------------------------------
(***************************************************************************)
(* The POSIX mutex and condition variables as the programs under src/asm_7 *)
(* and src/asm_8 use them: one process-wide mutex, and for each condition  *)
(* variable the set of threads blocked in pthread_cond_wait.  This is      *)
(* library behaviour, external to src/: it is what the callers rely on.    *)
(*                                                                         *)
(* A thread that a signal (or a spurious wakeup) removes from a wait set   *)
(* is still inside pthread_cond_wait and owns nothing: the caller takes    *)
(* the mutex again with Lock before the call returns.                      *)
(***************************************************************************)
CONSTANT Nobody        \* not a thread: the owner of a free mutex

VARIABLES owner,       \* the thread holding the mutex, or Nobody
          waiters      \* condition variable -> threads blocked on it

MutexInit(conds) == /\ owner = Nobody
                    /\ waiters = [c \in conds |-> {}]

\* pthread_mutex_lock, when it returns.
Lock(t) == /\ owner = Nobody
           /\ owner' = t
           /\ UNCHANGED waiters

\* pthread_mutex_unlock.
Unlock == /\ owner' = Nobody
          /\ UNCHANGED waiters

\* pthread_cond_wait up to where it blocks: the mutex is released and the
\* caller joins the wait set in one step.
Wait(t, c) == /\ owner' = Nobody
              /\ waiters' = [waiters EXCEPT ![c] = @ \cup {t}]

\* pthread_cond_signal: one waiter, if there is one, leaves the wait set.
Signal(c) == /\ \/ waiters[c] = {} /\ UNCHANGED waiters
                \/ \E t \in waiters[c] :
                      waiters' = [waiters EXCEPT ![c] = @ \ {t}]
             /\ UNCHANGED owner

\* A waiter leaves the wait set although nobody signalled (POSIX allows it).
SpuriousWakeup == /\ \E c \in DOMAIN waiters : \E t \in waiters[c] :
                        waiters' = [waiters EXCEPT ![c] = @ \ {t}]
                  /\ UNCHANGED owner

Blocked(t) == \E c \in DOMAIN waiters : t \in waiters[c]
===============================================================================
