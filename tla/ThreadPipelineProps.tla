-------------------------- MODULE ThreadPipelineProps --------------------------
(***************************************************************************)
(* What is true of ThreadPipeline, and what its last line promises.        *)
(***************************************************************************)
EXTENDS ThreadPipeline

\* The variables keep their types.
TypeOK ==
    /\ a_done \in {0, 1} /\ b_done \in {0, 1}
    /\ i \in [Threads -> 0 .. NUM]
    /\ pc \in [Threads -> {"lock", "test", "wake", "unlock", "done"}]
    /\ joined \in 0 .. 3
    /\ owner \in Threads \cup {Nobody}
    /\ waiters \in [Conds -> SUBSET Threads]

HoldsMutex(t) == pc[t] \in {"test", "unlock"}

\* A thread is between lock and unlock, and not in a wait, exactly when it
\* owns the mutex: tests and updates of the flags never overlap.
MutualExclusion == \A t \in Threads : HoldsMutex(t) <=> owner = t

\* No wakeup is lost: a thread sleeps on a condition only while its flag is
\* down.
NoLostWakeup ==
    /\ 2 \in waiters["cond_A_done"] => a_done = 0
    /\ 3 \in waiters["cond_B_done"] => b_done = 0

\* Tokens thread t has processed.
Processed(t) == i[t] + (IF pc[t] = "unlock" THEN 1 ELSE 0)

\* Tokens thread 2 passed on that thread 3 neither took nor can take.
Lost == Processed(2) - (Processed(3) + b_done)

\* The first hand-off is exact, token by token, because thread 1 polls the
\* flag; the second may lose tokens (b_done is set unread, pthread_cond.c:45)
\* but never makes one up, and always leaves the first one to thread 3.
TokenAccounting ==
    /\ a_done = Processed(1) - Processed(2)
    /\ Lost >= 0
    /\ Processed(2) > 0 => Processed(3) + b_done > 0

\* Whatever happens to thread 3, threads 1 and 2 finish: neither waits for it.
FirstTwoFinish == <>(pc[1] = "done" /\ pc[2] = "done")

\* Lost tokens are the only thing that can keep the program from returning.
ReturnsUnlessLost == <>(joined = 3 \/ Lost > 0)

\* What pthread_cond.c:65 announces and the join at pthread_cond.c:80 relies
\* on: thread 3 processes its NUM tokens and finishes.
ThirdFinishes == <>(pc[3] = "done")
===============================================================================
