------------------------ MODULE ProducerConsumerProps -------------------------
(***************************************************************************)
(* What must be true of ProducerConsumer.                                  *)
(***************************************************************************)
EXTENDS ProducerConsumer

\* The variables keep their types; in particular the array index never
\* leaves the array (ex_3.c:58 and ex_3.c:106 use it unchecked).
TypeOK ==
    /\ buffer \in [Slots -> Int]
    /\ buffer_index \in 0 .. BUFFER_SIZE
    /\ producer_sum \in Int /\ consumer_sum \in Int /\ last_value \in Int
    /\ data_ready \in BOOLEAN
    /\ i \in [Workers -> 0 .. NUM_ITEMS]
    /\ pc \in [Workers -> {"lock", "test", "wake", "signal", "unlock", "done"}]
    /\ main \in {"joinProducer", "joinConsumer", "cleanup", "exit"}
    /\ owner \in Workers \cup {Nobody}
    /\ waiters \in [Conds -> SUBSET Workers]

HoldsMutex(t) == pc[t] \in {"test", "signal", "unlock"}

\* A worker is between lock and unlock, and not blocked in a wait, exactly
\* when it owns the mutex: the accesses to the buffer never overlap.
MutualExclusion == \A t \in Workers : HoldsMutex(t) <=> owner = t

\* No wakeup is lost: a worker sleeps on its condition only while it has
\* nothing to do, or the other is about to signal it.
NoLostWakeup ==
    /\ "producer" \in waiters["can_produce"] =>
           buffer_index = BUFFER_SIZE \/ pc["consumer"] = "signal"
    /\ "consumer" \in waiters["can_consume"] =>
           buffer_index = 0 \/ pc["producer"] = "signal"

\* Items a worker has handled: its loop counter, plus the item of the
\* iteration whose buffer access is behind it.
Handled(t) == i[t] + (IF pc[t] \in {"signal", "unlock"} THEN 1 ELSE 0)

\* The live part of the array is the backlog: as many items as were produced
\* and not consumed, each one once, the older ones below the newer ones.
BufferIsBacklog ==
    /\ buffer_index = Handled("producer") - Handled("consumer")
    /\ \A s \in 0 .. buffer_index - 1 : buffer[s] \in 1 .. Handled("producer")
    /\ \A s1, s2 \in 0 .. buffer_index - 1 : s1 < s2 => buffer[s1] < buffer[s2]

\* When main destroys the mutex and the conditions nobody holds or awaits
\* them, and nothing is left in the buffer.
CleanExit ==
    main \in {"cleanup", "exit"} =>
        /\ owner = Nobody
        /\ \A c \in Conds : waiters[c] = {}
        /\ buffer_index = 0

\* The program implements the bounded stack: the backlog is the stack.
Stack == INSTANCE BoundedStack WITH
             stack <- [k \in 1 .. buffer_index |-> buffer[k - 1]],
             made <- Handled("producer"),
             sent <- producer_sum,
             received <- consumer_sum

\* Every behaviour of the program is one of the bounded stack: each item is
\* put once, in order, and taken once, the newest first, and the totals that
\* the threads print count it once; the transfer never stops half way.
ImplementsStack == Stack!Spec

\* Both workers finish their NUM_ITEMS items and main returns.
Termination == <>(main = "exit")
===============================================================================
