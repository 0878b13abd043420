--------------------------- MODULE ProducerConsumer ---------------------------
(***************************************************************************)
(* src/asm_7/ex_3/ex_3.c: one producer and one consumer thread exchange    *)
(* NUM_ITEMS integers through an array used as a stack, under one mutex    *)
(* and two condition variables; main joins both and destroys the           *)
(* primitives.                                                             *)
(*                                                                         *)
(* A step of a thread is the code between two calls that other threads can *)
(* see: lock, test the loop condition and then wait or access the buffer,  *)
(* signal, unlock.  The printing and sleep() are left out: sleeping only   *)
(* means that the next step comes later.                                   *)
(***************************************************************************)
EXTENDS Integers, Sequences

CONSTANTS BUFFER_SIZE,    \* capacity of the array, 5 in the program
          NUM_ITEMS       \* items each worker handles, 10 in the program

ASSUME SizesAssumption == BUFFER_SIZE \in Nat \ {0} /\ NUM_ITEMS \in Nat \ {0}

VARIABLES buffer,         \* the array, stale entries above the index included
          buffer_index,   \* number of live entries
          producer_sum, consumer_sum, last_value,
          data_ready,
          i,              \* loop counter of each worker
          pc,             \* where each worker stands
          main,           \* where the main thread stands
          owner, waiters  \* the mutex and the wait sets of the conditions

Workers == {"producer", "consumer"}
Conds == {"can_produce", "can_consume"}
Nobody == "nobody"

INSTANCE Pthreads

dataVars == <<buffer, buffer_index, producer_sum, consumer_sum, last_value,
              data_ready>>
mutexVars == <<owner, waiters>>
vars == <<dataVars, i, pc, main, mutexVars>>

Slots == 0 .. BUFFER_SIZE - 1

Goto(t, label) == pc' = [pc EXCEPT ![t] = label]

\* main has created both threads; the globals are zero.
Init == /\ buffer = [s \in Slots |-> 0]
        /\ buffer_index = 0
        /\ producer_sum = 0 /\ consumer_sum = 0 /\ last_value = 0
        /\ data_ready = FALSE
        /\ i = [t \in Workers |-> 0]
        /\ pc = [t \in Workers |-> "lock"]
        /\ main = "joinProducer"
        /\ MutexInit(Conds)
-------------------------------------------------------------------------------
\* What both thread functions do alike.

\* The mutex is taken at the head of an iteration.
Enter(t) == /\ pc[t] = "lock"
            /\ Lock(t)
            /\ Goto(t, "test")
            /\ UNCHANGED <<dataVars, i, main>>

\* pthread_cond_wait returns: the mutex is taken again, the condition retested.
WakeUp(t) == /\ pc[t] = "wake" /\ ~Blocked(t)
             /\ Lock(t)
             /\ Goto(t, "test")
             /\ UNCHANGED <<dataVars, i, main>>

\* The loop condition holds: wait for cond, giving up the mutex.
BlockOn(t, cond) == /\ Wait(t, cond)
                    /\ Goto(t, "wake")
                    /\ UNCHANGED <<dataVars, i, main>>

\* The mutex is released and the next iteration, if any, begins.
Leave(t) == /\ pc[t] = "unlock"
            /\ Unlock
            /\ i' = [i EXCEPT ![t] = @ + 1]
            /\ Goto(t, IF i[t] + 1 < NUM_ITEMS THEN "lock" ELSE "done")
            /\ UNCHANGED <<dataVars, main>>
-------------------------------------------------------------------------------
\* The producer.

\* Mutation: the full buffer is noticed one item too late.
MustWaitToProduceLate == buffer_index > BUFFER_SIZE

MustWaitToProduce == buffer_index >= BUFFER_SIZE

ProducerWaits == /\ pc["producer"] = "test"
                 /\ MustWaitToProduce
                 /\ BlockOn("producer", "can_produce")

\* Mutation: the index is incremented before the store.
ProduceAbove == LET value == i["producer"] + 1
                IN  /\ pc["producer"] = "test"
                    /\ ~MustWaitToProduce
                    /\ buffer' = [buffer EXCEPT ![buffer_index + 1] = value]
                    /\ buffer_index' = buffer_index + 1
                    /\ producer_sum' = producer_sum + value
                    /\ last_value' = value
                    /\ Goto("producer", "signal")
                    /\ UNCHANGED <<consumer_sum, data_ready, i, main, mutexVars>>

Produce == LET value == i["producer"] + 1
           IN  /\ pc["producer"] = "test"
               /\ ~MustWaitToProduce
               /\ buffer' = [buffer EXCEPT ![buffer_index] = value]
               /\ buffer_index' = buffer_index + 1
               /\ producer_sum' = producer_sum + value
               /\ last_value' = value
               /\ Goto("producer", "signal")
               /\ UNCHANGED <<consumer_sum, data_ready, i, main, mutexVars>>

\* Mutation: the producer sets the flag and signals nobody.
SignalConsumerForgotten == /\ pc["producer"] = "signal"
                           /\ data_ready' = TRUE
                           /\ Goto("producer", "unlock")
                           /\ UNCHANGED <<buffer, buffer_index, producer_sum,
                                          consumer_sum, last_value, i, main,
                                          mutexVars>>

SignalConsumer == /\ pc["producer"] = "signal"
                  /\ data_ready' = TRUE
                  /\ Signal("can_consume")
                  /\ Goto("producer", "unlock")
                  /\ UNCHANGED <<buffer, buffer_index, producer_sum,
                                 consumer_sum, last_value, i, main>>
-------------------------------------------------------------------------------
\* The consumer.

MustWaitToConsume == buffer_index <= 0 \/ ~data_ready

ConsumerWaits == /\ pc["consumer"] = "test"
                 /\ MustWaitToConsume
                 /\ BlockOn("consumer", "can_consume")

\* Mutation: the value is loaded before the index is decremented.
ConsumeAbove == LET value == buffer[buffer_index % BUFFER_SIZE]
                IN  /\ pc["consumer"] = "test"
                    /\ ~MustWaitToConsume
                    /\ buffer_index' = buffer_index - 1
                    /\ consumer_sum' = consumer_sum + value
                    /\ last_value' = value
                    /\ Goto("consumer", "signal")
                    /\ UNCHANGED <<buffer, producer_sum, data_ready, i, main,
                                   mutexVars>>

Consume == LET value == buffer[buffer_index - 1]
           IN  /\ pc["consumer"] = "test"
               /\ ~MustWaitToConsume
               /\ buffer_index' = buffer_index - 1
               /\ consumer_sum' = consumer_sum + value
               /\ last_value' = value
               /\ Goto("consumer", "signal")
               /\ UNCHANGED <<buffer, producer_sum, data_ready, i, main,
                              mutexVars>>

\* Mutation: the consumer signals nobody.
SignalProducerForgotten == /\ pc["consumer"] = "signal"
                           /\ Goto("consumer", "unlock")
                           /\ UNCHANGED <<dataVars, i, main, mutexVars>>

SignalProducer == /\ pc["consumer"] = "signal"
                  /\ Signal("can_produce")
                  /\ Goto("consumer", "unlock")
                  /\ UNCHANGED <<dataVars, i, main>>
-------------------------------------------------------------------------------
\* main joins the producer, then the consumer, and destroys the primitives.

MainStep(from, to) == /\ main = from
                      /\ main' = to
                      /\ UNCHANGED <<dataVars, i, pc, mutexVars>>

JoinProducer == pc["producer"] = "done" /\ MainStep("joinProducer", "joinConsumer")

\* Mutation: the second join does not wait.
JoinConsumerEarly == MainStep("joinConsumer", "cleanup")

JoinConsumer == pc["consumer"] = "done" /\ MainStep("joinConsumer", "cleanup")
Cleanup == MainStep("cleanup", "exit")

Spurious == SpuriousWakeup /\ UNCHANGED <<dataVars, i, pc, main>>

Exited == main = "exit" /\ UNCHANGED vars
-------------------------------------------------------------------------------
Either(t) == Enter(t) \/ WakeUp(t) \/ Leave(t)
Producer == Either("producer") \/ ProducerWaits \/ Produce \/ SignalConsumer
Consumer == Either("consumer") \/ ConsumerWaits \/ Consume \/ SignalProducer
Main == JoinProducer \/ JoinConsumer \/ Cleanup

Next == Producer \/ Consumer \/ Main \/ Spurious \/ Exited

\* A runnable thread runs, and a thread that waits for a mutex the others
\* keep releasing (each of them sleeps for seconds outside it) gets it.
Fairness == /\ WF_vars(Producer) /\ WF_vars(Consumer) /\ WF_vars(Main)
            /\ \A t \in Workers : SF_vars(Enter(t)) /\ SF_vars(WakeUp(t))

SafeSpec == Init /\ [][Next]_vars
Spec == SafeSpec /\ Fairness
===============================================================================
