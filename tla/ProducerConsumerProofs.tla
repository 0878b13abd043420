------------------------ MODULE ProducerConsumerProofs ------------------------
(***************************************************************************)
(* Proofs about ProducerConsumer for every BUFFER_SIZE and NUM_ITEMS.      *)
(***************************************************************************)
EXTENDS ProducerConsumerProps, SequenceTheorems, TLAPS

\* A blocked worker is inside the wait of its own condition.
WaitersAtWake ==
    /\ waiters["can_produce"] \subseteq {"producer"}
    /\ waiters["can_consume"] \subseteq {"consumer"}
    /\ \A c \in Conds : \A t \in waiters[c] : pc[t] = "wake"

\* A worker is done when its loop counter has reached the bound, and the
\* main thread is past a join only when the worker is done.
LoopsAndJoins ==
    /\ \A t \in Workers : pc[t] = "done" <=> i[t] = NUM_ITEMS
    /\ main # "joinProducer" => pc["producer"] = "done"
    /\ main \in {"cleanup", "exit"} => pc["consumer"] = "done"

\* data_ready lags behind the buffer only while the producer is about to set it.
DataReadyFollows == buffer_index > 0 => data_ready \/ pc["producer"] = "signal"

\* The inductive invariant.
Inv == /\ TypeOK
       /\ MutualExclusion
       /\ WaitersAtWake
       /\ LoopsAndJoins
       /\ DataReadyFollows
       /\ NoLostWakeup
       /\ BufferIsBacklog
-------------------------------------------------------------------------------
\* main starts the threads in a state that satisfies the invariant.
LEMMA InitInv == Init => Inv
<1> SUFFICES ASSUME Init PROVE Inv
    OBVIOUS
<1> USE SizesAssumption DEF Init, MutexInit, Workers, Conds, Nobody, Slots
<1>1. TypeOK
  <2>1. 0 \in 0 .. BUFFER_SIZE /\ 0 \in 0 .. NUM_ITEMS
    OBVIOUS
  <2>2. buffer \in [Slots -> Int] /\ i \in [Workers -> 0 .. NUM_ITEMS]
    BY <2>1
  <2>3. waiters \in [Conds -> SUBSET Workers]
    OBVIOUS
  <2>4. pc \in [Workers -> {"lock", "test", "wake", "signal", "unlock", "done"}]
    OBVIOUS
  <2>5. data_ready \in BOOLEAN
    BY Zenon
  <2>6. main \in {"joinProducer", "joinConsumer", "cleanup", "exit"}
    OBVIOUS
  <2>7. buffer_index \in 0 .. BUFFER_SIZE
    OBVIOUS
  <2>8. producer_sum \in Int /\ consumer_sum \in Int /\ last_value \in Int
    OBVIOUS
  <2>9. owner \in Workers \cup {Nobody}
    OBVIOUS
  <2> HIDE DEF Init, Slots
  <2> QED
    BY ONLY <2>2, <2>3, <2>4, <2>5, <2>6, <2>7, <2>8, <2>9 DEF TypeOK
<1>2. MutualExclusion
    BY DEF MutualExclusion, HoldsMutex
<1>3. WaitersAtWake /\ LoopsAndJoins /\ DataReadyFollows /\ NoLostWakeup
    BY DEF WaitersAtWake, LoopsAndJoins, DataReadyFollows, NoLostWakeup
<1>4. BufferIsBacklog
    BY DEF BufferIsBacklog, Handled
<1> QED
    BY <1>1, <1>2, <1>3, <1>4 DEF Inv

\* Each action preserves the types.
LEMMA TypeStep == Inv /\ [Next]_vars => TypeOK'
<1> SUFFICES ASSUME Inv, [Next]_vars PROVE TypeOK'
    OBVIOUS
<1> USE SizesAssumption DEF Inv, TypeOK, Workers, Conds, Nobody, Slots,
        dataVars, mutexVars, Goto, Lock, Unlock, Wait, Signal
<1>1. ASSUME NEW t \in Workers, Enter(t) PROVE TypeOK'
    BY <1>1 DEF Enter
<1>2. ASSUME NEW t \in Workers, WakeUp(t) PROVE TypeOK'
    BY <1>2 DEF WakeUp
<1>3. ASSUME NEW t \in Workers, Leave(t) PROVE TypeOK'
    BY <1>3 DEF Leave, LoopsAndJoins
<1>4. CASE ProducerWaits
    BY <1>4 DEF ProducerWaits, BlockOn
<1>5. CASE Produce
    BY <1>5 DEF Produce, MustWaitToProduce
<1>6. CASE SignalConsumer
    BY <1>6 DEF SignalConsumer
<1>7. CASE ConsumerWaits
    BY <1>7 DEF ConsumerWaits, BlockOn
<1>8. CASE Consume
    BY <1>8 DEF Consume, MustWaitToConsume
<1>9. CASE SignalProducer
    BY <1>9 DEF SignalProducer
<1>10. CASE Main
    BY <1>10 DEF Main, JoinProducer, JoinConsumer, Cleanup, MainStep
<1>11. CASE Spurious
    BY <1>11 DEF Spurious, SpuriousWakeup
<1>12. CASE UNCHANGED vars
    BY <1>12 DEF vars
<1> QED
    BY <1>1, <1>2, <1>3, <1>4, <1>5, <1>6, <1>7, <1>8, <1>9, <1>10, <1>11,
       <1>12 DEF Next, Producer, Consumer, Either, Exited

\* Nobody enters the critical section of the other.
LEMMA MutexStep == Inv /\ [Next]_vars => MutualExclusion'
<1> SUFFICES ASSUME Inv, [Next]_vars PROVE MutualExclusion'
    OBVIOUS
<1> USE SizesAssumption DEF Inv, TypeOK, Workers, Conds, Nobody, Slots,
        dataVars, mutexVars, Goto, Lock, Unlock, Wait, Signal,
        MutualExclusion, HoldsMutex, WaitersAtWake
<1>1. ASSUME NEW t \in Workers, Enter(t) PROVE MutualExclusion'
    BY <1>1 DEF Enter
<1>2. ASSUME NEW t \in Workers, WakeUp(t) PROVE MutualExclusion'
    BY <1>2 DEF WakeUp, Blocked
<1>3. ASSUME NEW t \in Workers, Leave(t) PROVE MutualExclusion'
    BY <1>3 DEF Leave
<1>4. CASE ProducerWaits
    BY <1>4 DEF ProducerWaits, BlockOn, MustWaitToProduce
<1>5. CASE Produce
    BY <1>5 DEF Produce, MustWaitToProduce
<1>6. CASE SignalConsumer
    BY <1>6 DEF SignalConsumer
<1>7. CASE ConsumerWaits
    BY <1>7 DEF ConsumerWaits, BlockOn, MustWaitToConsume
<1>8. CASE Consume
    BY <1>8 DEF Consume, MustWaitToConsume
<1>9. CASE SignalProducer
    BY <1>9 DEF SignalProducer
<1>10. CASE Main
    BY <1>10 DEF Main, JoinProducer, JoinConsumer, Cleanup, MainStep
<1>11. CASE Spurious
    BY <1>11 DEF Spurious, SpuriousWakeup
<1>12. CASE UNCHANGED vars
    BY <1>12 DEF vars
<1> QED
    BY <1>1, <1>2, <1>3, <1>4, <1>5, <1>6, <1>7, <1>8, <1>9, <1>10, <1>11,
       <1>12 DEF Next, Producer, Consumer, Either, Exited

\* A worker enters only its own wait set and leaves the wait after the set.
LEMMA WaitersStep == Inv /\ [Next]_vars => WaitersAtWake'
<1> SUFFICES ASSUME Inv, [Next]_vars PROVE WaitersAtWake'
    OBVIOUS
<1> USE SizesAssumption DEF Inv, TypeOK, Workers, Conds, Nobody, Slots,
        dataVars, mutexVars, Goto, Lock, Unlock, Wait, Signal,
        MutualExclusion, HoldsMutex, WaitersAtWake
<1>1. ASSUME NEW t \in Workers, Enter(t) PROVE WaitersAtWake'
    BY <1>1 DEF Enter
<1>2. ASSUME NEW t \in Workers, WakeUp(t) PROVE WaitersAtWake'
    BY <1>2 DEF WakeUp, Blocked
<1>3. ASSUME NEW t \in Workers, Leave(t) PROVE WaitersAtWake'
    BY <1>3 DEF Leave
<1>4. CASE ProducerWaits
    BY <1>4 DEF ProducerWaits, BlockOn, MustWaitToProduce
<1>5. CASE Produce
    BY <1>5 DEF Produce, MustWaitToProduce
<1>6. CASE SignalConsumer
    BY <1>6 DEF SignalConsumer
<1>7. CASE ConsumerWaits
    BY <1>7 DEF ConsumerWaits, BlockOn, MustWaitToConsume
<1>8. CASE Consume
    BY <1>8 DEF Consume, MustWaitToConsume
<1>9. CASE SignalProducer
    BY <1>9 DEF SignalProducer
<1>10. CASE Main
    BY <1>10 DEF Main, JoinProducer, JoinConsumer, Cleanup, MainStep
<1>11. CASE Spurious
    BY <1>11 DEF Spurious, SpuriousWakeup
<1>12. CASE UNCHANGED vars
    BY <1>12 DEF vars
<1> QED
    BY <1>1, <1>2, <1>3, <1>4, <1>5, <1>6, <1>7, <1>8, <1>9, <1>10, <1>11,
       <1>12 DEF Next, Producer, Consumer, Either, Exited

\* The loops end at the bound and the joins wait for that.
LEMMA LoopsStep == Inv /\ [Next]_vars => LoopsAndJoins'
<1> SUFFICES ASSUME Inv, [Next]_vars PROVE LoopsAndJoins'
    OBVIOUS
<1> USE SizesAssumption DEF Inv, TypeOK, Workers, Conds, Nobody, Slots,
        dataVars, mutexVars, Goto, Lock, Unlock, Wait, Signal,
        LoopsAndJoins, WaitersAtWake
<1>1. ASSUME NEW t \in Workers, Enter(t) PROVE LoopsAndJoins'
    BY <1>1 DEF Enter
<1>2. ASSUME NEW t \in Workers, WakeUp(t) PROVE LoopsAndJoins'
    BY <1>2 DEF WakeUp, Blocked
<1>3. ASSUME NEW t \in Workers, Leave(t) PROVE LoopsAndJoins'
    BY <1>3 DEF Leave
<1>4. CASE ProducerWaits
    BY <1>4 DEF ProducerWaits, BlockOn, MustWaitToProduce
<1>5. CASE Produce
    BY <1>5 DEF Produce, MustWaitToProduce
<1>6. CASE SignalConsumer
    BY <1>6 DEF SignalConsumer
<1>7. CASE ConsumerWaits
    BY <1>7 DEF ConsumerWaits, BlockOn, MustWaitToConsume
<1>8. CASE Consume
    BY <1>8 DEF Consume, MustWaitToConsume
<1>9. CASE SignalProducer
    BY <1>9 DEF SignalProducer
<1>10. CASE Main
    BY <1>10 DEF Main, JoinProducer, JoinConsumer, Cleanup, MainStep
<1>11. CASE Spurious
    BY <1>11 DEF Spurious, SpuriousWakeup
<1>12. CASE UNCHANGED vars
    BY <1>12 DEF vars
<1> QED
    BY <1>1, <1>2, <1>3, <1>4, <1>5, <1>6, <1>7, <1>8, <1>9, <1>10, <1>11,
       <1>12 DEF Next, Producer, Consumer, Either, Exited

\* data_ready follows the first item.
LEMMA ReadyStep == Inv /\ [Next]_vars => DataReadyFollows'
<1> SUFFICES ASSUME Inv, [Next]_vars PROVE DataReadyFollows'
    OBVIOUS
<1> USE SizesAssumption DEF Inv, TypeOK, Workers, Conds, Nobody, Slots,
        dataVars, mutexVars, Goto, Lock, Unlock, Wait, Signal,
        DataReadyFollows, MutualExclusion, HoldsMutex
<1>1. ASSUME NEW t \in Workers, Enter(t) PROVE DataReadyFollows'
    BY <1>1 DEF Enter
<1>2. ASSUME NEW t \in Workers, WakeUp(t) PROVE DataReadyFollows'
    BY <1>2 DEF WakeUp, Blocked
<1>3. ASSUME NEW t \in Workers, Leave(t) PROVE DataReadyFollows'
    BY <1>3 DEF Leave
<1>4. CASE ProducerWaits
    BY <1>4 DEF ProducerWaits, BlockOn, MustWaitToProduce
<1>5. CASE Produce
    BY <1>5 DEF Produce, MustWaitToProduce
<1>6. CASE SignalConsumer
    BY <1>6 DEF SignalConsumer
<1>7. CASE ConsumerWaits
    BY <1>7 DEF ConsumerWaits, BlockOn, MustWaitToConsume
<1>8. CASE Consume
    BY <1>8 DEF Consume, MustWaitToConsume
<1>9. CASE SignalProducer
    BY <1>9 DEF SignalProducer
<1>10. CASE Main
    BY <1>10 DEF Main, JoinProducer, JoinConsumer, Cleanup, MainStep
<1>11. CASE Spurious
    BY <1>11 DEF Spurious, SpuriousWakeup
<1>12. CASE UNCHANGED vars
    BY <1>12 DEF vars
<1> QED
    BY <1>1, <1>2, <1>3, <1>4, <1>5, <1>6, <1>7, <1>8, <1>9, <1>10, <1>11,
       <1>12 DEF Next, Producer, Consumer, Either, Exited

\* A worker that another blocks out is signalled after every change of the index.
LEMMA WakeupStep == Inv /\ [Next]_vars => NoLostWakeup'
<1> SUFFICES ASSUME Inv, [Next]_vars PROVE NoLostWakeup'
    OBVIOUS
<1> USE SizesAssumption DEF Inv, TypeOK, Workers, Conds, Nobody, Slots,
        dataVars, mutexVars, Goto, Lock, Unlock, Wait, Signal,
        NoLostWakeup, DataReadyFollows, MutualExclusion, HoldsMutex,
        WaitersAtWake, BufferIsBacklog, Handled
<1>1. ASSUME NEW t \in Workers, Enter(t) PROVE NoLostWakeup'
    BY <1>1 DEF Enter
<1>2. ASSUME NEW t \in Workers, WakeUp(t) PROVE NoLostWakeup'
    BY <1>2 DEF WakeUp, Blocked
<1>3. ASSUME NEW t \in Workers, Leave(t) PROVE NoLostWakeup'
    BY <1>3 DEF Leave
<1>4. CASE ProducerWaits
    BY <1>4 DEF ProducerWaits, BlockOn, MustWaitToProduce
<1>5. CASE Produce
    BY <1>5 DEF Produce, MustWaitToProduce
<1>6. CASE SignalConsumer
    BY <1>6 DEF SignalConsumer
<1>7. CASE ConsumerWaits
  <2>1. pc["consumer"] = "test" /\ pc["producer"] # "signal"
    BY <1>7 DEF ConsumerWaits
  <2>2. buffer_index <= 0 \/ ~data_ready
    BY <1>7 DEF ConsumerWaits, MustWaitToConsume
  <2>3. ~(buffer_index > 0)
    BY <2>1, <2>2
  <2>4. buffer_index = 0
    BY <2>3
  <2> QED
    BY <2>1, <2>4, <1>7 DEF ConsumerWaits, BlockOn
<1>8. CASE Consume
    BY <1>8 DEF Consume, MustWaitToConsume
<1>9. CASE SignalProducer
    BY <1>9 DEF SignalProducer
<1>10. CASE Main
    BY <1>10 DEF Main, JoinProducer, JoinConsumer, Cleanup, MainStep
<1>11. CASE Spurious
    BY <1>11 DEF Spurious, SpuriousWakeup
<1>12. CASE UNCHANGED vars
    BY <1>12 DEF vars
<1> QED
    BY <1>1, <1>2, <1>3, <1>4, <1>5, <1>6, <1>7, <1>8, <1>9, <1>10, <1>11,
       <1>12 DEF Next, Producer, Consumer, Either, Exited

\* The backlog grows at the top and shrinks from the top.
LEMMA BacklogStep == Inv /\ [Next]_vars => BufferIsBacklog'
<1> SUFFICES ASSUME Inv, [Next]_vars PROVE BufferIsBacklog'
    OBVIOUS
<1> USE SizesAssumption DEF Inv, TypeOK, Workers, Conds, Nobody, Slots,
        dataVars, mutexVars, Goto, Lock, Unlock, Wait, Signal,
        BufferIsBacklog, Handled, MutualExclusion, HoldsMutex
<1>1. ASSUME NEW t \in Workers, Enter(t) PROVE BufferIsBacklog'
    BY <1>1 DEF Enter
<1>2. ASSUME NEW t \in Workers, WakeUp(t) PROVE BufferIsBacklog'
    BY <1>2 DEF WakeUp, Blocked
<1>3. ASSUME NEW t \in Workers, Leave(t) PROVE BufferIsBacklog'
    BY <1>3 DEF Leave
<1>4. CASE ProducerWaits
    BY <1>4 DEF ProducerWaits, BlockOn, MustWaitToProduce
<1>5. CASE Produce
  <2> DEFINE n == i["producer"]
  <2>1. pc["producer"] = "test" /\ ~(buffer_index >= BUFFER_SIZE)
    BY <1>5 DEF Produce, MustWaitToProduce
  <2>2. buffer_index \in 0 .. BUFFER_SIZE - 1 /\ n \in Nat
    BY <2>1
  <2>3. /\ buffer' = [buffer EXCEPT ![buffer_index] = n + 1]
        /\ buffer_index' = buffer_index + 1
    BY <1>5 DEF Produce
  <2>4. /\ Handled("producer") = n /\ Handled("producer")' = n + 1
        /\ Handled("consumer")' = Handled("consumer")
        /\ Handled("consumer") \in Nat
    BY <1>5, <2>1 DEF Produce
  <2>5. buffer'[buffer_index] = n + 1
    BY <2>2, <2>3
  <2>6. ASSUME NEW s \in 0 .. buffer_index - 1
        PROVE  /\ buffer'[s] = buffer[s] /\ buffer[s] \in 1 .. n
    <3>1. s \in Slots /\ s # buffer_index
      BY <2>2
    <3>2. buffer[s] \in 1 .. Handled("producer")
      OBVIOUS
    <3> QED
      BY <2>3, <2>4, <3>1, <3>2
  <2> HIDE DEF n, Handled, Slots
  <2>7. buffer_index' = Handled("producer")' - Handled("consumer")'
    BY <2>2, <2>3, <2>4
  <2>8. ASSUME NEW s \in 0 .. buffer_index' - 1
        PROVE  buffer'[s] \in 1 .. n + 1
    BY <2>2, <2>3, <2>5, <2>6
  <2>9. ASSUME NEW s1 \in 0 .. buffer_index' - 1,
               NEW s2 \in 0 .. buffer_index' - 1, s1 < s2
        PROVE  buffer'[s1] < buffer'[s2]
    <3>1. CASE s2 = buffer_index
      <4>1. s1 \in 0 .. buffer_index - 1
        BY <2>2, <2>3, <2>9, <3>1
      <4>2. buffer'[s1] \in 1 .. n /\ buffer'[s2] = n + 1
        BY <2>5, <2>6, <3>1, <4>1
      <4> QED
        BY ONLY <2>2, <4>2
    <3>2. CASE s2 # buffer_index
      BY <2>2, <2>3, <2>6, <2>9, <3>2
    <3> QED
      BY <3>1, <3>2
  <2> QED
    BY <2>4, <2>7, <2>8, <2>9
<1>6. CASE SignalConsumer
    BY <1>6 DEF SignalConsumer
<1>7. CASE ConsumerWaits
    BY <1>7 DEF ConsumerWaits, BlockOn, MustWaitToConsume
<1>8. CASE Consume
  <2>1. pc["consumer"] = "test" /\ ~(buffer_index <= 0)
    BY <1>8 DEF Consume, MustWaitToConsume
  <2>2. buffer' = buffer /\ buffer_index' = buffer_index - 1
    BY <1>8 DEF Consume
  <2>3. buffer_index \in 1 .. BUFFER_SIZE
    BY <2>1
  <2>4. /\ Handled("producer")' = Handled("producer")
        /\ Handled("consumer")' = Handled("consumer") + 1
        /\ Handled("producer") \in Nat /\ Handled("consumer") \in Nat
    BY <1>8, <2>1 DEF Consume
  <2> HIDE DEF Handled, Slots
  <2>5. 0 .. buffer_index' - 1 \subseteq 0 .. buffer_index - 1
    BY <2>2, <2>3
  <2>6. buffer_index' = Handled("producer")' - Handled("consumer")'
    BY <2>2, <2>3, <2>4
  <2> QED
    BY <2>2, <2>4, <2>5, <2>6
<1>9. CASE SignalProducer
    BY <1>9 DEF SignalProducer
<1>10. CASE Main
    BY <1>10 DEF Main, JoinProducer, JoinConsumer, Cleanup, MainStep
<1>11. CASE Spurious
    BY <1>11 DEF Spurious, SpuriousWakeup
<1>12. CASE UNCHANGED vars
    BY <1>12 DEF vars
<1> QED
    BY <1>1, <1>2, <1>3, <1>4, <1>5, <1>6, <1>7, <1>8, <1>9, <1>10, <1>11,
       <1>12 DEF Next, Producer, Consumer, Either, Exited
-------------------------------------------------------------------------------
\* Every reachable state satisfies the inductive invariant.
THEOREM Invariance == SafeSpec => []Inv
<1>1. Inv /\ [Next]_vars => Inv'
    BY TypeStep, MutexStep, WaitersStep, LoopsStep, ReadyStep, WakeupStep,
       BacklogStep DEF Inv
<1> QED
    BY InitInv, <1>1, PTL DEF SafeSpec

\* The types hold in every state: the index never leaves the array.
THEOREM TypesHold == SafeSpec => []TypeOK
<1>1. Inv => TypeOK
    BY DEF Inv
<1> QED
    BY Invariance, <1>1, PTL

\* The buffer is only touched by the owner of the mutex.
THEOREM MutexExcludes == SafeSpec => []MutualExclusion
<1>1. Inv => MutualExclusion
    BY DEF Inv
<1> QED
    BY Invariance, <1>1, PTL

\* No thread sleeps on a condition that became true without a signal pending.
THEOREM WakeupsArrive == SafeSpec => []NoLostWakeup
<1>1. Inv => NoLostWakeup
    BY DEF Inv
<1> QED
    BY Invariance, <1>1, PTL

\* The live entries of the array are the items produced and not consumed.
THEOREM BacklogIsExact == SafeSpec => []BufferIsBacklog
<1>1. Inv => BufferIsBacklog
    BY DEF Inv
<1> QED
    BY Invariance, <1>1, PTL

\* main destroys primitives that nobody uses any more, and an empty buffer.
THEOREM CleanupIsSafe == SafeSpec => []CleanExit
<1>1. Inv => CleanExit
  <2> SUFFICES ASSUME Inv, main \in {"cleanup", "exit"}
               PROVE  /\ owner = Nobody
                      /\ \A c \in Conds : waiters[c] = {}
                      /\ buffer_index = 0
    BY DEF CleanExit
  <2>1. pc["producer"] = "done" /\ pc["consumer"] = "done"
    BY DEF Inv, LoopsAndJoins
  <2>2. owner = Nobody
    BY <2>1 DEF Inv, TypeOK, MutualExclusion, HoldsMutex, Workers, Nobody
  <2>3. ASSUME NEW c \in Conds PROVE waiters[c] = {}
    BY <2>1 DEF Inv, TypeOK, WaitersAtWake, Workers, Conds
  <2>4. i["producer"] = NUM_ITEMS /\ i["consumer"] = NUM_ITEMS
    BY <2>1 DEF Inv, LoopsAndJoins, Workers
  <2>5. buffer_index = 0
    BY <2>1, <2>4, SizesAssumption DEF Inv, BufferIsBacklog, Handled
  <2> QED
    BY <2>2, <2>3, <2>5
<1> QED
    BY Invariance, <1>1, PTL
-------------------------------------------------------------------------------
\* The refinement of BoundedStack.  Live(f, n) is the stack that the first n
\* entries of the array f are.
Live(f, n) == [k \in 1 .. n |-> f[k - 1]]

\* The live entries are a sequence.
LEMMA LiveIsSeq ==
    ASSUME NEW n \in Nat, NEW f, \A s \in 0 .. n - 1 : f[s] \in Int
    PROVE  /\ Live(f, n) \in Seq(Int)
           /\ Len(Live(f, n)) = n
           /\ \A k \in 1 .. n : Live(f, n)[k] = f[k - 1]
<1>1. Live(f, n) \in [1 .. n -> Int]
    BY DEF Live
<1>2. Live(f, n) \in Seq(Int)
    BY <1>1, SeqDef
<1>3. DOMAIN Live(f, n) = 1 .. n
    BY DEF Live
<1>4. Len(Live(f, n)) = n
    BY <1>2, <1>3, LenProperties
<1> QED
    BY <1>2, <1>4 DEF Live

\* Writing the entry above the top pushes it.
LEMMA LivePush ==
    ASSUME NEW n \in Nat, NEW f, NEW g, NEW v \in Int,
           \A s \in 0 .. n - 1 : f[s] \in Int /\ g[s] = f[s],
           g[n] = v
    PROVE  Live(g, n + 1) = Append(Live(f, n), v)
<1>1. /\ Live(f, n) \in Seq(Int) /\ Len(Live(f, n)) = n
      /\ \A k \in 1 .. n : Live(f, n)[k] = f[k - 1]
    BY LiveIsSeq
<1>2. n + 1 \in Nat /\ \A s \in 0 .. (n + 1) - 1 : g[s] \in Int
    OBVIOUS
<1>3. /\ Live(g, n + 1) \in Seq(Int) /\ Len(Live(g, n + 1)) = n + 1
      /\ \A k \in 1 .. n + 1 : Live(g, n + 1)[k] = g[k - 1]
    BY <1>2, LiveIsSeq
<1>4. /\ Append(Live(f, n), v) \in Seq(Int)
      /\ Len(Append(Live(f, n), v)) = n + 1
      /\ \A k \in 1 .. n : Append(Live(f, n), v)[k] = Live(f, n)[k]
      /\ Append(Live(f, n), v)[n + 1] = v
    BY <1>1, AppendProperties
<1>5. ASSUME NEW k \in 1 .. n + 1
      PROVE  Live(g, n + 1)[k] = Append(Live(f, n), v)[k]
  <2>1. k = n + 1 \/ k \in 1 .. n
    BY ONLY n \in Nat, k \in 1 .. n + 1
  <2>2. CASE k = n + 1
    BY <1>3, <1>4, <2>2
  <2>3. CASE k \in 1 .. n
    <3>1. k - 1 \in 0 .. n - 1
      BY ONLY n \in Nat, <2>3
    <3>2. g[k - 1] = f[k - 1]
      BY <3>1
    <3> QED
      BY <1>1, <1>3, <1>4, <2>3, <3>2
  <2> QED
    BY ONLY <2>1, <2>2, <2>3
<1> QED
    BY <1>3, <1>4, <1>5, SeqEqual

\* Lowering the index pops the top.
LEMMA LivePop ==
    ASSUME NEW n \in Nat \ {0}, NEW f, \A s \in 0 .. n - 1 : f[s] \in Int
    PROVE  Live(f, n - 1) = SubSeq(Live(f, n), 1, Len(Live(f, n)) - 1)
<1>1. /\ Live(f, n) \in Seq(Int) /\ Len(Live(f, n)) = n
      /\ \A k \in 1 .. n : Live(f, n)[k] = f[k - 1]
    BY LiveIsSeq
<1>2. n - 1 \in Nat /\ \A s \in 0 .. (n - 1) - 1 : f[s] \in Int
    OBVIOUS
<1>3. /\ Live(f, n - 1) \in Seq(Int) /\ Len(Live(f, n - 1)) = n - 1
      /\ \A k \in 1 .. n - 1 : Live(f, n - 1)[k] = f[k - 1]
    BY <1>2, LiveIsSeq
<1> DEFINE sub == SubSeq(Live(f, n), 1, n - 1)
<1>4. \A k \in 1 .. n - 1 : Live(f, n)[k] \in Int
    BY <1>1
<1>5. /\ sub \in Seq(Int)
      /\ Len(sub) = IF 1 <= n - 1 THEN (n - 1) - 1 + 1 ELSE 0
      /\ \A k \in 1 .. (n - 1) - 1 + 1 : sub[k] = Live(f, n)[1 + k - 1]
    BY <1>4, SubSeqProperties
<1>6. Len(sub) = n - 1 /\ \A k \in 1 .. n - 1 : sub[k] = f[k - 1]
    BY <1>1, <1>5
<1> QED
    BY <1>1, <1>3, <1>5, <1>6, SeqEqual

\* The program starts as an empty stack.
LEMMA RefinesInit == Init => Stack!Init
<1> SUFFICES ASSUME Init PROVE Stack!Init
    OBVIOUS
<1>1. buffer_index = 0 /\ producer_sum = 0 /\ consumer_sum = 0
    BY DEF Init
<1>2. \A t \in Workers : Handled(t) = 0
    BY DEF Init, Handled
<1>3. Live(buffer, buffer_index) = << >>
  <2>1. Live(buffer, 0) \in Seq(Int) /\ Len(Live(buffer, 0)) = 0
    BY LiveIsSeq
  <2> QED
    BY <1>1, <2>1, EmptySeq
<1> QED
    BY <1>1, <1>2, <1>3 DEF Stack!Init, Live, Workers

\* A store by the producer is a Put.
LEMMA ProducePuts == Inv /\ Produce => Stack!Put
<1> SUFFICES ASSUME Inv, Produce PROVE Stack!Put
    OBVIOUS
<1>1. pc["producer"] = "test" /\ ~(buffer_index >= BUFFER_SIZE)
    BY DEF Produce, MustWaitToProduce
<1>2. /\ buffer \in [Slots -> Int] /\ buffer_index \in 0 .. BUFFER_SIZE
      /\ i \in [Workers -> 0 .. NUM_ITEMS]
      /\ (pc["producer"] = "done" <=> i["producer"] = NUM_ITEMS)
    BY DEF Inv, TypeOK, LoopsAndJoins, Workers
<1>3. i["producer"] \in 0 .. NUM_ITEMS - 1 /\ buffer_index \in 0 .. BUFFER_SIZE - 1
    BY <1>1, <1>2, SizesAssumption DEF Workers
<1>4. /\ buffer' = [buffer EXCEPT ![buffer_index] = i["producer"] + 1]
      /\ buffer_index' = buffer_index + 1
      /\ producer_sum' = producer_sum + (i["producer"] + 1)
      /\ consumer_sum' = consumer_sum
    BY DEF Produce
<1>5. /\ Handled("producer") = i["producer"]
      /\ Handled("producer")' = i["producer"] + 1
  <2>1. pc' = [pc EXCEPT !["producer"] = "signal"] /\ i' = i
    BY DEF Produce, Goto
  <2>2. pc'["producer"] = "signal"
    BY <2>1 DEF Inv, TypeOK, Workers
  <2> QED
    BY <1>1, <1>3, <2>1, <2>2 DEF Handled
<1>6. ASSUME NEW s \in 0 .. buffer_index - 1
      PROVE  buffer[s] \in Int /\ buffer'[s] = buffer[s]
  <2>1. s \in Slots /\ s # buffer_index
    BY <1>3, SizesAssumption DEF Slots
  <2> QED
    BY <1>2, <1>4, <2>1
<1>7. buffer'[buffer_index] = i["producer"] + 1
    BY <1>2, <1>3, <1>4 DEF Slots
<1>8. Live(buffer, buffer_index)'
        = Append(Live(buffer, buffer_index), i["producer"] + 1)
  <2>1. Live(buffer', buffer_index + 1)
          = Append(Live(buffer, buffer_index), i["producer"] + 1)
    BY <1>3, <1>6, <1>7, LivePush
  <2> QED
    BY <1>4, <2>1 DEF Live
<1>9. Len(Live(buffer, buffer_index)) = buffer_index
    BY <1>3, <1>6, LiveIsSeq
<1>10. producer_sum' = producer_sum + i["producer"] + 1
    BY <1>3, <1>4 DEF Inv, TypeOK
<1>11. Handled("producer") < NUM_ITEMS /\ buffer_index < BUFFER_SIZE
    BY <1>3, <1>5, SizesAssumption
<1> HIDE DEF Handled
<1>12. Live(buffer, buffer_index)'
         = Append(Live(buffer, buffer_index), Handled("producer") + 1)
    BY <1>5, <1>8
<1>13. /\ Handled("producer")' = Handled("producer") + 1
       /\ producer_sum' = producer_sum + Handled("producer") + 1
    BY <1>5, <1>10
<1> QED
    BY <1>4, <1>9, <1>11, <1>12, <1>13 DEF Stack!Put, Live

\* A load by the consumer is a Take.
LEMMA ConsumeTakes == Inv /\ Consume => Stack!Take
<1> SUFFICES ASSUME Inv, Consume PROVE Stack!Take
    OBVIOUS
<1>1. pc["consumer"] = "test" /\ ~(buffer_index <= 0)
    BY DEF Consume, MustWaitToConsume
<1>2. /\ buffer \in [Slots -> Int] /\ buffer_index \in 0 .. BUFFER_SIZE
    BY DEF Inv, TypeOK
<1>3. buffer_index \in 1 .. BUFFER_SIZE
    BY <1>1, <1>2, SizesAssumption
<1>4. /\ buffer' = buffer /\ buffer_index' = buffer_index - 1
      /\ producer_sum' = producer_sum
      /\ consumer_sum' = consumer_sum + buffer[buffer_index - 1]
    BY DEF Consume
<1>5. Handled("producer")' = Handled("producer")
    BY DEF Consume, Goto, Handled, Inv, TypeOK, Workers
<1>6. \A s \in 0 .. buffer_index - 1 : buffer[s] \in Int
    BY <1>2, <1>3, SizesAssumption DEF Slots
<1>7. /\ Live(buffer, buffer_index) \in Seq(Int)
      /\ Len(Live(buffer, buffer_index)) = buffer_index
      /\ \A k \in 1 .. buffer_index :
            Live(buffer, buffer_index)[k] = buffer[k - 1]
    BY <1>3, <1>6, LiveIsSeq
<1>8. Live(buffer, buffer_index)'
        = SubSeq(Live(buffer, buffer_index), 1,
                 Len(Live(buffer, buffer_index)) - 1)
  <2>1. Live(buffer, buffer_index - 1)
          = SubSeq(Live(buffer, buffer_index), 1,
                   Len(Live(buffer, buffer_index)) - 1)
    BY <1>3, <1>6, LivePop
  <2> QED
    BY <1>4, <2>1 DEF Live
<1>9. Live(buffer, buffer_index) # << >>
    BY <1>3, <1>7
<1>10. consumer_sum' = consumer_sum
         + Live(buffer, buffer_index)[Len(Live(buffer, buffer_index))]
    BY <1>3, <1>4, <1>7
<1> QED
    BY <1>4, <1>5, <1>8, <1>9, <1>10 DEF Stack!Take, Live

\* Every other step leaves the stack as it is.
LEMMA RefinesStep == Inv /\ [Next]_vars => [Stack!Next]_(Stack!stackVars)
<1> SUFFICES ASSUME Inv, [Next]_vars PROVE [Stack!Next]_(Stack!stackVars)
    OBVIOUS
<1> DEFINE Same == /\ UNCHANGED <<buffer, buffer_index, producer_sum, consumer_sum>>
                   /\ Handled("producer")' = Handled("producer")
<1> USE DEF Handled, Inv, TypeOK, Workers, Goto, dataVars
<1>1. ASSUME NEW t \in Workers, Enter(t) PROVE Same
    BY <1>1 DEF Enter
<1>2. ASSUME NEW t \in Workers, WakeUp(t) PROVE Same
    BY <1>2 DEF WakeUp
<1>3. ASSUME NEW t \in Workers, Leave(t) PROVE Same
    BY <1>3 DEF Leave
<1>4. ASSUME ProducerWaits PROVE Same
    BY <1>4 DEF ProducerWaits, BlockOn
<1>5. ASSUME SignalConsumer PROVE Same
    BY <1>5 DEF SignalConsumer
<1>6. ASSUME ConsumerWaits PROVE Same
    BY <1>6 DEF ConsumerWaits, BlockOn
<1>7. ASSUME SignalProducer PROVE Same
    BY <1>7 DEF SignalProducer
<1>8. ASSUME Main PROVE Same
    BY <1>8 DEF Main, JoinProducer, JoinConsumer, Cleanup, MainStep
<1>9. ASSUME Spurious PROVE Same
    BY <1>9 DEF Spurious
<1>10. ASSUME UNCHANGED vars PROVE Same
    BY <1>10 DEF vars
<1>11. ASSUME Same PROVE UNCHANGED Stack!stackVars
    BY <1>11 DEF Stack!stackVars
<1>12. CASE Produce
    BY <1>12, ProducePuts DEF Stack!Next
<1>13. CASE Consume
    BY <1>13, ConsumeTakes DEF Stack!Next
<1> HIDE DEF Same
<1> QED
    BY <1>1, <1>2, <1>3, <1>4, <1>5, <1>6, <1>7, <1>8, <1>9, <1>10, <1>11,
       <1>12, <1>13 DEF Next, Producer, Consumer, Either, Exited

\* Every behaviour of the program is a behaviour of the bounded stack.
THEOREM StackImplemented == SafeSpec => Stack!SafeSpec
<1> QED
    BY RefinesInit, RefinesStep, Invariance, PTL DEF SafeSpec, Stack!SafeSpec
===============================================================================
