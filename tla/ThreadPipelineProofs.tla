------------------------- MODULE ThreadPipelineProofs -------------------------
(***************************************************************************)
(* Proofs about ThreadPipeline for every NUM.                              *)
(***************************************************************************)
EXTENDS ThreadPipelineProps, TLAPS

\* A blocked thread is inside the wait of its own condition.
WaitersAtWake ==
    /\ waiters["cond_A_done"] \subseteq {2}
    /\ waiters["cond_B_done"] \subseteq {3}
    /\ \A c \in Conds : \A t \in waiters[c] : pc[t] = "wake"

\* A thread is done when its loop counter has reached the bound; main has
\* only joined threads that are done.
LoopsAndJoins ==
    /\ \A t \in Threads : pc[t] = "done" <=> i[t] = NUM
    /\ \A t \in 1 .. joined : pc[t] = "done"

\* The inductive invariant.
Inv == /\ TypeOK
       /\ MutualExclusion
       /\ WaitersAtWake
       /\ LoopsAndJoins
       /\ NoLostWakeup
       /\ TokenAccounting
-------------------------------------------------------------------------------
\* main starts the threads in a state that satisfies the invariant.
LEMMA InitInv == Init => Inv
<1> SUFFICES ASSUME Init PROVE Inv
    OBVIOUS
<1> USE NumAssumption DEF Init, MutexInit, Threads, Conds, Nobody
<1>1. TypeOK
    BY DEF TypeOK
<1>2. MutualExclusion
    BY DEF MutualExclusion, HoldsMutex
<1>3. WaitersAtWake /\ LoopsAndJoins /\ NoLostWakeup
    BY DEF WaitersAtWake, LoopsAndJoins, NoLostWakeup
<1>4. TokenAccounting
    BY DEF TokenAccounting, Lost, Processed
<1> QED
    BY <1>1, <1>2, <1>3, <1>4 DEF Inv

\* Each action preserves the types.
LEMMA TypeStep == Inv /\ [Next]_vars => TypeOK'
<1> SUFFICES ASSUME Inv, [Next]_vars PROVE TypeOK'
    OBVIOUS
<1> USE NumAssumption DEF Inv, TypeOK, Threads, Conds, Nobody, flags, mutexVars,
        Goto, Lock, Unlock, Wait, Signal,
        LoopsAndJoins
<1>1. ASSUME NEW t \in Threads, Enter(t) PROVE TypeOK'
    BY <1>1 DEF Enter
<1>2. ASSUME NEW t \in Threads, WakeUp(t) PROVE TypeOK'
    BY <1>2 DEF WakeUp, Blocked
<1>3. ASSUME NEW t \in Threads, Leave(t) PROVE TypeOK'
    BY <1>3 DEF Leave
<1>4. CASE Poll
    BY <1>4 DEF Poll
<1>5. CASE ProcessA
    BY <1>5 DEF ProcessA, Process
<1>6. CASE WaitForA
    BY <1>6 DEF WaitForA, BlockOn
<1>7. CASE ProcessB
    BY <1>7 DEF ProcessB, Process
<1>8. CASE WaitForB
    BY <1>8 DEF WaitForB, BlockOn
<1>9. CASE ProcessC
    BY <1>9 DEF ProcessC, Process
<1>10. CASE Join
    BY <1>10 DEF Join
<1>11. CASE Spurious
    BY <1>11 DEF Spurious, SpuriousWakeup
<1>12. CASE UNCHANGED vars
    BY <1>12 DEF vars
<1> QED
    BY <1>1, <1>2, <1>3, <1>4, <1>5, <1>6, <1>7, <1>8, <1>9, <1>10, <1>11,
       <1>12 DEF Next, Thread_1, Thread_2, Thread_3, Either, Exited

\* Nobody enters the critical section of another.
LEMMA MutexStep == Inv /\ [Next]_vars => MutualExclusion'
<1> SUFFICES ASSUME Inv, [Next]_vars PROVE MutualExclusion'
    OBVIOUS
<1> USE NumAssumption DEF Inv, TypeOK, Threads, Conds, Nobody, flags, mutexVars,
        Goto, Lock, Unlock, Wait, Signal,
        MutualExclusion, HoldsMutex, WaitersAtWake
<1>1. ASSUME NEW t \in Threads, Enter(t) PROVE MutualExclusion'
    BY <1>1 DEF Enter
<1>2. ASSUME NEW t \in Threads, WakeUp(t) PROVE MutualExclusion'
    BY <1>2 DEF WakeUp, Blocked
<1>3. ASSUME NEW t \in Threads, Leave(t) PROVE MutualExclusion'
    BY <1>3 DEF Leave
<1>4. CASE Poll
    BY <1>4 DEF Poll
<1>5. CASE ProcessA
    BY <1>5 DEF ProcessA, Process
<1>6. CASE WaitForA
    BY <1>6 DEF WaitForA, BlockOn
<1>7. CASE ProcessB
    BY <1>7 DEF ProcessB, Process
<1>8. CASE WaitForB
    BY <1>8 DEF WaitForB, BlockOn
<1>9. CASE ProcessC
    BY <1>9 DEF ProcessC, Process
<1>10. CASE Join
    BY <1>10 DEF Join
<1>11. CASE Spurious
    BY <1>11 DEF Spurious, SpuriousWakeup
<1>12. CASE UNCHANGED vars
    BY <1>12 DEF vars
<1> QED
    BY <1>1, <1>2, <1>3, <1>4, <1>5, <1>6, <1>7, <1>8, <1>9, <1>10, <1>11,
       <1>12 DEF Next, Thread_1, Thread_2, Thread_3, Either, Exited

\* A thread enters only its own wait set and leaves the wait after the set.
LEMMA WaitersStep == Inv /\ [Next]_vars => WaitersAtWake'
<1> SUFFICES ASSUME Inv, [Next]_vars PROVE WaitersAtWake'
    OBVIOUS
<1> USE NumAssumption DEF Inv, TypeOK, Threads, Conds, Nobody, flags, mutexVars,
        Goto, Lock, Unlock, Wait, Signal,
        MutualExclusion, HoldsMutex, WaitersAtWake
<1>1. ASSUME NEW t \in Threads, Enter(t) PROVE WaitersAtWake'
    BY <1>1 DEF Enter
<1>2. ASSUME NEW t \in Threads, WakeUp(t) PROVE WaitersAtWake'
    BY <1>2 DEF WakeUp, Blocked
<1>3. ASSUME NEW t \in Threads, Leave(t) PROVE WaitersAtWake'
    BY <1>3 DEF Leave
<1>4. CASE Poll
    BY <1>4 DEF Poll
<1>5. CASE ProcessA
    BY <1>5 DEF ProcessA, Process
<1>6. CASE WaitForA
    BY <1>6 DEF WaitForA, BlockOn
<1>7. CASE ProcessB
    BY <1>7 DEF ProcessB, Process
<1>8. CASE WaitForB
    BY <1>8 DEF WaitForB, BlockOn
<1>9. CASE ProcessC
    BY <1>9 DEF ProcessC, Process
<1>10. CASE Join
    BY <1>10 DEF Join
<1>11. CASE Spurious
    BY <1>11 DEF Spurious, SpuriousWakeup
<1>12. CASE UNCHANGED vars
    BY <1>12 DEF vars
<1> QED
    BY <1>1, <1>2, <1>3, <1>4, <1>5, <1>6, <1>7, <1>8, <1>9, <1>10, <1>11,
       <1>12 DEF Next, Thread_1, Thread_2, Thread_3, Either, Exited

\* The loops end at the bound and the joins wait for that.
LEMMA LoopsStep == Inv /\ [Next]_vars => LoopsAndJoins'
<1> SUFFICES ASSUME Inv, [Next]_vars PROVE LoopsAndJoins'
    OBVIOUS
<1> USE NumAssumption DEF Inv, TypeOK, Threads, Conds, Nobody, flags, mutexVars,
        Goto, Lock, Unlock, Wait, Signal,
        LoopsAndJoins, WaitersAtWake
<1>1. ASSUME NEW t \in Threads, Enter(t) PROVE LoopsAndJoins'
    BY <1>1 DEF Enter
<1>2. ASSUME NEW t \in Threads, WakeUp(t) PROVE LoopsAndJoins'
    BY <1>2 DEF WakeUp, Blocked
<1>3. ASSUME NEW t \in Threads, Leave(t) PROVE LoopsAndJoins'
    BY <1>3 DEF Leave
<1>4. CASE Poll
    BY <1>4 DEF Poll
<1>5. CASE ProcessA
    BY <1>5 DEF ProcessA, Process
<1>6. CASE WaitForA
    BY <1>6 DEF WaitForA, BlockOn
<1>7. CASE ProcessB
    BY <1>7 DEF ProcessB, Process
<1>8. CASE WaitForB
    BY <1>8 DEF WaitForB, BlockOn
<1>9. CASE ProcessC
    BY <1>9 DEF ProcessC, Process
<1>10. CASE Join
    BY <1>10 DEF Join
<1>11. CASE Spurious
    BY <1>11 DEF Spurious, SpuriousWakeup
<1>12. CASE UNCHANGED vars
    BY <1>12 DEF vars
<1> QED
    BY <1>1, <1>2, <1>3, <1>4, <1>5, <1>6, <1>7, <1>8, <1>9, <1>10, <1>11,
       <1>12 DEF Next, Thread_1, Thread_2, Thread_3, Either, Exited

\* A flag that goes up wakes the thread that waits for it.
LEMMA WakeupStep == Inv /\ [Next]_vars => NoLostWakeup'
<1> SUFFICES ASSUME Inv, [Next]_vars PROVE NoLostWakeup'
    OBVIOUS
<1> USE NumAssumption DEF Inv, TypeOK, Threads, Conds, Nobody, flags, mutexVars,
        Goto, Lock, Unlock, Wait, Signal,
        NoLostWakeup, WaitersAtWake
<1>1. ASSUME NEW t \in Threads, Enter(t) PROVE NoLostWakeup'
    BY <1>1 DEF Enter
<1>2. ASSUME NEW t \in Threads, WakeUp(t) PROVE NoLostWakeup'
    BY <1>2 DEF WakeUp, Blocked
<1>3. ASSUME NEW t \in Threads, Leave(t) PROVE NoLostWakeup'
    BY <1>3 DEF Leave
<1>4. CASE Poll
    BY <1>4 DEF Poll
<1>5. CASE ProcessA
    BY <1>5 DEF ProcessA, Process
<1>6. CASE WaitForA
    BY <1>6 DEF WaitForA, BlockOn
<1>7. CASE ProcessB
    BY <1>7 DEF ProcessB, Process
<1>8. CASE WaitForB
    BY <1>8 DEF WaitForB, BlockOn
<1>9. CASE ProcessC
    BY <1>9 DEF ProcessC, Process
<1>10. CASE Join
    BY <1>10 DEF Join
<1>11. CASE Spurious
    BY <1>11 DEF Spurious, SpuriousWakeup
<1>12. CASE UNCHANGED vars
    BY <1>12 DEF vars
<1> QED
    BY <1>1, <1>2, <1>3, <1>4, <1>5, <1>6, <1>7, <1>8, <1>9, <1>10, <1>11,
       <1>12 DEF Next, Thread_1, Thread_2, Thread_3, Either, Exited

\* Each action moves one token at most, and counts it.
LEMMA TokenStep == Inv /\ [Next]_vars => TokenAccounting'
<1> SUFFICES ASSUME Inv, [Next]_vars PROVE TokenAccounting'
    OBVIOUS
<1> USE NumAssumption DEF Inv, TypeOK, Threads, Conds, Nobody, flags, mutexVars,
        Goto, Lock, Unlock, Wait, Signal,
        TokenAccounting, Lost, Processed, MutualExclusion, HoldsMutex
<1>1. ASSUME NEW t \in Threads, Enter(t) PROVE TokenAccounting'
    BY <1>1 DEF Enter
<1>2. ASSUME NEW t \in Threads, WakeUp(t) PROVE TokenAccounting'
    BY <1>2 DEF WakeUp, Blocked
<1>3. ASSUME NEW t \in Threads, Leave(t) PROVE TokenAccounting'
    BY <1>3 DEF Leave
<1>4. CASE Poll
    BY <1>4 DEF Poll
<1>5. CASE ProcessA
    BY <1>5 DEF ProcessA, Process
<1>6. CASE WaitForA
    BY <1>6 DEF WaitForA, BlockOn
<1>7. CASE ProcessB
    BY <1>7 DEF ProcessB, Process
<1>8. CASE WaitForB
    BY <1>8 DEF WaitForB, BlockOn
<1>9. CASE ProcessC
    BY <1>9 DEF ProcessC, Process
<1>10. CASE Join
    BY <1>10 DEF Join
<1>11. CASE Spurious
    BY <1>11 DEF Spurious, SpuriousWakeup
<1>12. CASE UNCHANGED vars
    BY <1>12 DEF vars
<1> QED
    BY <1>1, <1>2, <1>3, <1>4, <1>5, <1>6, <1>7, <1>8, <1>9, <1>10, <1>11,
       <1>12 DEF Next, Thread_1, Thread_2, Thread_3, Either, Exited
-------------------------------------------------------------------------------
\* Every reachable state satisfies the inductive invariant.
THEOREM Invariance == SafeSpec => []Inv
<1>1. Inv /\ [Next]_vars => Inv'
    BY TypeStep, MutexStep, WaitersStep, LoopsStep, WakeupStep, TokenStep DEF Inv
<1> QED
    BY InitInv, <1>1, PTL DEF SafeSpec

\* The flags, the loops and the join never leave their bounds, and nobody waits
\* on a condition of another thread.
THEOREM TypesHold == SafeSpec => []TypeOK
<1>1. Inv => TypeOK
    BY DEF Inv
<1> QED
    BY Invariance, <1>1, PTL

\* The flags are only touched by the owner of the mutex.
THEOREM MutexExcludes == SafeSpec => []MutualExclusion
<1>1. Inv => MutualExclusion
    BY DEF Inv
<1> QED
    BY Invariance, <1>1, PTL

\* No thread sleeps on a flag that is up.
THEOREM WakeupsArrive == SafeSpec => []NoLostWakeup
<1>1. Inv => NoLostWakeup
    BY DEF Inv
<1> QED
    BY Invariance, <1>1, PTL

\* The first hand-off is exact and the second only ever loses tokens.
THEOREM TokensAccounted == SafeSpec => []TokenAccounting
<1>1. Inv => TokenAccounting
    BY DEF Inv
<1> QED
    BY Invariance, <1>1, PTL

\* Once a token is lost the program never returns: thread 3 waits for a
\* token that nobody will pass on (pthread_cond.c:45 and :58).
THEOREM LossIsFinal == SafeSpec => [](Lost > 0 => [](joined # 3))
<1>1. Inv /\ [Next]_vars /\ Lost > 0 => (Lost > 0)'
  <2> SUFFICES ASSUME Inv, [Next]_vars, Lost > 0 PROVE (Lost > 0)'
      OBVIOUS
  <2> USE DEF Inv, TypeOK, Threads, Goto, flags, Processed, Lost
  <2>1. ASSUME NEW t \in Threads, Enter(t) PROVE (Lost > 0)'
      BY <2>1 DEF Enter
  <2>2. ASSUME NEW t \in Threads, WakeUp(t) PROVE (Lost > 0)'
      BY <2>2 DEF WakeUp
  <2>3. ASSUME NEW t \in Threads, Leave(t) PROVE (Lost > 0)'
      BY <2>3 DEF Leave
  <2>4. CASE Poll
      BY <2>4 DEF Poll
  <2>5. CASE ProcessA
      BY <2>5 DEF ProcessA, Process
  <2>6. CASE WaitForA
      BY <2>6 DEF WaitForA, BlockOn
  <2>7. CASE ProcessB
      BY <2>7 DEF ProcessB, Process
  <2>8. CASE WaitForB
      BY <2>8 DEF WaitForB, BlockOn
  <2>9. CASE ProcessC
      BY <2>9 DEF ProcessC, Process
  <2>10. CASE Join
      BY <2>10 DEF Join
  <2>11. CASE Spurious
      BY <2>11 DEF Spurious
  <2>12. CASE UNCHANGED vars
      BY <2>12 DEF vars
  <2> QED
      BY <2>1, <2>2, <2>3, <2>4, <2>5, <2>6, <2>7, <2>8, <2>9, <2>10, <2>11,
         <2>12 DEF Next, Thread_1, Thread_2, Thread_3, Either, Exited
<1>2. Inv /\ Lost > 0 => joined # 3
  <2> SUFFICES ASSUME Inv, joined = 3 PROVE ~(Lost > 0)
      OBVIOUS
  <2>1. pc[2] = "done" /\ pc[3] = "done" /\ i[2] = NUM /\ i[3] = NUM
      BY DEF Inv, LoopsAndJoins, Threads
  <2> QED
      BY <2>1, NumAssumption DEF Inv, TypeOK, Lost, Processed
<1> QED
    BY Invariance, <1>1, <1>2, PTL DEF SafeSpec
===============================================================================
