--------------------------- MODULE PrinterPoolProofs ---------------------------
(***************************************************************************)
(* Proofs about PrinterPool for every set of threads and every number of   *)
(* printers.                                                               *)
(***************************************************************************)
EXTENDS PrinterPoolProps, FiniteSetTheorems, TLAPS

\* A thread is inside get_printer exactly when it owns the mutex.
MutexOwned == \A t \in Threads :
                  pc[t] \in {"read", "advance", "unlock"} <=> printer_mutex = t

\* Between the load and the increment, the printer is the one at the index.
ReadIsCurrent == \A t \in Threads :
                     pc[t] = "advance" => printer_id[t] = printer_index + 1

\* main goes on when every thread is done.
Joined == main = "exit" => \A t \in Threads : pc[t] = "done"

\* The inductive invariant.
Inv == /\ TypeOK
       /\ MutexOwned
       /\ ReadIsCurrent
       /\ Joined
       /\ PermitAccounting
       /\ HandedOutInTurn
-------------------------------------------------------------------------------
\* Quotient and remainder, as the prover needs them.
LEMMA DivMod ==
    ASSUME NEW n \in Nat, NEW P \in Nat \ {0}
    PROVE  /\ n \div P \in Nat /\ n % P \in 0 .. P - 1
           /\ n = P * (n \div P) + (n % P)
  OBVIOUS

\* They are determined by that equation.
LEMMA DivModUnique ==
    ASSUME NEW n \in Nat, NEW P \in Nat \ {0}, NEW q \in Nat,
           NEW r \in 0 .. P - 1, n = P * q + r
    PROVE  n \div P = q /\ n % P = r
<1> DEFINE d == n \div P
           m == n % P
<1>1. d \in Nat /\ m \in 0 .. P - 1 /\ n = P * d + m
    BY DivMod
<1> HIDE DEF d, m
<1>2. d = q
  <2>1. CASE d < q
    <3>1. P * d + P <= P * q
      BY <1>1, <2>1, Z3
    <3> QED
      BY <1>1, <3>1
  <2>2. CASE q < d
    <3>1. P * q + P <= P * d
      BY <1>1, <2>2, Z3
    <3> QED
      BY <1>1, <3>1
  <2> QED
    BY <1>1, <2>1, <2>2
<1>3. m = r
    BY <1>1, <1>2
<1> QED
    BY <1>2, <1>3 DEF d, m

\* One call more: the remainder goes round, the quotient counts the rounds.
LEMMA DivModSucc ==
    ASSUME NEW n \in Nat, NEW P \in Nat \ {0}
    PROVE  /\ (n + 1) % P = ((n % P) + 1) % P
           /\ (n % P) + 1 < P => /\ (n + 1) \div P = n \div P
                               /\ (n + 1) % P = (n % P) + 1
           /\ (n % P) + 1 = P => /\ (n + 1) \div P = n \div P + 1
                               /\ (n + 1) % P = 0
<1> DEFINE d == n \div P
           m == n % P
<1>1. d \in Nat /\ m \in 0 .. P - 1 /\ n = P * d + m
    BY DivMod
<1> HIDE DEF d, m
<1>2. CASE m + 1 < P
  <2>1. n + 1 \in Nat /\ m + 1 \in 0 .. P - 1 /\ n + 1 = P * d + (m + 1)
    BY <1>1, <1>2
  <2>2. (n + 1) \div P = d /\ (n + 1) % P = m + 1
    BY <1>1, <2>1, DivModUnique
  <2>3. m + 1 = P * 0 + (m + 1)
    BY <2>1
  <2>4. (m + 1) % P = m + 1
    BY <1>1, <2>1, <2>3, DivModUnique
  <2> QED
    BY <1>2, <2>2, <2>4 DEF d, m
<1>3. CASE m + 1 = P
  <2>1. P * (d + 1) = P * d + P
    BY <1>1, Z3
  <2>2. n + 1 \in Nat /\ d + 1 \in Nat /\ 0 \in 0 .. P - 1 /\ n + 1 = P * (d + 1) + 0
    BY <1>1, <1>3, <2>1
  <2>3. (n + 1) \div P = d + 1 /\ (n + 1) % P = 0
    BY <2>2, DivModUnique
  <2>4. m + 1 = P * 1 + 0 /\ 1 \in Nat /\ m + 1 \in Nat
    BY <1>1, <1>3
  <2>5. (m + 1) % P = 0
    BY <2>2, <2>4, DivModUnique
  <2> QED
    BY <1>3, <2>3, <2>5 DEF d, m
<1> QED
    BY <1>1, <1>2, <1>3
-------------------------------------------------------------------------------
\* The program starts in a state that satisfies the invariant.
LEMMA InitInv == Init => Inv
<1> SUFFICES ASSUME Init PROVE Inv
    OBVIOUS
<1> USE PoolAssumption DEF Init
<1>1. TypeOK /\ MutexOwned /\ ReadIsCurrent /\ Joined
    BY DEF TypeOK, MutexOwned, ReadIsCurrent, Joined
<1>2. PermitAccounting
  <2>1. Inside = {}
    BY DEF Inside
  <2> QED
    BY <2>1, FS_EmptySet DEF PermitAccounting
<1>3. HandedOutInTurn
  <2>1. Served = {} /\ \A p \in 1 .. PRINTERS : Given(p) = {}
    BY DEF Served, Given
  <2>2. Cardinality({}) = 0
    BY FS_EmptySet
  <2>3. 0 = PRINTERS * 0 + 0 /\ 0 \in 0 .. PRINTERS - 1
    OBVIOUS
  <2>4. 0 \div PRINTERS = 0 /\ 0 % PRINTERS = 0
    BY <2>3, DivModUnique
  <2>5. ASSUME NEW p \in 1 .. PRINTERS
        PROVE  Cardinality(Given(p)) =
                   0 \div PRINTERS + (IF p <= (0 % PRINTERS) THEN 1 ELSE 0)
    <3>1. Cardinality(Given(p)) = 0
      BY <2>1, <2>2
    <3>2. ~(p <= 0) /\ 0 + 0 = 0
      OBVIOUS
    <3> QED
      BY ONLY <2>4, <3>1, <3>2
  <2> QED
    BY <2>1, <2>2, <2>4, <2>5 DEF HandedOutInTurn
<1> QED
    BY <1>1, <1>2, <1>3 DEF Inv

\* The parts of the invariant that are about single threads and the mutex.
LEMMA ThreadStep ==
    Inv /\ [Next]_vars => (TypeOK /\ MutexOwned /\ ReadIsCurrent /\ Joined)'
<1> SUFFICES ASSUME Inv, [Next]_vars
             PROVE  (TypeOK /\ MutexOwned /\ ReadIsCurrent /\ Joined)'
    OBVIOUS
<1> USE PoolAssumption
        DEF Inv, TypeOK, MutexOwned, ReadIsCurrent, Joined, Goto
<1>1. ASSUME NEW t \in Threads, SemWait(t)
      PROVE  (TypeOK /\ MutexOwned /\ ReadIsCurrent /\ Joined)'
    BY <1>1 DEF SemWait
<1>2. ASSUME NEW t \in Threads, Lock(t)
      PROVE  (TypeOK /\ MutexOwned /\ ReadIsCurrent /\ Joined)'
    BY <1>2 DEF Lock
<1>3. ASSUME NEW t \in Threads, ReadPrinter(t)
      PROVE  (TypeOK /\ MutexOwned /\ ReadIsCurrent /\ Joined)'
    BY <1>3 DEF ReadPrinter, available_printers
<1>4. ASSUME NEW t \in Threads, Advance(t)
      PROVE  (TypeOK /\ MutexOwned /\ ReadIsCurrent /\ Joined)'
  <2>1. printer_index' \in 0 .. PRINTERS - 1
    BY <1>4, DivMod DEF Advance
  <2> QED
    BY <1>4, <2>1 DEF Advance
<1>5. ASSUME NEW t \in Threads, Unlock(t)
      PROVE  (TypeOK /\ MutexOwned /\ ReadIsCurrent /\ Joined)'
    BY <1>5 DEF Unlock
<1>6. ASSUME NEW t \in Threads, SemPost(t)
      PROVE  (TypeOK /\ MutexOwned /\ ReadIsCurrent /\ Joined)'
    BY <1>6 DEF SemPost
<1>7. CASE Destroy
    BY <1>7 DEF Destroy
<1>8. CASE UNCHANGED vars
    BY <1>8 DEF vars
<1> QED
    BY <1>1, <1>2, <1>3, <1>4, <1>5, <1>6, <1>7, <1>8
    DEF Next, thread_func, Exited

\* A permit is taken or put back with every change of the threads inside.
LEMMA PermitStep == Inv /\ [Next]_vars => PermitAccounting'
<1> SUFFICES ASSUME Inv, [Next]_vars PROVE PermitAccounting'
    OBVIOUS
<1> DEFINE In == Inside
<1>1. In = {t \in Threads : pc[t] \notin {"wait", "done"}}
    BY DEF Inside
<1>2. IsFiniteSet(In) /\ Cardinality(In) \in Nat
    BY <1>1, PoolAssumption, FS_Subset, FS_CardinalityType
<1>3. /\ printer_sem \in Int /\ printer_sem >= 0
      /\ printer_sem + Cardinality(In) = PRINTERS
    BY DEF Inv, TypeOK, PermitAccounting
<1>4. In' = {t \in Threads : pc'[t] \notin {"wait", "done"}}
    BY DEF Inside
<1>5. SUFFICES /\ printer_sem' >= 0
               /\ printer_sem' + Cardinality(In') = PRINTERS
    BY DEF PermitAccounting
<1> HIDE DEF In
<1> USE DEF Goto, Inv, TypeOK
<1>6. ASSUME NEW t \in Threads, SemWait(t)
      PROVE  /\ printer_sem' >= 0
             /\ printer_sem' + Cardinality(In') = PRINTERS
  <2>1. In' = In \cup {t} /\ t \notin In
    BY <1>1, <1>4, <1>6 DEF SemWait
  <2>2. Cardinality(In') = Cardinality(In) + 1
    BY <1>2, <2>1, FS_AddElement
  <2> QED
    BY <1>2, <1>3, <1>6, <2>2, PoolAssumption DEF SemWait
<1>7. ASSUME NEW t \in Threads, SemPost(t)
      PROVE  /\ printer_sem' >= 0
             /\ printer_sem' + Cardinality(In') = PRINTERS
  <2>1. In' = In \ {t} /\ t \in In
    BY <1>1, <1>4, <1>7 DEF SemPost
  <2>2. Cardinality(In') = Cardinality(In) - 1
    BY <1>2, <2>1, FS_RemoveElement
  <2> QED
    BY <1>2, <1>3, <1>7, <2>2, PoolAssumption DEF SemPost
<1>8. ASSUME In' = In, printer_sem' = printer_sem
      PROVE  /\ printer_sem' >= 0
             /\ printer_sem' + Cardinality(In') = PRINTERS
    BY <1>3, <1>8
<1>9. ASSUME NEW t \in Threads, Lock(t) \/ ReadPrinter(t) \/ Advance(t) \/ Unlock(t)
      PROVE  In' = In /\ printer_sem' = printer_sem
    BY <1>1, <1>4, <1>9 DEF Lock, ReadPrinter, Advance, Unlock
<1>10. ASSUME Destroy \/ UNCHANGED vars
       PROVE  In' = In /\ printer_sem' = printer_sem
    BY <1>1, <1>4, <1>10 DEF Destroy, vars
<1> QED
    BY <1>6, <1>7, <1>8, <1>9, <1>10 DEF Next, thread_func, Exited

\* Only the increment of the index serves a thread, with the printer in turn.
LEMMA TurnStep == Inv /\ [Next]_vars => HandedOutInTurn'
<1> SUFFICES ASSUME Inv, [Next]_vars PROVE HandedOutInTurn'
    OBVIOUS
<1> DEFINE n == Cardinality(Served)
           Rounds(p, k) == k \div PRINTERS + (IF p <= (k % PRINTERS) THEN 1 ELSE 0)
<1>1. IsFiniteSet(Served) /\ n \in Nat
    BY PoolAssumption, FS_Subset, FS_CardinalityType DEF Served
<1>2. ASSUME NEW p \in 1 .. PRINTERS
      PROVE  IsFiniteSet(Given(p)) /\ Cardinality(Given(p)) = Rounds(p, n)
    BY <1>1, FS_Subset DEF Given, Inv, HandedOutInTurn
<1>3. printer_index = n % PRINTERS
    BY DEF Inv, HandedOutInTurn
<1>4. ASSUME UNCHANGED printer_index, Served' = Served,
             \A p \in 1 .. PRINTERS : Given(p)' = Given(p)
      PROVE  HandedOutInTurn'
    BY <1>2, <1>3, <1>4 DEF HandedOutInTurn
<1>5. ASSUME NEW t \in Threads,
             SemWait(t) \/ Lock(t) \/ ReadPrinter(t) \/ Unlock(t) \/ SemPost(t)
      PROVE  /\ UNCHANGED printer_index /\ Served' = Served
             /\ \A p \in 1 .. PRINTERS : Given(p)' = Given(p)
  <2> USE DEF Served, Given, Goto, Inv, TypeOK
  <2>1. CASE SemWait(t)
    BY <2>1 DEF SemWait
  <2>2. CASE Lock(t)
    BY <2>2 DEF Lock
  <2>3. CASE ReadPrinter(t)
    BY <2>3 DEF ReadPrinter
  <2>4. CASE Unlock(t)
    BY <2>4 DEF Unlock
  <2>5. CASE SemPost(t)
    BY <2>5 DEF SemPost
  <2> QED
    BY <1>5, <2>1, <2>2, <2>3, <2>4, <2>5
<1>6. ASSUME Destroy \/ UNCHANGED vars
      PROVE  /\ UNCHANGED printer_index /\ Served' = Served
             /\ \A p \in 1 .. PRINTERS : Given(p)' = Given(p)
    BY <1>6 DEF Destroy, vars, Served, Given
<1>7. ASSUME NEW t \in Threads, Advance(t) PROVE HandedOutInTurn'
  <2>1. /\ pc[t] = "advance" /\ printer_id[t] = printer_index + 1
        /\ pc' = [pc EXCEPT ![t] = "unlock"] /\ printer_id' = printer_id
        /\ printer_index' = (printer_index + 1) % PRINTERS
        /\ printer_index \in 0 .. PRINTERS - 1
    BY <1>7 DEF Advance, Goto, Inv, ReadIsCurrent, TypeOK
  <2>2. Served' = Served \cup {t} /\ t \notin Served
    BY <2>1 DEF Served, Inv, TypeOK
  <2>3. n' = n + 1
    BY <1>1, <2>2, FS_AddElement
  <2>4. printer_index' = n' % PRINTERS
    BY <1>1, <1>3, <2>1, <2>3, PoolAssumption, DivModSucc
  <2>5. ASSUME NEW p \in 1 .. PRINTERS
        PROVE  Given(p)' = IF p = printer_index + 1 THEN Given(p) \cup {t} ELSE Given(p)
    BY <2>1, <2>2 DEF Given
  <2>6. ASSUME NEW p \in 1 .. PRINTERS
        PROVE  Cardinality(Given(p)') =
                 IF p = printer_index + 1 THEN Rounds(p, n) + 1 ELSE Rounds(p, n)
    <3>1. t \notin Given(p)
      BY <2>2 DEF Given
    <3> QED
      BY <1>2, <2>5, <3>1, FS_AddElement
  <2>7. ASSUME NEW p \in 1 .. PRINTERS
        PROVE  Rounds(p, n + 1) =
                 IF p = printer_index + 1 THEN Rounds(p, n) + 1 ELSE Rounds(p, n)
    <3>1. n % PRINTERS \in 0 .. PRINTERS - 1 /\ n \div PRINTERS \in Nat
      BY <1>1, PoolAssumption, DivMod
    <3>2. CASE (n % PRINTERS) + 1 < PRINTERS
      <4>1. (n + 1) \div PRINTERS = n \div PRINTERS
        BY <1>1, <3>2, PoolAssumption, DivModSucc
      <4>2. (n + 1) % PRINTERS = (n % PRINTERS) + 1
        BY <1>1, <3>2, PoolAssumption, DivModSucc
      <4> QED
        BY <1>3, <3>1, <4>1, <4>2
    <3>3. CASE (n % PRINTERS) + 1 = PRINTERS
      <4>1. (n + 1) \div PRINTERS = n \div PRINTERS + 1
        BY <1>1, <3>3, PoolAssumption, DivModSucc
      <4>2. (n + 1) % PRINTERS = 0
        BY <1>1, <3>3, PoolAssumption, DivModSucc
      <4> QED
        BY <1>3, <3>1, <3>3, <4>1, <4>2
    <3> QED
      BY <3>1, <3>2, <3>3, PoolAssumption
  <2> QED
    BY <2>3, <2>4, <2>6, <2>7 DEF HandedOutInTurn
<1> QED
    BY <1>4, <1>5, <1>6, <1>7 DEF Next, thread_func, Exited
-------------------------------------------------------------------------------
\* Every reachable state satisfies the inductive invariant.
THEOREM Invariance == SafeSpec => []Inv
<1>1. Inv /\ [Next]_vars => Inv'
    BY ThreadStep, PermitStep, TurnStep DEF Inv
<1> QED
    BY InitInv, <1>1, PTL DEF SafeSpec

\* The index that get_printer reads the table with never leaves the table.
THEOREM TypesHold == SafeSpec => []TypeOK
<1>1. Inv => TypeOK
    BY DEF Inv
<1> QED
    BY Invariance, <1>1, PTL

\* The printers are handed out strictly in turn.
THEOREM TurnsKept == SafeSpec => []HandedOutInTurn
<1>1. Inv => HandedOutInTurn
    BY DEF Inv
<1> QED
    BY Invariance, <1>1, PTL

\* Never more threads between sem_wait and sem_post than printers, and main
\* destroys a semaphore with all its permits and a free mutex.
THEOREM SemaphoreIsSafe == SafeSpec => []SafeSemaphore
<1>1. Inv => SafeDestroy
  <2> SUFFICES ASSUME Inv, main = "exit"
               PROVE  /\ printer_sem = PRINTERS
                      /\ printer_mutex = Nobody
                      /\ \A t \in Threads : pc[t] = "done"
      BY DEF SafeDestroy
  <2>1. \A t \in Threads : pc[t] = "done"
      BY DEF Inv, Joined
  <2>2. printer_mutex = Nobody
      BY <2>1 DEF Inv, TypeOK, MutexOwned
  <2>3. Inside = {}
      BY <2>1 DEF Inside
  <2>4. printer_sem = PRINTERS
      BY <2>3, FS_EmptySet DEF Inv, TypeOK, PermitAccounting
  <2> QED
      BY <2>1, <2>2, <2>4
<1>2. Inv => SafeSemaphore
    BY <1>1 DEF Inv, SafeSemaphore
<1> QED
    BY Invariance, <1>2, PTL

\* Every behaviour of the program is one of the semaphore section.
THEOREM SectionImplemented == SafeSpec => Section!SafeSpec
<1>1. Init => Section!Init
    BY DEF Init, Section!Init, Stage
<1>2. Inv /\ [Next]_vars => [Section!Next]_(Section!sectionVars)
  <2> SUFFICES ASSUME Inv, [Next]_vars
               PROVE  [Section!Next]_(Section!sectionVars)
      OBVIOUS
  <2> USE DEF Goto, Inv, TypeOK, Stage
  <2>1. ASSUME NEW t \in Threads, SemWait(t) PROVE Section!SemWait(t)
      BY <2>1 DEF SemWait, Section!SemWait
  <2>2. ASSUME NEW t \in Threads, SemPost(t) PROVE Section!SemPost(t)
      BY <2>2 DEF SemPost, Section!SemPost
  <2>3. ASSUME NEW t \in Threads,
               Lock(t) \/ ReadPrinter(t) \/ Advance(t) \/ Unlock(t)
        PROVE  UNCHANGED Section!sectionVars
      BY <2>3 DEF Lock, ReadPrinter, Advance, Unlock, Section!sectionVars
  <2>4. ASSUME Destroy PROVE Section!Destroy
      BY <2>4 DEF Destroy, Section!Destroy
  <2>5. ASSUME UNCHANGED vars PROVE UNCHANGED Section!sectionVars
      BY <2>5 DEF vars, Section!sectionVars
  <2> QED
      BY <2>1, <2>2, <2>3, <2>4, <2>5
      DEF Next, thread_func, Exited, Section!Next
<1> QED
    BY <1>1, <1>2, Invariance, PTL DEF SafeSpec, Section!SafeSpec
===============================================================================
