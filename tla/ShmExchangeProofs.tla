--------------------------- MODULE ShmExchangeProofs ---------------------------
(***************************************************************************)
(* Proofs about ShmExchange for every set of runs of the two programs,     *)
(* also infinite ones: only finitely many have begun at any time.          *)
(***************************************************************************)
EXTENDS ShmExchangeProps, FiniteSetTheorems, SequenceTheorems, TLAPS

Segment == [text : Texts, attached : SUBSET Processes, removed : BOOLEAN]

\* Where a run stands once it has looked up the segment, and the semaphore.
PastSegment == PCs \ {"shmget", "refused"}
PastSemaphore == PCs \ {"shmget", "semget", "refused", "killed"}

\* What a run has looked up is there when the run uses it.
LookedUp == \A p \in Processes :
                /\ pc[p] \in PastSegment => shmid[p] # 0
                /\ pc[p] \in PastSemaphore => semid[p] # 0

\* While a writer stores, its segment holds bytes and not a whole message.
StoringBytes == \A w \in Writers :
                    pc[w] = "storing" =>
                        shm[shmid[w]].text \in SUBSET Writers

\* Only finitely many runs have begun.
FinitelyMany == IsFiniteSet({p \in Processes : pc[p] # "shmget"})

TypeInv == TypeOK /\ LookedUp /\ StoringBytes /\ FinitelyMany
-------------------------------------------------------------------------------
\* The next-state relation as the list of what a step can be.
LEMMA NextCases ==
    ASSUME [Next]_vars
    PROVE  \/ \E w \in Writers :
                 \/ CreateSegment(w) \/ CreateSemaphore(w)
                 \/ SetVal(w) \/ SetValFails(w) \/ CreateFails(w)
                 \/ BeginStore(w) \/ EndStore(w) \/ NoInput(w)
                 \/ Post(w) \/ PostFails(w)
                 \/ FindSemaphore(w, "setval") \/ Attach(w, "fgets")
                 \/ Detach(w, "done")
           \/ \E r \in Readers :
                 \/ Refuse(r) \/ Pass(r) \/ WaitFails(r) \/ PrintText(r)
                 \/ RemoveSegment(r) \/ RemoveSemaphore(r)
                 \/ FindSemaphore(r, "semop") \/ Attach(r, "printf")
                 \/ Detach(r, "rmshm")
           \/ \E p \in Processes : FindSegment(p) \/ AttachFails(p) \/ Kill(p)
           \/ UNCHANGED vars
  BY DEF Next, Writer, Reader, AllEnded, Processes

\* A run that takes a step changes no other run's program counter.
LEMMA FiniteStep == FinitelyMany /\ TypeOK /\ [Next]_vars => FinitelyMany'
<1> SUFFICES ASSUME FinitelyMany, TypeOK, [Next]_vars PROVE FinitelyMany'
    OBVIOUS
<1> DEFINE B == {p \in Processes : pc[p] # "shmget"}
<1>1. \/ UNCHANGED pc
      \/ \E p \in Processes, st \in PCs : pc' = [pc EXCEPT ![p] = st]
    BY NextCases
    DEF CreateSegment, CreateSemaphore, SetVal, SetValFails, CreateFails, BeginStore,
        EndStore, NoInput, Post, PostFails, FindSemaphore, Attach, Detach,
        Refuse, Pass, WaitFails, PrintText, RemoveSegment, RemoveSemaphore,
        FindSegment, AttachFails, Kill, Fail, Step, vars, Processes, PCs, Ended
<1>2. PICK p : B' \subseteq B \cup {p}
    BY <1>1 DEF TypeOK
<1>3. IsFiniteSet(B \cup {p})
    BY FS_AddElement DEF FinitelyMany
<1> QED
    BY <1>2, <1>3, FS_Subset DEF FinitelyMany

\* Every step keeps the types: what is changed exists.
LEMMA TypeStep == TypeInv /\ [Next]_vars => TypeOK'
<1> SUFFICES ASSUME TypeInv, [Next]_vars PROVE TypeOK'
    OBVIOUS
<1> USE DEF TypeInv, TypeOK, Step, PCs, Ended, Fail, objects
<1>1. /\ shm \in Seq(Segment) /\ Len(shm) \in Nat
      /\ sem \in Seq(Nat \cup {Removed}) /\ Len(sem) \in Nat
      /\ shm_key \in 0 .. Len(shm) /\ sem_key \in 0 .. Len(sem)
    BY LenProperties DEF Segment
<1>2. ASSUME NEW p \in Processes, pc[p] \in PastSegment
      PROVE  shmid[p] \in 1 .. Len(shm) /\ shm[shmid[p]] \in Segment
    BY <1>1, <1>2, ElementOfSeq DEF LookedUp
<1>3. ASSUME NEW p \in Processes, pc[p] \in PastSemaphore
      PROVE  semid[p] \in 1 .. Len(sem) /\ sem[semid[p]] \in Nat \cup {Removed}
    BY <1>1, <1>3, ElementOfSeq DEF LookedUp
<1>4. ASSUME NEW s \in 1 .. Len(shm), NEW e \in Segment,
             shm' = [shm EXCEPT ![s] = e]
      PROVE  shm' \in Seq(Segment) /\ Len(shm') = Len(shm)
    BY <1>1, <1>4, ExceptSeq
<1>5. ASSUME NEW s \in 1 .. Len(sem), NEW n \in Nat \cup {Removed},
             sem' = [sem EXCEPT ![s] = n]
      PROVE  sem' \in Seq(Nat \cup {Removed}) /\ Len(sem') = Len(sem)
    BY <1>1, <1>5, ExceptSeq
<1>7. Writers \subseteq Processes /\ Readers \subseteq Processes
    BY DEF Processes
<1> USE <1>7
<1>10. ASSUME NEW w \in Writers, CreateSegment(w) PROVE TypeOK'
  <2>1. [text |-> Blank, attached |-> {}, removed |-> FALSE] \in Segment
    BY DEF Segment, Texts, Blank
  <2>2. shm' \in Seq(Segment) /\ Len(shm') = Len(shm) + 1
    BY <1>1, <1>10, <2>1 DEF CreateSegment
  <2> QED
    BY <1>1, <1>10, <2>2 DEF CreateSegment, Segment
<1>11. ASSUME NEW w \in Writers, CreateSemaphore(w) PROVE TypeOK'
  <2>1. sem' \in Seq(Nat \cup {Removed}) /\ Len(sem') = Len(sem) + 1
    BY <1>1, <1>11 DEF CreateSemaphore
  <2> QED
    BY <1>1, <1>11, <2>1 DEF CreateSemaphore
<1>12. ASSUME NEW w \in Writers, SetVal(w) PROVE TypeOK'
  <2>1. sem' \in Seq(Nat \cup {Removed}) /\ Len(sem') = Len(sem)
    BY <1>3, <1>5, <1>12 DEF SetVal, PastSemaphore
  <2> QED
    BY <1>12, <2>1 DEF SetVal
<1>13. ASSUME NEW w \in Writers, Post(w) PROVE TypeOK'
  <2>1. semid[w] \in 1 .. Len(sem) /\ sem[semid[w]] \in Nat \cup {Removed}
    BY <1>3, <1>13 DEF Post, PastSemaphore
  <2>2. sem[semid[w]] + 1 \in Nat
    BY <1>13, <2>1 DEF Post, Removed
  <2>3. sem' \in Seq(Nat \cup {Removed}) /\ Len(sem') = Len(sem)
    BY <1>5, <1>13, <2>1, <2>2 DEF Post
  <2> QED
    BY <1>13, <2>3 DEF Post
<1>14. ASSUME NEW w \in Writers,
              SetValFails(w) \/ CreateFails(w) \/ PostFails(w) \/ NoInput(w)
       PROVE  TypeOK'
    BY <1>14 DEF SetValFails, CreateFails, PostFails, NoInput
<1>15. ASSUME NEW w \in Writers, BeginStore(w) PROVE TypeOK'
  <2>1. shmid[w] \in 1 .. Len(shm) /\ shm[shmid[w]] \in Segment
    BY <1>2, <1>15 DEF BeginStore, PastSegment
  <2>2. \/ Storing(shmid[w]) = {}
        \/ shm[shmid[w]].text \in SUBSET Writers
    BY DEF StoringBytes, Storing
  <2>3. PICK t \in Texts : shm' = [shm EXCEPT ![shmid[w]].text = t]
    BY <1>15, <2>2 DEF BeginStore, Texts
  <2>4. shm' \in Seq(Segment) /\ Len(shm') = Len(shm)
    BY <1>4, <2>1, <2>3 DEF Segment
  <2> QED
    BY <1>15, <2>4 DEF BeginStore, Segment
<1>16. ASSUME NEW w \in Writers, EndStore(w) PROVE TypeOK'
  <2>1. shmid[w] \in 1 .. Len(shm) /\ shm[shmid[w]] \in Segment
    BY <1>2, <1>16 DEF EndStore, PastSegment
  <2>2. shm[shmid[w]].text \in SUBSET Writers
    BY <1>16 DEF StoringBytes, EndStore
  <2>3. \/ UNCHANGED shm
        \/ \E t \in Texts : shm' = [shm EXCEPT ![shmid[w]].text = t]
    BY <1>16, <2>2 DEF EndStore, Texts
  <2>4. shm' \in Seq(Segment) /\ Len(shm') = Len(shm)
    BY <1>1, <1>4, <2>1, <2>3 DEF Segment
  <2> QED
    BY <1>16, <2>4 DEF EndStore, Segment
<1>17. ASSUME NEW p \in Processes, FindSegment(p) PROVE TypeOK'
    BY <1>1, <1>17 DEF FindSegment
<1>18. ASSUME NEW p \in Processes, NEW next \in {"setval", "semop"},
              FindSemaphore(p, next)
       PROVE  TypeOK'
    BY <1>1, <1>18 DEF FindSemaphore
<1>19. ASSUME NEW p \in Processes, NEW next \in {"fgets", "printf"},
              Attach(p, next)
       PROVE  TypeOK'
  <2>1. shmid[p] \in 1 .. Len(shm) /\ shm[shmid[p]] \in Segment
    BY <1>2, <1>19 DEF Attach, PastSegment
  <2>2. shm' \in Seq(Segment) /\ Len(shm') = Len(shm)
    BY <1>4, <1>19, <2>1 DEF Attach, Segment
  <2> QED
    BY <1>19, <2>2 DEF Attach, Segment
<1>20. ASSUME NEW p \in Processes, NEW next \in {"done", "rmshm"},
              Detach(p, next)
       PROVE  TypeOK'
  <2>1. shmid[p] \in 1 .. Len(shm) /\ shm[shmid[p]] \in Segment
    BY <1>2, <1>20 DEF Detach, PastSegment
  <2>2. shm' \in Seq(Segment) /\ Len(shm') = Len(shm)
    BY <1>4, <1>20, <2>1 DEF Detach, Segment
  <2> QED
    BY <1>20, <2>2 DEF Detach, Segment
<1>21. ASSUME NEW p \in Processes, AttachFails(p) PROVE TypeOK'
    BY <1>21 DEF AttachFails
<1>22. ASSUME NEW p \in Processes, Kill(p) PROVE TypeOK'
  <2> DEFINE e(s) == [shm[s] EXCEPT !.attached = @ \ {p}]
  <2>1. ASSUME NEW s \in 1 .. Len(shm) PROVE e(s) \in Segment
    <3>1. shm[s] \in Segment
      BY <1>1, ElementOfSeq
    <3> QED
      BY <3>1 DEF Segment
  <2>2. DOMAIN shm = 1 .. Len(shm)
    BY <1>1, LenProperties
  <2>3. shm' = [s \in 1 .. Len(shm) |-> e(s)]
    BY <1>22, <2>2 DEF Kill
  <2>4. shm' \in [1 .. Len(shm) -> Segment]
    BY <2>1, <2>3
  <2>5. shm' \in Seq(Segment) /\ Len(shm') = Len(shm)
    BY <1>1, <2>4, SeqDef
  <2> QED
    BY <1>22, <2>5 DEF Kill, Segment
<1>23. ASSUME NEW r \in Readers, Refuse(r) \/ WaitFails(r) PROVE TypeOK'
    BY <1>23 DEF Refuse, WaitFails
<1>24. ASSUME NEW r \in Readers, Pass(r) PROVE TypeOK'
  <2>1. semid[r] \in 1 .. Len(sem) /\ sem[semid[r]] \in Nat \cup {Removed}
    BY <1>3, <1>24 DEF Pass, PastSemaphore
  <2>2. sem[semid[r]] - 1 \in Nat
    BY <1>24, <2>1 DEF Pass, Removed
  <2>3. sem' \in Seq(Nat \cup {Removed}) /\ Len(sem') = Len(sem)
    BY <1>5, <1>24, <2>1, <2>2 DEF Pass
  <2> QED
    BY <1>24, <2>3 DEF Pass
<1>25. ASSUME NEW r \in Readers, PrintText(r) PROVE TypeOK'
  <2>1. shmid[r] \in 1 .. Len(shm) /\ shm[shmid[r]] \in Segment
    BY <1>2, <1>25 DEF PrintText, PastSegment
  <2>2. PICK t \in Texts : printed' = [printed EXCEPT ![r] = {t}]
    BY <1>25, <2>1 DEF PrintText, Storing, Texts, Segment
  <2>3. printed' \in [Readers -> SUBSET Texts]
    BY <2>2
  <2> QED
    BY <1>25, <2>3 DEF PrintText
<1>26. ASSUME NEW r \in Readers, RemoveSegment(r) PROVE TypeOK'
  <2>1. shmid[r] \in 1 .. Len(shm) /\ shm[shmid[r]] \in Segment
    BY <1>2, <1>26 DEF RemoveSegment, PastSegment
  <2>2. shm' \in Seq(Segment) /\ Len(shm') = Len(shm)
    BY <1>4, <1>26, <2>1 DEF RemoveSegment, Segment
  <2>3. shm_key' \in 0 .. Len(shm')
    BY <1>1, <1>26, <2>2 DEF RemoveSegment
  <2> QED
    BY <1>26, <2>2, <2>3 DEF RemoveSegment, Segment
<1>27. ASSUME NEW r \in Readers, RemoveSemaphore(r) PROVE TypeOK'
  <2>1. sem' \in Seq(Nat \cup {Removed}) /\ Len(sem') = Len(sem)
    BY <1>3, <1>5, <1>27 DEF RemoveSemaphore, PastSemaphore
  <2> QED
    BY <1>27, <2>1 DEF RemoveSemaphore
<1>28. CASE UNCHANGED vars
    BY <1>28 DEF vars, Segment
<1> QED
    BY <1>10, <1>11, <1>12, <1>13, <1>14, <1>15, <1>16, <1>17, <1>18, <1>19,
       <1>20, <1>21, <1>22, <1>23, <1>24, <1>25, <1>26, <1>27, <1>28, NextCases

\* Only a writer's store changes a text, and only a new segment adds one.
LEMMA TextStep ==
    ASSUME TypeInv, [Next]_vars,
           \A w \in Writers : ~CreateSegment(w) /\ ~BeginStore(w) /\ ~EndStore(w)
    PROVE  /\ Len(shm') = Len(shm)
           /\ \A s \in 1 .. Len(shm) : shm'[s].text = shm[s].text
<1> DEFINE Same == /\ Len(shm') = Len(shm)
                   /\ \A s \in 1 .. Len(shm) : shm'[s].text = shm[s].text
<1>1. /\ shm \in Seq(Segment) /\ Len(shm) \in Nat
      /\ DOMAIN shm = 1 .. Len(shm)
    BY LenProperties DEF TypeInv, TypeOK, Segment
<1>2. \A s \in 1 .. Len(shm) : shm[s] \in Segment
    BY <1>1, ElementOfSeq
<1>3. ASSUME NEW p \in Processes, pc[p] \in PastSegment
      PROVE  shmid[p] \in 1 .. Len(shm)
    BY <1>3 DEF TypeInv, TypeOK, LookedUp
<1>4. ASSUME UNCHANGED shm PROVE Same
    BY <1>1, <1>4
<1>5. ASSUME NEW s \in 1 .. Len(shm), NEW e \in Segment,
             shm' = [shm EXCEPT ![s] = e], e.text = shm[s].text
      PROVE  Same
    BY <1>1, <1>5, ExceptSeq
<1>6. ASSUME NEW p \in Processes, NEW next \in {"fgets", "printf"},
             Attach(p, next)
      PROVE  Same
    BY <1>2, <1>3, <1>5, <1>6 DEF Attach, Step, PastSegment, PCs, Segment
<1>7. ASSUME NEW p \in Processes, NEW next \in {"done", "rmshm"},
             Detach(p, next)
      PROVE  Same
    BY <1>2, <1>3, <1>5, <1>7 DEF Detach, Step, PastSegment, PCs, Segment
<1>8. ASSUME NEW r \in Readers, RemoveSegment(r) PROVE Same
    BY <1>2, <1>3, <1>5, <1>8
    DEF RemoveSegment, Step, PastSegment, PCs, Segment, Processes
<1>9. ASSUME NEW p \in Processes, Kill(p) PROVE Same
  <2>1. shm' = [s \in 1 .. Len(shm) |-> [shm[s] EXCEPT !.attached = @ \ {p}]]
    BY <1>1, <1>9 DEF Kill
  <2>2. ASSUME NEW s \in 1 .. Len(shm)
        PROVE  [shm[s] EXCEPT !.attached = @ \ {p}] \in Segment
    <3>1. shm[s] \in Segment
      BY <1>2
    <3> QED
      BY <3>1 DEF Segment
  <2>3. shm' \in [1 .. Len(shm) -> Segment]
    BY <2>1, <2>2
  <2>4. Len(shm') = Len(shm)
    BY <1>1, <2>3, SeqDef, LenProperties
  <2>5. ASSUME NEW s \in 1 .. Len(shm) PROVE shm'[s].text = shm[s].text
    <3>1. shm[s] \in Segment
      BY <1>2
    <3> QED
      BY <2>1, <3>1 DEF Segment
  <2> QED
    BY <1>1, <2>4, <2>5
<1>10. ASSUME NEW w \in Writers,
              \/ CreateSemaphore(w) \/ CreateFails(w)
              \/ SetVal(w) \/ SetValFails(w) \/ NoInput(w)
              \/ Post(w) \/ PostFails(w) \/ FindSemaphore(w, "setval")
       PROVE  UNCHANGED shm
    BY <1>10 DEF CreateSemaphore, CreateFails, SetVal, SetValFails, NoInput,
                 Post, PostFails, FindSemaphore, Fail, objects
<1>11. ASSUME NEW r \in Readers,
              \/ Refuse(r) \/ Pass(r) \/ WaitFails(r) \/ PrintText(r)
              \/ RemoveSemaphore(r) \/ FindSemaphore(r, "semop")
       PROVE  UNCHANGED shm
    BY <1>11 DEF Refuse, Pass, WaitFails, PrintText, RemoveSemaphore,
                 FindSemaphore, Fail, objects
<1>12. ASSUME NEW p \in Processes, FindSegment(p) \/ AttachFails(p)
       PROVE  UNCHANGED shm
    BY <1>12 DEF FindSegment, AttachFails, Fail, objects
<1>13. UNCHANGED vars => UNCHANGED shm
    BY DEF vars, objects
<1> HIDE DEF Same
<1>14. Same
    BY <1>4, <1>6, <1>7, <1>8, <1>9, <1>10, <1>11, <1>12, <1>13, NextCases
    DEF Processes
<1> QED
    BY <1>14 DEF Same

\* An identifier, once there, stays there while it may be used.
LEMMA LookUpStep == TypeInv /\ [Next]_vars => LookedUp'
<1> SUFFICES ASSUME TypeInv, [Next]_vars PROVE LookedUp'
    OBVIOUS
<1> USE DEF TypeInv, TypeOK, LookedUp, PastSegment, PastSemaphore, PCs, Ended,
            Step, Fail, Processes
<1>1. Len(shm) \in Nat /\ Len(sem) \in Nat
    BY LenProperties
<1>2. ASSUME NEW w \in Writers, CreateSegment(w) PROVE LookedUp'
    BY <1>1, <1>2 DEF CreateSegment
<1>3. ASSUME NEW w \in Writers, CreateSemaphore(w) PROVE LookedUp'
  <2>1. semid' = [semid EXCEPT ![w] = Len(sem) + 1]
    BY <1>3 DEF CreateSemaphore
  <2>2. Len(sem) + 1 # 0
    BY <1>1
  <2> QED
    BY <1>3, <2>1, <2>2 DEF CreateSemaphore
<1>4. ASSUME NEW w \in Writers,
             \/ SetVal(w) \/ SetValFails(w) \/ CreateFails(w)
             \/ BeginStore(w) \/ EndStore(w) \/ NoInput(w)
             \/ Post(w) \/ PostFails(w)
      PROVE  LookedUp'
    BY ZenonT(40), <1>4
    DEF SetVal, SetValFails, CreateFails, BeginStore, EndStore, NoInput, Post, PostFails
<1>5. ASSUME NEW r \in Readers,
             \/ Refuse(r) \/ Pass(r) \/ WaitFails(r) \/ PrintText(r)
             \/ RemoveSegment(r) \/ RemoveSemaphore(r)
      PROVE  LookedUp'
    BY ZenonT(40), <1>5 DEF Refuse, Pass, WaitFails, PrintText, RemoveSegment,
                RemoveSemaphore
<1>6. ASSUME NEW p \in Processes,
             FindSegment(p) \/ AttachFails(p) \/ Kill(p)
      PROVE  LookedUp'
    BY ZenonT(40), <1>6 DEF FindSegment, AttachFails, Kill
<1>7. ASSUME NEW p \in Processes, NEW next \in PCs,
             FindSemaphore(p, next) \/ Attach(p, next) \/ Detach(p, next)
      PROVE  LookedUp'
    BY ZenonT(40), <1>7 DEF FindSemaphore, Attach, Detach
<1>8. CASE UNCHANGED vars
    BY <1>8 DEF vars
<1> QED
    BY <1>2, <1>3, <1>4, <1>5, <1>6, <1>7, <1>8, NextCases

\* Bytes that overlap do not become a whole message while one of the writers
\* still stores.
LEMMA StoringStep == TypeInv /\ [Next]_vars => StoringBytes'
<1> SUFFICES ASSUME TypeInv, [Next]_vars,
                    NEW v \in Writers, pc'[v] = "storing"
             PROVE  shm'[shmid'[v]].text \in SUBSET Writers
    BY DEF StoringBytes
<1>1. /\ shm \in Seq(Segment) /\ Len(shm) \in Nat
      /\ pc \in [Processes -> PCs] /\ v \in Processes
      /\ shmid \in [Processes -> 0 .. Len(shm)]
    BY LenProperties DEF TypeInv, TypeOK, Segment, Processes
<1>2. ASSUME NEW w \in Processes, pc[w] \in PastSegment
      PROVE  shmid[w] \in 1 .. Len(shm) /\ shm[shmid[w]] \in Segment
    BY <1>1, <1>2, ElementOfSeq DEF TypeInv, LookedUp
<1>3. ASSUME pc[v] = "storing", UNCHANGED shmid
      PROVE  /\ shmid'[v] = shmid[v] /\ shmid[v] \in 1 .. Len(shm)
             /\ shm[shmid[v]].text \in SUBSET Writers
    BY <1>1, <1>2, <1>3 DEF TypeInv, StoringBytes, PastSegment, PCs
<1>4. ASSUME NEW w \in Writers, BeginStore(w)
      PROVE  shm'[shmid'[v]].text \in SUBSET Writers
  <2> DEFINE s == shmid[w]
  <2>1. /\ s \in 1 .. Len(shm) /\ shm[s] \in Segment
        /\ UNCHANGED shmid
        /\ v = w \/ pc[v] = "storing"
    BY <1>1, <1>2, <1>4 DEF BeginStore, Step, PastSegment, PCs, Processes, Ended
  <2>2. \/ Storing(s) = {}
        \/ shm[s].text \in SUBSET Writers
    BY DEF TypeInv, StoringBytes, Storing
  <2>3. PICK t \in SUBSET Writers : shm' = [shm EXCEPT ![s].text = t]
    BY <1>4, <2>2 DEF BeginStore
  <2>4. [shm[s] EXCEPT !.text = t] \in Segment
    BY <2>1 DEF Segment, Texts
  <2>5. \A k \in 1 .. Len(shm) :
            shm'[k].text = IF k = s THEN t ELSE shm[k].text
    BY <1>1, <2>1, <2>3, <2>4, ExceptSeq DEF Segment
  <2> QED
    BY <1>3, <2>1, <2>5
<1>5. ASSUME NEW w \in Writers, EndStore(w)
      PROVE  shm'[shmid'[v]].text \in SUBSET Writers
  <2> DEFINE s == shmid[w]
  <2>1. /\ s \in 1 .. Len(shm) /\ shm[s] \in Segment
        /\ UNCHANGED shmid
        /\ v # w /\ pc[v] = "storing"
    BY <1>1, <1>2, <1>5 DEF EndStore, Step, PastSegment, PCs, Processes, Ended
  <2>2. shm[s].text \in SUBSET Writers
    BY <1>5 DEF EndStore, Step, TypeInv, StoringBytes
  <2>3. CASE UNCHANGED shm
    BY <1>3, <2>1, <2>3
  <2>4. CASE Storing(s) = {w}
    <3>1. shmid[v] # s
      BY <2>1, <2>4 DEF Storing
    <3>2. PICK t \in Texts : shm' = [shm EXCEPT ![s].text = t]
      BY <1>5, <2>2, <2>4 DEF EndStore, Texts
    <3>3. [shm[s] EXCEPT !.text = t] \in Segment
      BY <2>1 DEF Segment
    <3>4. shm'[shmid[v]] = shm[shmid[v]]
      BY <1>1, <1>3, <2>1, <3>1, <3>2, <3>3, ExceptSeq
    <3> QED
      BY <1>3, <2>1, <3>4
  <2> QED
    BY <1>5, <2>3, <2>4 DEF EndStore
<1>6. ASSUME NEW w \in Writers, CreateSegment(w)
      PROVE  shm'[shmid'[v]].text \in SUBSET Writers
  <2>1. pc[v] = "storing" /\ v # w /\ shmid'[v] = shmid[v]
    BY <1>1, <1>6 DEF CreateSegment, Step
  <2>2. shmid[v] \in 1 .. Len(shm) /\ shm[shmid[v]].text \in SUBSET Writers
    BY <1>2, <2>1, <1>1 DEF TypeInv, StoringBytes, PastSegment, PCs, Ended
  <2>3. shm'[shmid[v]] = shm[shmid[v]]
    BY <1>1, <1>6, <2>2 DEF CreateSegment
  <2> QED
    BY <2>1, <2>2, <2>3
<1>7. ASSUME \A w \in Writers : ~CreateSegment(w) /\ ~BeginStore(w) /\ ~EndStore(w)
      PROVE  shm'[shmid'[v]].text \in SUBSET Writers
  <2>1. /\ Len(shm) = Len(shm')
        /\ \A s \in 1 .. Len(shm) : shm'[s].text = shm[s].text
    BY <1>7, TextStep
  <2>2. pc[v] = "storing" /\ shmid'[v] = shmid[v]
    BY <1>1, <1>7, NextCases
    DEF CreateSemaphore, SetVal, SetValFails, CreateFails, NoInput, Post,
        PostFails, FindSemaphore, Attach, Detach, Refuse, Pass, WaitFails,
        PrintText, RemoveSegment, RemoveSemaphore, FindSegment, AttachFails,
        Kill, Fail, Step, vars, Processes, PCs, Ended
  <2>3. shmid[v] \in 1 .. Len(shm) /\ shm[shmid[v]].text \in SUBSET Writers
    BY <1>1, <1>2, <2>2 DEF TypeInv, StoringBytes, PastSegment, PCs
  <2> QED
    BY <2>1, <2>2, <2>3
<1> QED
    BY <1>4, <1>5, <1>6, <1>7

\* A fresh system: nothing has been created and nobody has begun.
LEMMA InitTypes == Init => TypeInv
<1> SUFFICES ASSUME Init PROVE TypeInv
    OBVIOUS
<1> USE DEF Init
<1>1. TypeOK
    BY DEF TypeOK, PCs, Processes
<1>2. LookedUp /\ StoringBytes
    BY DEF LookedUp, StoringBytes, PastSegment, PastSemaphore, Processes
<1>3. FinitelyMany
  <2>1. {p \in Processes : pc[p] # "shmget"} = {}
    OBVIOUS
  <2> QED
    BY <2>1, FS_EmptySet DEF FinitelyMany
<1> QED
    BY <1>1, <1>2, <1>3 DEF TypeInv

\* The inductive invariant behind the types holds throughout.
LEMMA TypeInvariant == SafeSpec => []TypeInv
<1>1. TypeInv /\ [Next]_vars => TypeInv'
    BY TypeStep, LookUpStep, StoringStep, FiniteStep DEF TypeInv
<1> QED
    BY <1>1, InitTypes, PTL DEF SafeSpec

\* The identifiers that the programs work with are always those of objects
\* that were created, whatever was removed or killed before, and a segment
\* never holds anything but what writers stored.
THEOREM TypesHold == SafeSpec => []TypeOK
<1>1. TypeInv => TypeOK
    BY DEF TypeInv
<1> QED
    BY <1>1, TypeInvariant, PTL
-------------------------------------------------------------------------------
\* The signals that wait at a semaphore; a removed one has none.
LEMMA Waiting ==
    ASSUME NEW n \in Int
    PROVE  Max({n, 0}) = IF n >= 0 THEN n ELSE 0
<1> DEFINE m == IF n >= 0 THEN n ELSE 0
<1>1. m \in {n, 0} /\ \A y \in {n, 0} : m >= y
    OBVIOUS
<1>2. \A x \in {n, 0} : (\A y \in {n, 0} : x >= y) => x = m
    OBVIOUS
<1> QED
    BY <1>1, <1>2 DEF Max

\* Who stands where is a matter of finite sets.
LEMMA FiniteStages ==
    ASSUME TypeInv, NEW s
    PROVE  /\ IsFiniteSet(Through(s)) /\ Cardinality(Through(s)) \in Nat
           /\ IsFiniteSet(Posted(s)) /\ Cardinality(Posted(s)) \in Nat
<1> DEFINE B == {p \in Processes : pc[p] # "shmget"}
<1>1. IsFiniteSet(B)
    BY DEF TypeInv, FinitelyMany
<1>2. Through(s) \subseteq B /\ Posted(s) \subseteq B
    BY DEF Through, Posted, Processes
<1> QED
    BY <1>1, <1>2, FS_Subset, FS_CardinalityType

\* What a step other than a signal or a pass can do to a semaphore that is
\* there: it takes away signals and readers, and adds writers that are past.
LEMMA QuietStep ==
    ASSUME TypeInv, [Next]_vars, NEW s \in DOMAIN sem,
           \A w \in Writers : ~Post(w), \A r \in Readers : ~Pass(r)
    PROVE  /\ sem'[s] \in {sem[s], 0, Removed}
           /\ Through(s)' \subseteq Through(s)
           /\ Posted(s) \subseteq Posted(s)'
<1> DEFINE Quiet == /\ sem'[s] \in {sem[s], 0, Removed}
                    /\ Through(s)' \subseteq Through(s)
                    /\ Posted(s) \subseteq Posted(s)'
<1> USE DEF TypeInv, TypeOK, Through, Posted, Step, Fail, Processes, objects
<1>1. /\ sem \in Seq(Nat \cup {Removed}) /\ Len(sem) \in Nat
      /\ DOMAIN sem = 1 .. Len(sem)
    BY LenProperties
<1>2. ASSUME NEW w \in Writers, CreateSegment(w)
      PROVE  Quiet
    BY <1>2, RunsAssumption DEF CreateSegment
<1>3. ASSUME NEW w \in Writers, CreateSemaphore(w)
      PROVE  Quiet
    BY <1>1, <1>3, RunsAssumption DEF CreateSemaphore
<1>4. ASSUME NEW w \in Writers, SetVal(w)
      PROVE  Quiet
    BY <1>1, <1>4, RunsAssumption DEF SetVal
<1>5. ASSUME NEW w \in Writers,
             \/ SetValFails(w) \/ CreateFails(w) \/ BeginStore(w) \/ EndStore(w) \/ NoInput(w)
             \/ PostFails(w)
      PROVE  Quiet
    BY <1>5, RunsAssumption
    DEF SetValFails, CreateFails, BeginStore, EndStore, NoInput, PostFails
<1>6. ASSUME NEW r \in Readers,
             Refuse(r) \/ WaitFails(r) \/ PrintText(r) \/ RemoveSegment(r)
      PROVE  Quiet
    BY <1>6, RunsAssumption DEF Refuse, WaitFails, PrintText, RemoveSegment
<1>7. ASSUME NEW r \in Readers, RemoveSemaphore(r)
      PROVE  Quiet
    BY <1>1, <1>7, RunsAssumption DEF RemoveSemaphore
<1>8. ASSUME NEW w \in Writers,
             FindSemaphore(w, "setval") \/ Attach(w, "fgets") \/ Detach(w, "done")
      PROVE  Quiet
    BY <1>8, RunsAssumption DEF FindSemaphore, Attach, Detach
<1>9. ASSUME NEW r \in Readers,
             FindSemaphore(r, "semop") \/ Attach(r, "printf") \/ Detach(r, "rmshm")
      PROVE  Quiet
    BY <1>9, RunsAssumption DEF FindSemaphore, Attach, Detach
<1>10. ASSUME NEW p \in Processes, FindSegment(p) \/ AttachFails(p) \/ Kill(p)
       PROVE  Quiet
    BY <1>10 DEF FindSegment, AttachFails, Kill, Ended
<1>11. CASE UNCHANGED vars
    BY <1>11 DEF vars
<1> QED
    BY <1>2, <1>3, <1>4, <1>5, <1>6, <1>7, <1>8, <1>9, <1>10, <1>11, NextCases

\* Every step keeps a signal or a reader for each writer that is past its post.
LEMMA SignalStep == TypeInv /\ OneReaderPerSignal /\ [Next]_vars
                        => OneReaderPerSignal'
<1> SUFFICES ASSUME TypeInv, OneReaderPerSignal, [Next]_vars,
                    NEW s \in DOMAIN sem'
             PROVE  Max({sem'[s], 0}) + Cardinality(Through(s)')
                        <= Cardinality(Posted(s)')
    BY DEF OneReaderPerSignal
<1>1. TypeInv'
    BY TypeStep, LookUpStep, StoringStep, FiniteStep DEF TypeInv
<1>2. /\ sem \in Seq(Nat \cup {Removed}) /\ Len(sem) \in Nat
      /\ DOMAIN sem = 1 .. Len(sem)
      /\ sem' \in Seq(Nat \cup {Removed})
      /\ pc \in [Processes -> PCs] /\ semid \in [Processes -> 0 .. Len(sem)]
    BY <1>1, LenProperties DEF TypeInv, TypeOK
<1>3. /\ IsFiniteSet(Through(s)) /\ Cardinality(Through(s)) \in Nat
      /\ IsFiniteSet(Posted(s)) /\ Cardinality(Posted(s)) \in Nat
    BY FiniteStages
<1>4. IsFiniteSet(Posted(s)') /\ Cardinality(Posted(s)') \in Nat
  <2> DEFINE B == {p \in Processes : pc'[p] # "shmget"}
  <2>1. IsFiniteSet(B)
    BY <1>1 DEF TypeInv, FinitelyMany
  <2>2. Posted(s)' \subseteq B
    BY DEF Posted, Processes
  <2> QED
    BY <2>1, <2>2, FS_Subset, FS_CardinalityType
<1>5. s \in DOMAIN sem =>
          /\ sem[s] \in Nat \cup {Removed}
          /\ Max({sem[s], 0}) + Cardinality(Through(s)) <= Cardinality(Posted(s))
    BY <1>2, ElementOfSeq DEF OneReaderPerSignal
<1>6. CASE s \notin DOMAIN sem
  <2>1. PICK w \in Writers : CreateSemaphore(w)
    <3>1. \/ \E w \in Writers : CreateSemaphore(w)
          \/ UNCHANGED sem
          \/ \E k, n : sem' = [sem EXCEPT ![k] = n]
      BY NextCases
      DEF CreateSegment, SetVal, SetValFails, CreateFails, BeginStore, EndStore, NoInput,
          Post, PostFails, FindSemaphore, Attach, Detach, Refuse, Pass,
          WaitFails, PrintText, RemoveSegment, RemoveSemaphore, FindSegment,
          AttachFails, Kill, Fail, vars, objects
    <3> QED
      BY <1>2, <1>6, <3>1
  <2>2. sem' = Append(sem, 0) /\ s = Len(sem) + 1
    BY <1>2, <1>6, <2>1 DEF CreateSemaphore
  <2>3. sem'[s] = 0 /\ Max({sem'[s], 0}) = 0
    BY <1>2, <2>2, Waiting
  <2>4. Through(s)' = {}
    BY <1>2, <2>1, <2>2, RunsAssumption
    DEF CreateSemaphore, Step, Through, Processes
  <2> QED
    BY <1>4, <2>3, <2>4, FS_EmptySet
<1>7. ASSUME s \in DOMAIN sem, NEW w \in Writers, Post(w)
      PROVE  Max({sem'[s], 0}) + Cardinality(Through(s)')
                 <= Cardinality(Posted(s)')
  <2>1. Through(s)' = Through(s)
    BY <1>7, RunsAssumption DEF Post, Step, Through
  <2>2. CASE semid[w] = s
    <3>1. sem[s] \in Nat /\ sem'[s] = sem[s] + 1
      BY <1>2, <1>5, <1>7, <2>2 DEF Post
    <3>2. Posted(s)' = Posted(s) \cup {w} /\ w \notin Posted(s)
      BY <1>2, <1>7, <2>2 DEF Post, Step, Posted, Processes
    <3>3. Cardinality(Posted(s)') = Cardinality(Posted(s)) + 1
      BY <1>3, <3>2, FS_AddElement
    <3>4. Max({sem'[s], 0}) = Max({sem[s], 0}) + 1 /\ Max({sem[s], 0}) \in Nat
      BY <3>1, Waiting
    <3> QED
      BY <1>3, <1>5, <1>7, <2>1, <3>3, <3>4
  <2>3. CASE semid[w] # s
    <3>1. sem'[s] = sem[s]
      BY <1>2, <1>7, <2>3 DEF Post
    <3>2. Posted(s)' = Posted(s)
      BY <1>2, <1>7, <2>3 DEF Post, Step, Posted, Processes
    <3> QED
      BY <1>5, <1>7, <2>1, <3>1, <3>2
  <2> QED
    BY <2>2, <2>3
<1>8. ASSUME s \in DOMAIN sem, NEW r \in Readers, Pass(r)
      PROVE  Max({sem'[s], 0}) + Cardinality(Through(s)')
                 <= Cardinality(Posted(s)')
  <2>1. Posted(s)' = Posted(s)
    BY <1>8, RunsAssumption DEF Pass, Step, Posted
  <2>2. CASE semid[r] = s
    <3>1. sem[s] \in Nat /\ sem[s] > 0 /\ sem'[s] = sem[s] - 1
      BY <1>2, <1>5, <1>8, <2>2 DEF Pass, Removed
    <3>2. Through(s)' = Through(s) \cup {r} /\ r \notin Through(s)
      BY <1>2, <1>8, <2>2 DEF Pass, Step, Through, Processes
    <3>3. Cardinality(Through(s)') = Cardinality(Through(s)) + 1
      BY <1>3, <3>2, FS_AddElement
    <3>4. Max({sem'[s], 0}) = Max({sem[s], 0}) - 1 /\ Max({sem[s], 0}) \in Nat
      BY <3>1, Waiting
    <3> QED
      BY <1>3, <1>5, <1>8, <2>1, <3>3, <3>4
  <2>3. CASE semid[r] # s
    <3>1. sem'[s] = sem[s]
      BY <1>2, <1>8, <2>3 DEF Pass
    <3>2. Through(s)' = Through(s)
      BY <1>2, <1>8, <2>3 DEF Pass, Step, Through, Processes
    <3> QED
      BY <1>5, <1>8, <2>1, <3>1, <3>2
  <2> QED
    BY <2>2, <2>3
<1>9. ASSUME s \in DOMAIN sem,
             \A w \in Writers : ~Post(w), \A r \in Readers : ~Pass(r)
      PROVE  Max({sem'[s], 0}) + Cardinality(Through(s)')
                 <= Cardinality(Posted(s)')
  <2>1. /\ sem'[s] \in {sem[s], 0, Removed}
        /\ Through(s)' \subseteq Through(s)
        /\ Posted(s) \subseteq Posted(s)'
    BY <1>9, QuietStep
  <2>2. /\ Cardinality(Through(s)') \in Nat
        /\ Cardinality(Through(s)') <= Cardinality(Through(s))
        /\ Cardinality(Posted(s)) <= Cardinality(Posted(s)')
    BY <1>3, <1>4, <2>1, FS_Subset, FS_CardinalityType
  <2>3. /\ Max({sem'[s], 0}) \in Nat /\ Max({sem[s], 0}) \in Nat
        /\ Max({sem'[s], 0}) <= Max({sem[s], 0})
    BY <1>5, <1>9, <2>1, Waiting DEF Removed
  <2> QED
    BY <1>3, <1>4, <1>5, <1>9, <2>2, <2>3
<1> QED
    BY <1>6, <1>7, <1>8, <1>9

\* No signal of the writer is made up or used twice, whatever the runs of both
\* programs create, reset, remove or leave behind.
THEOREM SignalsAccounted == SafeSpec => []OneReaderPerSignal
<1>1. Init => OneReaderPerSignal
    BY DEF Init, OneReaderPerSignal
<1>2. TypeInv /\ OneReaderPerSignal /\ [Next]_vars => OneReaderPerSignal'
    BY SignalStep
<1> QED
    BY <1>1, <1>2, TypeInvariant, PTL DEF SafeSpec
-------------------------------------------------------------------------------
\* A reader has been let through, or would be.
Signalled == \/ \E s \in DOMAIN sem : sem[s] > 0
             \/ \E r \in Readers :
                    \/ pc[r] \in {"shmat", "printf", "shmdt", "rmshm", "rmsem",
                                  "done"}
                    \/ printed[r] # {}

\* What holds while no other run of the writer than w has begun: there is at
\* most one segment and one semaphore; the text follows the writer's progress,
\* and is whole by the time a reader can look at it.
LoneWriter(w) ==
    /\ Len(shm) <= 1 /\ Len(sem) <= 1
    /\ pc[w] = "shmget" => Len(shm) = 0
    /\ pc[w] \in {"shmget", "semget"} => Len(sem) = 0
    /\ pc[w] \in {"semget", "setval", "shmat", "fgets"} => shm[1].text = Blank
    /\ pc[w] = "storing" => shm[1].text = {w}
    /\ pc[w] = "semop" => shm[1].text \in {w, Blank}
    /\ Signalled => /\ pc[w] \in {"shmdt", "done", "killed"}
                    /\ shm[1].text \in {w, Blank}
    /\ \A r \in Readers : printed[r] \subseteq {w, Blank}

LoneInv == \A w \in Writers : Begun \subseteq {w} => LoneWriter(w)

\* What holds while no reader has begun: nothing is removed, so that all
\* writers share one semaphore; once one of them has posted it, it stays
\* signalled unless another one reset it, which posts it later or was ended.
NoReaderYet ==
    (\A r \in Readers : pc[r] = "shmget") =>
        /\ \A w \in Writers : pc[w] \in PastSegment => shm_key # 0
        /\ \A w \in Writers :
               pc[w] \in PastSemaphore => sem_key # 0 /\ semid[w] = sem_key
        /\ (\E w \in Writers : pc[w] \in {"shmdt", "done"}) =>
               \/ sem[sem_key] > 0
               \/ \E v \in Writers : pc[v] \in {"shmat", "fgets", "storing",
                                                "semop", "killed", "failed"}

\* The runs that have begun stay begun.
LEMMA BegunStep == TypeOK /\ [Next]_vars => Begun \subseteq Begun'
<1> SUFFICES ASSUME TypeOK, [Next]_vars PROVE Begun \subseteq Begun'
    OBVIOUS
<1> QED
    BY ZenonT(40), NextCases
    DEF CreateSegment, CreateSemaphore, SetVal, SetValFails, CreateFails, BeginStore,
        EndStore, NoInput, Post, PostFails, FindSemaphore, Attach, Detach,
        Refuse, Pass, WaitFails, PrintText, RemoveSegment, RemoveSemaphore,
        FindSegment, AttachFails, Kill, Fail, Step, vars, Processes, Begun,
        TypeOK

\* Every step keeps what is known of the only writer and the readers after it.
LEMMA LoneStep == TypeInv /\ LoneInv /\ [Next]_vars => LoneInv'
<1> SUFFICES ASSUME TypeInv, LoneInv, [Next]_vars,
                    NEW w \in Writers, Begun' \subseteq {w}
             PROVE  LoneWriter(w)'
    BY DEF LoneInv
<1>1. TypeInv'
    BY TypeStep, LookUpStep, StoringStep, FiniteStep DEF TypeInv
<1>2. Begun \subseteq {w} /\ LoneWriter(w)
    BY BegunStep DEF TypeInv, LoneInv
<1>3. /\ shm \in Seq(Segment) /\ Len(shm) \in Nat /\ DOMAIN shm = 1 .. Len(shm)
      /\ sem \in Seq(Nat \cup {Removed}) /\ Len(sem) \in Nat
      /\ DOMAIN sem = 1 .. Len(sem)
      /\ pc \in [Processes -> PCs] /\ w \in Processes
      /\ shmid \in [Processes -> 0 .. Len(shm)]
      /\ semid \in [Processes -> 0 .. Len(sem)]
      /\ printed \in [Readers -> SUBSET Texts]
    BY LenProperties DEF TypeInv, TypeOK, Segment, Processes
<1>4. ASSUME NEW p \in Processes, pc[p] \in PastSegment
      PROVE  Len(shm) = 1 /\ shmid[p] = 1 /\ shm[1] \in Segment
    BY <1>2, <1>3, <1>4, ElementOfSeq DEF TypeInv, LookedUp, LoneWriter
<1>5. ASSUME NEW p \in Processes, pc[p] \in PastSemaphore
      PROVE  Len(sem) = 1 /\ semid[p] = 1
    BY <1>2, <1>3, <1>5 DEF TypeInv, LookedUp, LoneWriter
<1>6. ASSUME NEW v \in Writers, pc'[v] # "shmget" PROVE v = w
    BY <1>6 DEF Begun
<1>7. ASSUME NEW e \in Segment, shm' = [shm EXCEPT ![1] = e], Len(shm) = 1
      PROVE  Len(shm') = 1 /\ shm'[1] = e
    BY <1>3, <1>7, ExceptSeq
<1> USE RunsAssumption DEF Step, Fail, objects
<1> HIDE DEF LoneInv
<1>10. ASSUME NEW v \in Writers, CreateSegment(v) PROVE LoneWriter(w)'
  <2>1. v = w
    BY <1>3, <1>6, <1>10 DEF CreateSegment, Processes
  <2>2. Len(shm') = 1 /\ shm'[1].text = Blank
    BY <1>2, <1>3, <1>10, <2>1 DEF CreateSegment, LoneWriter
  <2> QED
    BY <1>2, <1>3, <1>10, <2>1, <2>2
    DEF CreateSegment, LoneWriter, Signalled, Processes
<1>11. ASSUME NEW v \in Writers, BeginStore(v) PROVE LoneWriter(w)'
  <2>1. v = w
    BY <1>3, <1>6, <1>11 DEF BeginStore, Processes
  <2>2. Len(shm) = 1 /\ shmid[w] = 1 /\ shm[1] \in Segment
    BY <1>3, <1>4, <1>11, <2>1 DEF BeginStore, PastSegment, PCs, Ended
  <2>3. Storing(1) = {}
    BY <1>3, <1>2, <1>11, <2>1 DEF BeginStore, Storing, Begun
  <2>4. shm' = [shm EXCEPT ![1] = [shm[1] EXCEPT !.text = {w}]]
    BY <1>11, <2>1, <2>2, <2>3 DEF BeginStore
  <2>5. Len(shm') = 1 /\ shm'[1].text = {w}
    BY <1>7, <2>2, <2>4 DEF Segment, Texts
  <2> QED
    BY <1>2, <1>3, <1>11, <2>1, <2>5 DEF BeginStore, LoneWriter, Signalled, Processes
<1>12. ASSUME NEW v \in Writers, EndStore(v) PROVE LoneWriter(w)'
  <2>1. v = w
    BY <1>3, <1>6, <1>12 DEF EndStore, Processes
  <2>2. Len(shm) = 1 /\ shmid[w] = 1 /\ shm[1] \in Segment
    BY <1>3, <1>4, <1>12, <2>1 DEF EndStore, PastSegment, PCs, Ended
  <2>3. Storing(1) = {w} /\ shm[1].text = {w}
    BY <1>3, <1>2, <1>12, <2>1, <2>2 DEF EndStore, Storing, Begun, LoneWriter
  <2>4. shm' = [shm EXCEPT ![1] = [shm[1] EXCEPT !.text = w]]
    BY <1>12, <2>1, <2>2, <2>3 DEF EndStore
  <2>5. Len(shm') = 1 /\ shm'[1].text = w
    BY <1>7, <2>2, <2>4 DEF Segment, Texts
  <2> QED
    BY <1>2, <1>3, <1>12, <2>1, <2>5 DEF EndStore, LoneWriter, Signalled, Processes
<1>13. SUFFICES ASSUME \A v \in Writers : /\ ~CreateSegment(v) /\ ~BeginStore(v)
                                          /\ ~EndStore(v)
                PROVE  LoneWriter(w)'
    BY <1>10, <1>11, <1>12
<1>14. Len(shm') = Len(shm) /\ (Len(shm) = 1 => shm'[1].text = shm[1].text)
    BY <1>3, <1>13, TextStep
<1>15. ASSUME NEW v \in Writers, CreateSemaphore(v) PROVE LoneWriter(w)'
  <2>1. v = w
    BY <1>3, <1>6, <1>15 DEF CreateSemaphore, Processes
  <2>2. Len(sem') = 1 /\ DOMAIN sem' = {1} /\ sem'[1] = 0
    BY <1>2, <1>3, <1>15, <2>1 DEF CreateSemaphore, LoneWriter
  <2> QED
    BY <1>2, <1>3, <1>14, <1>15, <2>1, <2>2
    DEF CreateSemaphore, LoneWriter, Signalled, Processes
<1>16. ASSUME NEW v \in Writers, SetVal(v) PROVE LoneWriter(w)'
  <2>1. v = w
    BY <1>3, <1>6, <1>16 DEF SetVal, Processes
  <2>2. Len(sem) = 1 /\ semid[w] = 1
    BY <1>3, <1>5, <1>16, <2>1 DEF SetVal, PastSemaphore, PCs, Ended
  <2>3. Len(sem') = 1 /\ DOMAIN sem' = {1} /\ sem'[1] = 0
    BY <1>3, <1>16, <2>1, <2>2 DEF SetVal
  <2>4. ~Signalled
    BY <1>2, <1>16, <2>1 DEF SetVal, LoneWriter
  <2>5. ~Signalled'
    BY <1>3, <1>16, <2>3, <2>4 DEF SetVal, Signalled, Processes
  <2> QED
    BY <1>2, <1>3, <1>4, <1>14, <1>16, <2>1, <2>2, <2>3, <2>5
    DEF SetVal, LoneWriter, Processes, PastSegment, PCs, Ended
<1>17. ASSUME NEW v \in Writers,
              \/ SetValFails(v) \/ CreateFails(v) \/ NoInput(v) \/ PostFails(v)
              \/ FindSemaphore(v, "setval") \/ Attach(v, "fgets")
              \/ Detach(v, "done")
       PROVE  LoneWriter(w)'
  <2>1. v = w
    BY <1>3, <1>6, <1>17
    DEF SetValFails, CreateFails, NoInput, PostFails, FindSemaphore, Attach, Detach,
        Processes
  <2>2. Len(sem') = Len(sem) /\ (Signalled' => Signalled)
    BY <1>3, <1>17
    DEF SetValFails, CreateFails, NoInput, PostFails, FindSemaphore, Attach, Detach,
        Signalled, Processes
  <2> QED
    BY <1>2, <1>3, <1>4, <1>14, <1>17, <2>1, <2>2
    DEF SetValFails, CreateFails, NoInput, PostFails, FindSemaphore, Attach, Detach,
        LoneWriter, Processes, PastSegment, PCs, Ended
<1>18. ASSUME NEW v \in Writers, Post(v) PROVE LoneWriter(w)'
  <2>1. v = w
    BY <1>3, <1>6, <1>18 DEF Post, Processes
  <2>2. Len(sem') = Len(sem)
    BY <1>3, <1>18 DEF Post
  <2> QED
    BY <1>2, <1>3, <1>14, <1>18, <2>1, <2>2 DEF Post, LoneWriter, Processes
<1>19. ASSUME NEW r \in Readers,
              \/ Refuse(r) \/ WaitFails(r) \/ FindSemaphore(r, "semop")
       PROVE  LoneWriter(w)'
  <2>1. Signalled' => Signalled
    BY <1>3, <1>19 DEF Refuse, WaitFails, FindSemaphore, Signalled, Processes
  <2> QED
    BY <1>2, <1>3, <1>19, <2>1
    DEF Refuse, WaitFails, FindSemaphore, LoneWriter, Processes
<1>20. ASSUME NEW r \in Readers,
              \/ Pass(r) \/ PrintText(r) \/ Attach(r, "printf")
              \/ Detach(r, "rmshm") \/ RemoveSegment(r) \/ RemoveSemaphore(r)
       PROVE  LoneWriter(w)'
  <2> USE DEF Pass, PrintText, Attach, Detach, RemoveSegment, RemoveSemaphore
  <2>1. Signalled
    <3>1. CASE Pass(r)
      <4>1. semid[r] = 1 /\ Len(sem) = 1
        BY <1>3, <1>5, <3>1 DEF Processes, PastSemaphore, PCs, Ended
      <4> QED
        BY <1>3, <3>1, <4>1 DEF Signalled
    <3>2. CASE ~Pass(r)
      BY <1>20, <3>2 DEF Signalled
    <3> QED
      BY <3>1, <3>2
  <2>2. pc[w] \in {"shmdt", "done", "killed"} /\ shm[1].text \in {w, Blank}
    BY <1>2, <2>1 DEF LoneWriter
  <2>3. pc[r] \in PastSegment /\ r \in Processes
    BY <1>20 DEF PastSegment, PCs, Ended, Processes
  <2>4. Len(sem') = Len(sem)
    BY <1>3, <1>20
  <2>5. \A q \in Readers : printed'[q] \subseteq {w, Blank}
    <3>1. CASE PrintText(r)
      <4>1. shmid[r] = 1
        BY <1>4, <2>3
      <4>2. Storing(1) = {}
        BY <1>2, <2>2 DEF Storing, Begun
      <4>3. printed' = [printed EXCEPT ![r] = {shm[1].text}]
        BY <3>1, <4>1, <4>2
      <4> QED
        BY <1>2, <1>3, <2>2, <4>3 DEF LoneWriter
    <3>2. CASE ~PrintText(r)
      BY <1>2, <1>20, <3>2 DEF LoneWriter
    <3> QED
      BY <3>1, <3>2
  <2>6. pc'[w] = pc[w]
    BY <1>3, <1>20
  <2> QED
    BY <1>2, <1>4, <1>14, <2>2, <2>3, <2>4, <2>5, <2>6 DEF LoneWriter
<1>21. ASSUME NEW p \in Processes, FindSegment(p) \/ AttachFails(p) \/ Kill(p)
       PROVE LoneWriter(w)'
  <2> USE DEF FindSegment, AttachFails, Kill
  <2>1. p \in Writers => p = w
    BY <1>3, <1>6, <1>21 DEF Processes
  <2>2. Len(sem') = Len(sem) /\ (Signalled' => Signalled)
    BY <1>3, <1>21 DEF Signalled, Ended, Processes
  <2>3. pc'[w] \in {pc[w], "killed", "failed"} \/ FindSegment(w)
    BY <1>3, <1>21
  <2>4. ~FindSegment(w)
    BY <1>2, <1>3 DEF LoneWriter, TypeInv, TypeOK
  <2> QED
    BY <1>2, <1>3, <1>4, <1>14, <1>21, <2>1, <2>2, <2>3, <2>4
    DEF LoneWriter, PastSegment, PCs, Ended
<1>22. CASE UNCHANGED vars
    BY <1>2, <1>22 DEF vars, LoneWriter, Signalled
<1> QED
    BY <1>13, <1>15, <1>16, <1>17, <1>18, <1>19, <1>20, <1>21, <1>22, NextCases

\* Whoever prints while one run of the writer was the only one prints what it
\* has sent, after it has sent it.
THEOREM LoneWriterHeard == SafeSpec => []LoneWriterIsHeard
<1>1. Init => LoneInv
  <2> SUFFICES ASSUME Init, NEW w \in Writers PROVE LoneWriter(w)
    BY DEF LoneInv
  <2> QED
    BY DEF Init, LoneWriter, Signalled, Processes
<1>2. TypeInv /\ LoneInv /\ [Next]_vars => LoneInv'
    BY LoneStep
<1>3. LoneInv => LoneWriterIsHeard
    BY DEF LoneInv, LoneWriter, LoneWriterIsHeard, Signalled
<1> QED
    BY <1>1, <1>2, <1>3, TypeInvariant, PTL DEF SafeSpec
-------------------------------------------------------------------------------
\* Every step keeps the message of a writer before the first reader begins.
LEMMA NoReaderStep == TypeInv /\ NoReaderYet /\ [Next]_vars => NoReaderYet'
<1> SUFFICES ASSUME TypeInv, NoReaderYet, [Next]_vars,
                    \A r \in Readers : pc'[r] = "shmget"
             PROVE  NoReaderYet'
    BY DEF NoReaderYet
<1>1. /\ sem \in Seq(Nat \cup {Removed}) /\ Len(sem) \in Nat
      /\ DOMAIN sem = 1 .. Len(sem)
      /\ Len(shm) \in Nat /\ shm_key \in 0 .. Len(shm)
      /\ sem_key \in 0 .. Len(sem)
      /\ pc \in [Processes -> PCs] /\ semid \in [Processes -> 0 .. Len(sem)]
    BY LenProperties DEF TypeInv, TypeOK
<1>2. ASSUME NEW r \in Readers
      PROVE  /\ ~Refuse(r) /\ ~Pass(r) /\ ~WaitFails(r) /\ ~PrintText(r)
             /\ ~RemoveSegment(r) /\ ~RemoveSemaphore(r)
             /\ ~FindSemaphore(r, "semop") /\ ~Attach(r, "printf")
             /\ ~Detach(r, "rmshm") /\ ~FindSegment(r) /\ ~AttachFails(r)
             /\ ~Kill(r)
    BY <1>1
    DEF Refuse, Pass, WaitFails, PrintText, RemoveSegment, RemoveSemaphore,
        FindSemaphore, Attach, Detach, FindSegment, AttachFails, Kill, Fail,
        Step, Processes
<1>3. \A r \in Readers : pc[r] = "shmget"
    BY ZenonT(40), <1>1, <1>2, NextCases, RunsAssumption
    DEF CreateSegment, CreateSemaphore, SetVal, SetValFails, CreateFails, BeginStore,
        EndStore, NoInput, Post, PostFails, FindSemaphore, Attach, Detach,
        FindSegment, AttachFails, Kill, Fail, Step, vars, Processes
<1>4. /\ \A w \in Writers : pc[w] \in PastSegment => shm_key # 0
      /\ \A w \in Writers :
             pc[w] \in PastSemaphore => sem_key # 0 /\ semid[w] = sem_key
      /\ (\E w \in Writers : pc[w] \in {"shmdt", "done"}) =>
             \/ sem[sem_key] > 0
             \/ \E v \in Writers : pc[v] \in {"shmat", "fgets", "storing",
                                              "semop", "killed", "failed"}
    BY <1>3 DEF NoReaderYet
<1> USE DEF Step, Fail, objects, PastSegment, PastSemaphore, PCs, Ended
<1>5. ASSUME NEW w \in Writers, CreateSegment(w) \/ FindSegment(w)
      PROVE  NoReaderYet'
    BY <1>1, <1>4, <1>5
    DEF CreateSegment, FindSegment, NoReaderYet, Processes
<1>6. ASSUME NEW w \in Writers, CreateSemaphore(w) PROVE NoReaderYet'
    BY <1>1, <1>4, <1>6 DEF CreateSemaphore, NoReaderYet, Processes
<1>7. ASSUME NEW w \in Writers, SetVal(w) PROVE NoReaderYet'
    BY <1>1, <1>4, <1>7 DEF SetVal, NoReaderYet, Processes
<1>8. ASSUME NEW w \in Writers, Post(w) PROVE NoReaderYet'
  <2>1. semid[w] = sem_key /\ sem_key \in 1 .. Len(sem)
    BY <1>1, <1>4, <1>8 DEF Post, Processes
  <2>2. sem[sem_key] \in Nat /\ sem'[sem_key] = sem[sem_key] + 1
    BY <1>1, <1>8, <2>1, ElementOfSeq DEF Post
  <2>3. sem'[sem_key'] > 0
    BY <1>8, <2>2 DEF Post
  <2> QED
    BY <1>1, <1>4, <1>8, <2>3 DEF Post, NoReaderYet, Processes
<1>9. ASSUME NEW w \in Writers,
             \/ BeginStore(w) \/ EndStore(w) \/ NoInput(w) \/ Attach(w, "fgets")
             \/ Detach(w, "done") \/ FindSemaphore(w, "setval")
      PROVE  NoReaderYet'
    BY <1>1, <1>4, <1>9
    DEF BeginStore, EndStore, NoInput, Attach, Detach, FindSemaphore,
        NoReaderYet, Processes
<1>10. ASSUME NEW w \in Writers,
              SetValFails(w) \/ CreateFails(w) \/ PostFails(w) \/ AttachFails(w) \/ Kill(w)
       PROVE  NoReaderYet'
    BY ZenonT(40), <1>1, <1>4, <1>10
    DEF SetValFails, CreateFails, PostFails, AttachFails, Kill, NoReaderYet, Processes
<1>11. CASE UNCHANGED vars
    BY <1>4, <1>11 DEF vars, NoReaderYet
<1> QED
    BY <1>2, <1>5, <1>6, <1>7, <1>8, <1>9, <1>10, <1>11, NextCases DEF Processes

\* A message that was sent before any reader began is kept for the first one.
THEOREM MessageWaits == SafeSpec => []SignalWaits
<1>1. Init => NoReaderYet
    BY DEF Init, NoReaderYet, PastSegment, PastSemaphore, Processes
<1>2. TypeInv /\ NoReaderYet /\ [Next]_vars => NoReaderYet'
    BY NoReaderStep
<1>3. TypeInv /\ NoReaderYet => SignalWaits
    BY DEF NoReaderYet, SignalWaits, Begun, PastSegment, PastSemaphore, PCs,
           Ended, TypeInv, TypeOK, Processes
<1> QED
    BY <1>1, <1>2, <1>3, TypeInvariant, PTL DEF SafeSpec
================================================================================
