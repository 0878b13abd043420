--------------------------- MODULE ShmExchangeProps ---------------------------
(***************************************************************************)
(* What the shared-memory exchange of src/asm_8/ex_3 keeps and promises.   *)
(***************************************************************************)
EXTENDS ShmExchange, FiniteSetsExt

PCs == {"shmget", "semget", "setval", "shmat", "fgets", "storing", "semop",
        "shmdt", "printf", "rmshm", "rmsem"} \cup Ended

\* The variables keep their types; identifiers are those of created objects.
TypeOK == /\ shm \in Seq([text : Texts, attached : SUBSET Processes,
                          removed : BOOLEAN])
          /\ shm_key \in 0 .. Len(shm)
          /\ sem \in Seq(Nat \cup {Removed})
          /\ sem_key \in 0 .. Len(sem)
          /\ shmid \in [Processes -> 0 .. Len(shm)]
          /\ semid \in [Processes -> 0 .. Len(sem)]
          /\ printed \in [Readers -> SUBSET Texts]
          /\ pc \in [Processes -> PCs]

\* The runs of the writer that have begun.
Begun == {w \in Writers : pc[w] # "shmget"}

\* The readers that got past the semaphore s, and the writers that may have
\* posted it (a killed one perhaps only after it did).
Through(s) == {r \in Readers :
                  /\ semid[r] = s
                  /\ pc[r] \in {"shmat", "printf", "shmdt", "rmshm", "rmsem",
                                "done"}}
Posted(s) == {w \in Writers : /\ semid[w] = s
                              /\ pc[w] \in {"shmdt", "done", "killed"}}

\* No signal is made up or used twice: for each semaphore, the signals waiting
\* and the readers let through never outnumber the writers that posted it,
\* although it is reset by one program, removed by the other and looked up
\* before either.
OneReaderPerSignal ==
    \A s \in DOMAIN sem :
        Max({sem[s], 0}) + Cardinality(Through(s)) <= Cardinality(Posted(s))

\* One run of the writer and any runs of the reader: whoever prints comes after
\* the writer's signal and prints its message whole (or the blank segment, if
\* its user ended the input), whatever gets killed.
LoneWriterIsHeard ==
    \A w \in Writers, r \in Readers :
        (Begun = {w} /\ printed[r] # {}) =>
            /\ pc[w] \in {"shmdt", "done", "killed"}
            /\ printed[r] \subseteq {w, Blank}

\* A message is not forgotten: when every begun run of the writer has come to
\* its end and no reader has begun, a reader that begins now finds the segment
\* and the semaphore, and is let through.
SignalWaits ==
    (/\ Begun # {}
     /\ \A w \in Begun : pc[w] = "done"
     /\ \A r \in Readers : pc[r] = "shmget")
        => shm_key # 0 /\ sem_key # 0 /\ sem[sem_key] > 0

\* Nobody waits for ever unless a run was killed or failed on an object that a
\* reader had removed: otherwise all runs end, also the readers that had to
\* wait for a writer, and the runs that were refused an object.
EndsUnlessDisturbed ==
    [](\A p \in Processes : pc[p] \notin {"killed", "failed"})
        => <>(\A p \in Processes : pc[p] \in Ended)

\* "Reader: Writer has finished, now reading data...": while a reader is past
\* semop and has not printed yet, no writer is storing into its segment.
WriterHasFinished ==
    \A r \in Readers :
        pc[r] = "printf" => Storing(shmid[r]) = {}
===============================================================================
