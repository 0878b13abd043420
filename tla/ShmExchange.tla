------------------------------ MODULE ShmExchange ------------------------------
(***************************************************************************)
(* src/asm_8/ex_3: a writer hands a line of text to a reader through a     *)
(* System V shared-memory segment, and a semaphore tells the reader that   *)
(* the text is there.  Both objects are found by key and outlive the       *)
(* processes: the writer creates what is missing, the reader removes both. *)
(*                                                                         *)
(* The programs are run by hand, any number of times and in any order, and *)
(* a run can be killed (at its prompt, or while it waits).                 *)
(***************************************************************************)
EXTENDS Integers, Sequences

CONSTANTS Writers,    \* the runs of ex_3_writer
          Readers     \* the runs of ex_3_reader

ASSUME RunsAssumption == Writers \cap Readers = {}

Processes == Writers \cup Readers

VARIABLES shm,        \* the segments created so far, indexed by identifier
          shm_key,    \* the segment the key leads to, 0 if there is none
          sem,        \* the values of the semaphores, indexed by identifier
          sem_key,    \* the semaphore the key leads to, 0 if there is none
          shmid,      \* the segment each process has looked up
          semid,      \* the semaphore each process has looked up
          printed,    \* the texts each reader has printed
          pc          \* the next call of each process, or how it ended

objects == <<shm, shm_key, sem, sem_key>>
vars == <<objects, shmid, semid, printed, pc>>

\* What a segment holds: the message of a writer, whole, or a set of writers
\* whose bytes are in it without making up a message; nobody's: it is blank.
Blank == {}
Texts == Writers \cup SUBSET Writers

Removed == -1

Ended == {"done", "refused", "failed", "killed"}

\* A segment that was removed goes away with its last attachment.
Gone(s) == shm[s].removed /\ shm[s].attached = {}

Step(p, from, to) == pc[p] = from /\ pc' = [pc EXCEPT ![p] = to]

\* An error return: the process reports it and exits.
Fail(p, from, how) == /\ Step(p, from, how)
                      /\ UNCHANGED <<objects, shmid, semid, printed>>

Init == /\ shm = << >> /\ shm_key = 0
        /\ sem = << >> /\ sem_key = 0
        /\ shmid = [p \in Processes |-> 0]
        /\ semid = [p \in Processes |-> 0]
        /\ printed = [r \in Readers |-> {}]
        /\ pc = [p \in Processes |-> "shmget"]
-------------------------------------------------------------------------------
\* What both programs do.

\* shmget and semget find the object.
FindSegment(p) == /\ shm_key # 0
                  /\ Step(p, "shmget", "semget")
                  /\ shmid' = [shmid EXCEPT ![p] = shm_key]
                  /\ UNCHANGED <<objects, semid, printed>>

FindSemaphore(p, next) == /\ sem_key # 0
                          /\ Step(p, "semget", next)
                          /\ semid' = [semid EXCEPT ![p] = sem_key]
                          /\ UNCHANGED <<objects, shmid, printed>>

\* shmat: Linux attaches a removed segment too, as long as it is not gone.
Attach(p, next) == /\ Step(p, "shmat", next)
                   /\ ~Gone(shmid[p])
                   /\ shm' = [shm EXCEPT ![shmid[p]].attached = @ \cup {p}]
                   /\ UNCHANGED <<shm_key, sem, sem_key, shmid, semid, printed>>

AttachFails(p) == Fail(p, "shmat", "failed") /\ Gone(shmid[p])

Detach(p, next) == /\ Step(p, "shmdt", next)
                   /\ shm' = [shm EXCEPT ![shmid[p]].attached = @ \ {p}]
                   /\ UNCHANGED <<shm_key, sem, sem_key, shmid, semid, printed>>
-------------------------------------------------------------------------------
\* The writer.

\* Mutation: the writer goes on with an identifier that is one too high.
CreateSegmentAbove(w) ==
    /\ shm_key = 0
    /\ Step(w, "shmget", "semget")
    /\ shm' = Append(shm, [text |-> Blank, attached |-> {}, removed |-> FALSE])
    /\ shm_key' = Len(shm) + 1
    /\ shmid' = [shmid EXCEPT ![w] = Len(shm) + 2]
    /\ UNCHANGED <<sem, sem_key, semid, printed>>

CreateSegment(w) ==
    /\ shm_key = 0
    /\ Step(w, "shmget", "semget")
    /\ shm' = Append(shm, [text |-> Blank, attached |-> {}, removed |-> FALSE])
    /\ shm_key' = Len(shm) + 1
    /\ shmid' = [shmid EXCEPT ![w] = Len(shm) + 1]
    /\ UNCHANGED <<sem, sem_key, semid, printed>>

\* The kernel gives a new semaphore the value 0.
CreateSemaphore(w) ==
    /\ sem_key = 0
    /\ Step(w, "semget", "setval")
    /\ sem' = Append(sem, 0)
    /\ sem_key' = Len(sem) + 1
    /\ semid' = [semid EXCEPT ![w] = Len(sem) + 1]
    /\ UNCHANGED <<shm, shm_key, shmid, printed>>

\* shmget or semget cannot create the object: a limit, or no memory.
CreateFails(w) == \/ shm_key = 0 /\ Fail(w, "shmget", "refused")
                  \/ sem_key = 0 /\ Fail(w, "semget", "refused")

\* semctl SETVAL: the semaphore is reset, whoever posted it before.
SetVal(w) == /\ Step(w, "setval", "shmat")
             /\ sem[semid[w]] # Removed
             /\ sem' = [sem EXCEPT ![semid[w]] = 0]
             /\ UNCHANGED <<shm, shm_key, sem_key, shmid, semid, printed>>

SetValFails(w) == Fail(w, "setval", "failed") /\ sem[semid[w]] = Removed

Storing(s) == {w \in Writers : pc[w] = "storing" /\ shmid[w] = s}

\* fgets begins to store what the user typed, straight into the segment.
BeginStore(w) ==
    LET s == shmid[w]
    IN  /\ Step(w, "fgets", "storing")
        /\ shm' = [shm EXCEPT ![s].text =
                      IF Storing(s) = {} THEN {w} ELSE @ \cup {w}]
        /\ UNCHANGED <<shm_key, sem, sem_key, shmid, semid, printed>>

\* Mutation: the writer returns without the signal.
EndStoreSilent(w) ==
    LET s == shmid[w]
    IN  /\ Step(w, "storing", "shmdt")
        /\ shm' = [shm EXCEPT ![s].text = w]
        /\ UNCHANGED <<shm_key, sem, sem_key, shmid, semid, printed>>

\* The text is stored and the newline cut off.  Where stores of several
\* writers overlapped any of their messages, or a mixture, is left.
EndStore(w) ==
    LET s == shmid[w]
        text == shm[s].text
    IN  /\ Step(w, "storing", "semop")
        /\ IF Storing(s) # {w} THEN UNCHANGED shm
           ELSE \E left \in IF text = {w} THEN {w} ELSE text \cup {text} :
                   shm' = [shm EXCEPT ![s].text = left]
        /\ UNCHANGED <<shm_key, sem, sem_key, shmid, semid, printed>>

\* End of input: fgets returns NULL, which is not looked at, and stores nothing.
NoInput(w) == /\ Step(w, "fgets", "semop")
              /\ UNCHANGED <<objects, shmid, semid, printed>>

\* semop +1: the reader is signalled.
Post(w) == /\ Step(w, "semop", "shmdt")
           /\ sem[semid[w]] # Removed
           /\ sem' = [sem EXCEPT ![semid[w]] = @ + 1]
           /\ UNCHANGED <<shm, shm_key, sem_key, shmid, semid, printed>>

PostFails(w) == Fail(w, "semop", "failed") /\ sem[semid[w]] = Removed

Writer(w) == \/ FindSegment(w) \/ CreateSegment(w)
             \/ FindSemaphore(w, "setval") \/ CreateSemaphore(w)
             \/ CreateFails(w)
             \/ SetVal(w) \/ SetValFails(w)
             \/ Attach(w, "fgets") \/ AttachFails(w)
             \/ BeginStore(w) \/ EndStore(w) \/ NoInput(w)
             \/ Post(w) \/ PostFails(w)
             \/ Detach(w, "done")
-------------------------------------------------------------------------------
\* The reader.

\* shmget or semget finds nothing: "run writer first".
Refuse(r) == \/ shm_key = 0 /\ Fail(r, "shmget", "refused")
             \/ sem_key = 0 /\ Fail(r, "semget", "refused")

\* Mutation: the wait lets the reader through without a signal.
PassUnsignalled(r) ==
    /\ Step(r, "semop", "shmat")
    /\ sem[semid[r]] >= 0
    /\ UNCHANGED <<objects, shmid, semid, printed>>

\* Mutation: the signal stays there for the next reader.
PassKeeping(r) ==
    /\ Step(r, "semop", "shmat")
    /\ sem[semid[r]] > 0
    /\ UNCHANGED <<objects, shmid, semid, printed>>

\* semop -1 returns: there was a signal.
Pass(r) == /\ Step(r, "semop", "shmat")
           /\ sem[semid[r]] > 0
           /\ sem' = [sem EXCEPT ![semid[r]] = @ - 1]
           /\ UNCHANGED <<shm, shm_key, sem_key, shmid, semid, printed>>

\* The semaphore is, or while the reader waits becomes, removed.
WaitFails(r) == Fail(r, "semop", "failed") /\ sem[semid[r]] = Removed

\* The text is printed; what a writer stores meanwhile gets mixed in.
PrintText(r) ==
    LET s == shmid[r]
        busy == Storing(s)
    IN  /\ Step(r, "printf", "shmdt")
        /\ printed' = [printed EXCEPT ![r] =
                          {IF busy = {} THEN shm[s].text ELSE busy}]
        /\ UNCHANGED <<objects, shmid, semid>>

\* shmctl IPC_RMID: the key no longer leads to the segment.
RemoveSegment(r) ==
    /\ Step(r, "rmshm", "rmsem")
    /\ shm' = [shm EXCEPT ![shmid[r]].removed = TRUE]
    /\ shm_key' = IF shm_key = shmid[r] THEN 0 ELSE shm_key
    /\ UNCHANGED <<sem, sem_key, shmid, semid, printed>>

RemoveSemaphore(r) ==
    /\ Step(r, "rmsem", "done")
    /\ sem' = [sem EXCEPT ![semid[r]] = Removed]
    /\ sem_key' = IF sem_key = semid[r] THEN 0 ELSE sem_key
    /\ UNCHANGED <<shm, shm_key, shmid, semid, printed>>

Reader(r) == \/ FindSegment(r) \/ FindSemaphore(r, "semop") \/ Refuse(r)
             \/ Pass(r) \/ WaitFails(r)
             \/ Attach(r, "printf") \/ AttachFails(r)
             \/ PrintText(r)
             \/ Detach(r, "rmshm") \/ RemoveSegment(r) \/ RemoveSemaphore(r)
-------------------------------------------------------------------------------
\* A run that has begun is killed: the kernel detaches its segments and undoes
\* nothing else (sem_flg is 0).
Kill(p) == /\ pc[p] \notin Ended \cup {"shmget"}
           /\ pc' = [pc EXCEPT ![p] = "killed"]
           /\ shm' = [s \in DOMAIN shm |->
                         [shm[s] EXCEPT !.attached = @ \ {p}]]
           /\ UNCHANGED <<shm_key, sem, sem_key, shmid, semid, printed>>

AllEnded == (\A p \in Processes : pc[p] \in Ended) /\ UNCHANGED vars

Next == \/ \E w \in Writers : Writer(w)
        \/ \E r \in Readers : Reader(r)
        \/ \E p \in Processes : Kill(p)
        \/ AllEnded

\* Every run goes on while it can (the user answers the prompt, or ends the
\* input); nobody has to be killed.
Fairness == /\ \A w \in Writers : WF_vars(Writer(w))
            /\ \A r \in Readers : WF_vars(Reader(r))

SafeSpec == Init /\ [][Next]_vars
Spec == SafeSpec /\ Fairness
===============================================================================
