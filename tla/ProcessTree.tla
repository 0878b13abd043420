------------------------------ MODULE ProcessTree ------------------------------
(***************************************************************************)
(* src/asm_6/ex_4/ex_4.c: main forks x parent processes, each of them y    *)
(* children; main waits for the parents, a parent for its children, with   *)
(* the pids the forks returned.  ex_1.c and ex_2.c of src/asm_6 fork one   *)
(* process and wait for it.                                                *)
(*                                                                         *)
(* When a fork fails the program goes on, and the entry of the table of    *)
(* pids is never set; what it holds is passed to waitpid all the same.     *)
(***************************************************************************)
EXTENDS Integers, Sequences

CONSTANTS X, Y   \* the numbers typed in for ex_4

ASSUME TreeAssumption == X \in Nat /\ Y \in Nat

\* The numbers of parents, and of children of each.
asm_6_ex_1 == <<1, 0>>
asm_6_ex_2 == <<1, 0>>
asm_6_ex_4 == <<X, Y>>

VARIABLES shape,    \* the program that is run
          stage,    \* what each process is doing
          index,    \* the loop variable of each process
          stored    \* the processes whose pid is in the table of their parent

treeVars == <<shape, stage, index, stored>>

\* A process is named by the path that leads to it from main.
Main == <<>>
Nodes == {Main} \cup {<<p>> : p \in 1 .. shape[1]}
                \cup (1 .. shape[1]) \X (1 .. shape[2])
Kids(n) == IF Len(n) = 2 THEN {} ELSE {Append(n, k) : k \in 1 .. shape[Len(n) + 1]}
Kid(n) == Append(n, index[n])

TreeInit == /\ shape \in {asm_6_ex_1, asm_6_ex_2, asm_6_ex_4}
            /\ stage = [n \in Nodes |-> IF n = Main THEN "fork" ELSE "unborn"]
            /\ index = [n \in Nodes |-> 1]
            /\ stored = {}
-------------------------------------------------------------------------------
Looping(n, loop) == stage[n] = loop /\ Kid(n) \in Kids(n)
NextRound(n) == index' = [index EXCEPT ![n] = @ + 1]

ForkKid(n) == /\ Looping(n, "fork") /\ NextRound(n)
              /\ stage' = [stage EXCEPT ![Kid(n)] = "fork"]
              /\ stored' = stored \cup {Kid(n)}
              /\ UNCHANGED shape

ForkKidFails(n) == /\ Looping(n, "fork") /\ NextRound(n)
                   /\ UNCHANGED <<shape, stage, stored>>

\* A child process, which forks nothing, has slept.
ForksDone(n) == /\ stage[n] = "fork" /\ Kid(n) \notin Kids(n)
                /\ stage' = [stage EXCEPT ![n] = "wait"]
                /\ index' = [index EXCEPT ![n] = 1]
                /\ UNCHANGED <<shape, stored>>

Collect(k) == /\ stage[k] = "zombie"
              /\ stage' = [stage EXCEPT ![k] = "reaped"]

\* waitpid for a process that was forked: it returns at once if that process
\* has been collected before.
WaitStored(n) == /\ Looping(n, "wait") /\ NextRound(n)
                 /\ Kid(n) \in stored
                 /\ \/ Collect(Kid(n))
                    \/ stage[Kid(n)] = "reaped" /\ UNCHANGED stage
                 /\ UNCHANGED <<shape, stored>>

\* waitpid for an entry that was never set: it may be the pid of any process
\* that n has forked, stand for all of them (-1, 0), or for none (ECHILD).
WaitUnset(n) == /\ Looping(n, "wait") /\ NextRound(n)
                /\ Kid(n) \notin stored
                /\ (\E k \in Kids(n) : Collect(k)) \/ UNCHANGED stage
                /\ UNCHANGED <<shape, stored>>

\* Mutation: the last entry is not waited for.
EndTreeEarly(n) == /\ stage[n] = "wait"
                   /\ Append(n, index[n] + 1) \notin Kids(n)
                   /\ stage' = [stage EXCEPT ![n] = "zombie"]
                   /\ UNCHANGED <<shape, index, stored>>

\* "wait all children sucessfully!", "All parent and their children are
\* terminated!", and exit.
EndTree(n) == /\ stage[n] = "wait" /\ Kid(n) \notin Kids(n)
              /\ stage' = [stage EXCEPT ![n] = "zombie"]
              /\ UNCHANGED <<shape, index, stored>>

TreeStep(n) == \/ ForkKid(n) \/ ForkKidFails(n) \/ ForksDone(n)
               \/ WaitStored(n) \/ WaitUnset(n) \/ EndTree(n)

TreeNext == \E n \in Nodes : TreeStep(n)
-------------------------------------------------------------------------------
\* The variables keep their types.
TreeTypeOK ==
    /\ shape \in {asm_6_ex_1, asm_6_ex_2, asm_6_ex_4}
    /\ stage \in [Nodes -> {"unborn", "fork", "wait", "zombie", "reaped"}]
    /\ \A n \in Nodes : index[n] \in 1 .. 1 + (IF Len(n) = 2 THEN 0 ELSE shape[Len(n) + 1])
    /\ stored \subseteq Nodes \ {Main}

\* What the last lines of main and of a parent say is true whatever the unset
\* entries hold: a process that has waited for its table leaves no process of
\* its own behind, alive or zombie; and main gets there.
AllTerminated ==
    /\ [](\A n \in Nodes : stage[n] \in {"zombie", "reaped"} =>
              \A k \in Kids(n) : stage[k] \in {"unborn", "reaped"})
    /\ <>(stage[Main] = "zombie")
===============================================================================
