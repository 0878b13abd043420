--------------------------- MODULE ChildReaperProps ---------------------------
(***************************************************************************)
(* What the SIGCHLD handler of src/asm_5 /Ex_5/ex_5.c owes to the children, *)
(* and what the comments of the program say of the first one.              *)
(***************************************************************************)
EXTENDS ChildReaper

\* The variables keep their types, and the first forked children are the ones
\* that have been born.
TypeOK == /\ parent \in {"fork", "sleep", "kill", "pause", "exit"}
          /\ forked \in 0 .. CHILD_COUNT
          /\ handling \in BOOLEAN
          /\ sigchld \in BOOLEAN
          /\ sigint \subseteq 0 .. CHILD_COUNT
          /\ presses \in 0 .. PRESSES
          /\ child \in [Children -> {"unborn", "sleep", "stop", "stopped",
                                     "usr1", "exit", "zombie", "reaped"}]
          /\ unreported \subseteq Children
          /\ \A c \in Children : child[c] = "unborn" <=> c > forked

\* SIGCHLD is not queued, so that one signal may stand for the changes of
\* several children; still no change waits for waitpid while no signal is
\* pending and no handler is looking, and no zombie goes unreported.
ChangesAnnounced ==
    /\ unreported # {} => sigchld \/ handling
    /\ parent # "exit" =>
          \A c \in Children : child[c] = "zombie" => c \in unreported

\* Every child that has exited is reaped, by the handler or by init, whatever
\* signals coalesce or interrupt the handler: again and again, and in the end
\* for good, there is no zombie.
ZombiesReaped == []<>(\A c \in Children : child[c] # "zombie")

\* If every fork succeeds and ctrl + C is not pressed before the first child
\* has stopped, all children end and are reaped: sleep(10) may be cut short by
\* any SIGCHLD, but never so early that SIGCONT comes before the stop.
AllReaped ==
    /\ [](parent # "exit")
    /\ [](presses > 0 => child[1] \notin Early)
    => <>(\A c \in Children : child[c] = "reaped")

\* "Continue the first child process": when the parent has sent SIGCONT, the
\* first child goes on to its SIGUSR1 and its end.
ChildContinues ==
    parent = "pause" ~> child[1] \notin Early \cup {"stopped"}
===============================================================================
