---------------------------- MODULE ChildReaperProofs ----------------------------
(***************************************************************************)
(* Proofs about ChildReaper for every number of children and every number  *)
(* of presses of ctrl + C.                                                 *)
(***************************************************************************)
EXTENDS ChildReaperProps, TLAPS

\* There is a child left to fork while the parent forks; a parent that has
\* exited has no handler, and nothing is reported to it.
ParentKnows ==
    /\ parent = "fork" => forked < CHILD_COUNT
    /\ parent = "exit" => unreported = {} /\ ~sigchld /\ ~handling

\* The inductive invariant.
Inv == TypeOK /\ ParentKnows /\ ChangesAnnounced
-------------------------------------------------------------------------------
\* Every step keeps the invariant.
LEMMA InvStep == Inv /\ [Next]_vars => Inv'
<1> SUFFICES ASSUME Inv, [Next]_vars PROVE Inv'
    OBVIOUS
<1> USE ReaperAssumption
    DEF Inv, TypeOK, ParentKnows, ChangesAnnounced, Children, childVars
<1>0. 1 \in Children
    OBVIOUS
<1>1. CASE Fork
    BY <1>1 DEF Fork
<1>2. CASE ForkFails
    BY <1>2 DEF ForkFails
<1>3. CASE SleepOver
    BY <1>3 DEF SleepOver
<1>4. CASE Continue
    BY <1>0, <1>4 DEF Continue
<1>5. CASE EnterHandler
    BY <1>5 DEF EnterHandler
<1>6. CASE Reap
    BY <1>6 DEF Reap, Report
<1>7. CASE LeaveHandler
    BY <1>7 DEF LeaveHandler, Interrupted
<1>8. CASE HandleSigint
    BY <1>8 DEF HandleSigint, Interrupted
<1>9. ASSUME NEW c \in Children, ChildSleepOver(c) PROVE Inv'
    BY <1>9 DEF ChildSleepOver, Awake, ChildMoves
<1>10. ASSUME NEW c \in Children, ChildSigint(c) PROVE Inv'
    BY <1>10 DEF ChildSigint, Awake, ChildMoves
<1>11. CASE Stop
    BY <1>0, <1>11 DEF Stop, ChildMoves, Announce
<1>12. ASSUME NEW c \in Children, RaiseUsr1(c) PROVE Inv'
    BY <1>12 DEF RaiseUsr1, ChildMoves
<1>13. ASSUME NEW c \in Children, ChildExit(c) PROVE Inv'
    BY <1>13 DEF ChildExit, ChildMoves, Announce
<1>14. ASSUME NEW c \in Children, InitReaps(c) PROVE Inv'
    BY <1>14 DEF InitReaps, ChildMoves
<1>15. CASE Press
  <2>1. sigint' \subseteq 0 .. CHILD_COUNT
    <3> DEFINE alive == {c \in Children : Alive(c)}
    <3>1. alive \subseteq Children /\ sigint' = sigint \cup {0} \cup alive
      BY <1>15 DEF Press
    <3> HIDE DEF alive
    <3> QED
      BY <3>1
  <2>2. presses' \in 0 .. PRESSES
    BY <1>15 DEF Press
  <2>3. UNCHANGED <<parent, forked, handling, sigchld, childVars>>
    BY <1>15 DEF Press
  <2> QED
    BY <2>1, <2>2, <2>3
<1>16. CASE UNCHANGED vars
    BY <1>16 DEF vars
<1> QED
    BY <1>1, <1>2, <1>3, <1>4, <1>5, <1>6, <1>7, <1>8, <1>9, <1>10, <1>11,
       <1>12, <1>13, <1>14, <1>15, <1>16 DEF Next, Parent, Child

\* At first there are no children.
LEMMA InitInv == Init => Inv
<1> SUFFICES ASSUME Init PROVE Inv
    OBVIOUS
<1> USE ReaperAssumption DEF Init, Children
<1>1. forked \in 0 .. CHILD_COUNT /\ presses \in 0 .. PRESSES
    OBVIOUS
<1>2. child \in [Children -> {"unborn"}] /\ \A c \in Children : c > forked
    OBVIOUS
<1>3. TypeOK
    BY <1>1, <1>2 DEF TypeOK
<1>4. ParentKnows /\ ChangesAnnounced
    BY DEF ParentKnows, ChangesAnnounced
<1> QED
    BY <1>3, <1>4 DEF Inv

\* The variables keep their types, and the children are born in order.
THEOREM TypesHold == SafeSpec => []TypeOK
<1>1. Inv => TypeOK
    BY DEF Inv
<1> QED
    BY <1>1, InitInv, InvStep, PTL DEF SafeSpec

\* handle_sigchld misses nothing, though signals coalesce: whatever has not
\* been reported has a signal pending or a handler looking for it, and every
\* zombie of a parent that is there is among the unreported ones.
THEOREM NothingMissed == SafeSpec => []ChangesAnnounced
<1>1. Inv => ChangesAnnounced
    BY DEF Inv
<1> QED
    BY <1>1, InitInv, InvStep, PTL DEF SafeSpec
-------------------------------------------------------------------------------
\* The user has not pressed ctrl + C before the first child has stopped.
NotPressedEarly == presses > 0 => child[1] \notin Early

\* Then nobody wakes before the first child, which sleeps the shortest time,
\* and no signal interrupts the sleep of the parent before the stop.
FirstChildFirst ==
    /\ child[1] \in Early =>
          /\ presses = 0 /\ sigint = {}
          /\ unreported = {} /\ ~sigchld /\ ~handling
          /\ parent \in {"fork", "sleep", "exit"}
          /\ \A c \in Children \ {1} : child[c] \in {"unborn", "sleep"}
    /\ parent = "pause" => child[1] # "stopped"

\* Every step before which and after which ctrl + C was not pressed too early
\* keeps that order.
LEMMA FirstStep ==
    Inv /\ FirstChildFirst /\ NotPressedEarly /\ NotPressedEarly' /\ [Next]_vars
        => FirstChildFirst'
<1> SUFFICES ASSUME Inv, FirstChildFirst, NotPressedEarly, NotPressedEarly',
                    [Next]_vars
             PROVE  FirstChildFirst'
    OBVIOUS
<1> USE ReaperAssumption
    DEF Inv, TypeOK, ParentKnows, FirstChildFirst, NotPressedEarly, Children,
        childVars, Early
<1>1. CASE Fork
    BY <1>1 DEF Fork
<1>2. CASE ForkFails
    BY <1>2 DEF ForkFails
<1>3. CASE SleepOver
    BY <1>3 DEF SleepOver
<1>4. CASE Continue
    BY <1>4 DEF Continue
<1>5. CASE EnterHandler
    BY <1>5 DEF EnterHandler
<1>6. CASE Reap
    BY <1>6 DEF Reap, Report
<1>7. CASE LeaveHandler
    BY <1>7 DEF LeaveHandler, Interrupted
<1>8. CASE HandleSigint
    BY <1>8 DEF HandleSigint, Interrupted
<1>9. ASSUME NEW c \in Children, ChildSleepOver(c) PROVE FirstChildFirst'
    BY <1>9 DEF ChildSleepOver, Awake, ChildMoves
<1>10. ASSUME NEW c \in Children, ChildSigint(c) PROVE FirstChildFirst'
    BY <1>10 DEF ChildSigint, Awake, ChildMoves
<1>11. CASE Stop
    BY <1>11 DEF Stop, ChildMoves, Announce
<1>12. ASSUME NEW c \in Children, RaiseUsr1(c) PROVE FirstChildFirst'
    BY <1>12 DEF RaiseUsr1, ChildMoves
<1>13. ASSUME NEW c \in Children, ChildExit(c) PROVE FirstChildFirst'
    BY <1>13 DEF ChildExit, ChildMoves, Announce
<1>14. ASSUME NEW c \in Children, InitReaps(c) PROVE FirstChildFirst'
    BY <1>14 DEF InitReaps, ChildMoves
<1>15. CASE Press
    BY <1>15 DEF Press, Alive
<1>16. CASE UNCHANGED vars
    BY <1>16 DEF vars
<1> QED
    BY <1>1, <1>2, <1>3, <1>4, <1>5, <1>6, <1>7, <1>8, <1>9, <1>10, <1>11,
       <1>12, <1>13, <1>14, <1>15, <1>16 DEF Next, Parent, Child

\* The safety half of AllReaped: if ctrl + C is not pressed before the first
\* child has stopped, SIGCONT is sent after the stop, although any SIGCHLD cuts
\* sleep(10) short; behind the kill the first child is no longer stopped and
\* will not stop any more.
THEOREM ContinuedAfterStop ==
    SafeSpec /\ []NotPressedEarly
        => [](parent = "pause" => child[1] \notin Early \cup {"stopped"})
<1>1. Init => FirstChildFirst
    BY DEF Init, FirstChildFirst, Children
<1>2. FirstChildFirst
          => (parent = "pause" => child[1] \notin Early \cup {"stopped"})
    BY DEF FirstChildFirst
<1> QED
    BY <1>1, <1>2, InitInv, InvStep, FirstStep, PTL DEF SafeSpec
===============================================================================
