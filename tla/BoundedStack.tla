----------------------------- MODULE BoundedStack -----------------------------
(***************************************************************************)
(* What the producer/consumer program of src/asm_7/ex_3 promises, with no  *)
(* thread, mutex or condition variable: the items 1, 2, ..., NUM_ITEMS are *)
(* put one after the other on a stack of bounded depth and taken off it,   *)
(* the newest first, and the totals of both sides count each item once.    *)
(***************************************************************************)
EXTENDS Integers, Sequences

CONSTANTS BUFFER_SIZE,   \* the most items in transit
          NUM_ITEMS      \* the number of items to transfer

VARIABLES stack,         \* items in transit, the newest last
          made,          \* number of items put so far
          sent,          \* total of the items put
          received       \* total of the items taken

stackVars == <<stack, made, sent, received>>

Init == /\ stack = << >>
        /\ made = 0
        /\ sent = 0
        /\ received = 0

Put == /\ made < NUM_ITEMS
       /\ Len(stack) < BUFFER_SIZE
       /\ stack' = Append(stack, made + 1)
       /\ made' = made + 1
       /\ sent' = sent + made + 1
       /\ UNCHANGED received

Take == /\ stack # << >>
        /\ stack' = SubSeq(stack, 1, Len(stack) - 1)
        /\ received' = received + stack[Len(stack)]
        /\ UNCHANGED <<made, sent>>

Next == Put \/ Take

\* Every item that can be moved is moved sooner or later.
Fairness == WF_stackVars(Put) /\ WF_stackVars(Take)

SafeSpec == Init /\ [][Next]_stackVars
Spec == SafeSpec /\ Fairness
===============================================================================
