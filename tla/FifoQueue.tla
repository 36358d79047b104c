----------------------------- MODULE FifoQueue -----------------------------
(***************************************************************************)
(* What designs/fifo/fifo.v is for: a queue of at most Capacity words with *)
(* a registered output.  In a clock cycle a word is accepted unless the    *)
(* queue was full, and one is taken out unless it was empty; both are      *)
(* decided by the state before the clock edge.                             *)
(***************************************************************************)
EXTENDS Naturals, Sequences

CONSTANTS Words, Capacity

VARIABLES
  queue,  \* the words in the FIFO, oldest first
  out     \* the output register

vars == <<queue, out>>

Init == queue = <<>> /\ out = 0

Reset == queue' = <<>> /\ out' = 0

Full == Len(queue) = Capacity
Empty == queue = <<>>

Cycle(put, word, take) ==
  LET kept == IF take /\ ~Empty THEN Tail(queue) ELSE queue IN
    /\ queue' = IF put /\ ~Full THEN Append(kept, word) ELSE kept
    /\ out' = IF take /\ ~Empty THEN Head(queue) ELSE out

Next ==
  \/ Reset
  \/ \E put, take \in BOOLEAN, word \in Words : Cycle(put, word, take)

Spec == Init /\ [][Next]_vars
=============================================================================
