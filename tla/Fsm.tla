--------------------------------- MODULE Fsm ---------------------------------
(***************************************************************************)
(* designs/fsm/fsm.v as a function: what one rising clock edge makes of    *)
(* its registers.  A function and not a next-state relation, because the   *)
(* miter (FsmMiter) runs two copies of it side by side.                    *)
(***************************************************************************)
EXTENDS Naturals

CONSTANT LAST  \* the value of counter that ends the run: 3'd4

ASSUME FsmAssumption == LAST \in 0 .. 7

Bit == {0, 1}

(* Every value the registers can hold, encodings of no state included.     *)
Registers ==
  [state : 0 .. 3, counter : 0 .. 7, busy : Bit, done : Bit]

IDLE == 0
RUN == 1
FINISH == 2

Cleared == [state |-> IDLE, counter |-> 0, busy |-> 0, done |-> 0]

Idle(r, start) ==
  IF start = 1
  THEN [state |-> RUN, counter |-> 0, busy |-> 1, done |-> 0]
  ELSE [r EXCEPT !.busy = 0, !.done = 0]

Run(r) ==
  IF r.counter = LAST
  THEN [r EXCEPT !.state = FINISH, !.done = 0]
  ELSE [r EXCEPT !.counter = (r.counter + 1) % 8, !.done = 0]

Finish(r) == [r EXCEPT !.state = IDLE, !.busy = 0, !.done = 1]

Edge(r, rst_n, start) ==
  IF rst_n = 0 THEN Cleared
  ELSE IF r.state = IDLE THEN Idle(r, start)
  ELSE IF r.state = RUN THEN Run(r)
  ELSE IF r.state = FINISH THEN Finish(r)
  ELSE [r EXCEPT !.state = IDLE, !.done = 0]
=============================================================================
