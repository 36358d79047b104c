------------------------------ MODULE UartLine ------------------------------
(***************************************************************************)
(* What designs/uart/uart.v puts on its line: nothing but whole frames, a  *)
(* start bit, the word from its lowest bit on, a stop bit, one bit in each *)
(* clock cycle, for the word that was there when the start was accepted.   *)
(***************************************************************************)
EXTENDS Naturals, Sequences

CONSTANTS BITS, Bytes

VARIABLES
  rest,  \* the bits still to be put on the line
  line,  \* the line
  busy

vars == <<rest, line, busy>>

Frame(word) ==
  [i \in 1 .. (BITS + 2) |->
     IF i = 1 THEN 0 ELSE IF i = BITS + 2 THEN 1 ELSE word[i - 2]]

Init == rest = <<>> /\ line = 1 /\ busy = FALSE

Reset == rest' = <<>> /\ line' = 1 /\ busy' = FALSE

Idle == rest = <<>> /\ UNCHANGED rest /\ line' = 1 /\ busy' = FALSE

Begin(word) ==
  /\ rest = <<>>
  /\ rest' = Frame(word)
  /\ line' = 1
  /\ busy' = TRUE

Send ==
  /\ rest # <<>>
  /\ rest' = Tail(rest)
  /\ line' = Head(rest)
  /\ busy' = (Len(rest) > 1)

Next == Reset \/ Idle \/ (\E word \in Bytes : Begin(word)) \/ Send

Spec == Init /\ [][Next]_vars
=============================================================================
