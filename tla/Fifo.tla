-------------------------------- MODULE Fifo --------------------------------
(***************************************************************************)
(* designs/fifo/fifo.v: the golden design with a memory.  One step is one  *)
(* rising clock edge; the inputs are free at every edge.  The state starts *)
(* as the first reset edge leaves it; mem is not reset and holds anything. *)
(***************************************************************************)
EXTENDS Naturals, Sequences

CONSTANTS
  DEPTH,   \* entries of mem
  Words    \* values of WIDTH bits

(* AW is log2(DEPTH), as the comment in the code requires and the code does *)
(* not compute: so a pointer of AW + 1 bits counts modulo 2 * DEPTH.        *)
ASSUME FifoAssumption == DEPTH \in Nat \ {0} /\ 0 \in Words

VARIABLES
  wr_ptr, rd_ptr,  \* AW + 1 bits
  rd_data,
  mem

fifoVars == <<wr_ptr, rd_ptr, rd_data, mem>>

Pointers == 0 .. (2 * DEPTH - 1)
Addresses == 0 .. (DEPTH - 1)

(* The bit [AW] and the bits [AW-1:0] of a pointer. *)
Lap(ptr) == ptr >= DEPTH
Address(ptr) == IF Lap(ptr) THEN ptr - DEPTH ELSE ptr

(* Mutant of Increment: the pointer wraps at DEPTH, as if it had AW bits.   *)
IncrementShort(ptr) == IF ptr >= DEPTH - 1 THEN 0 ELSE ptr + 1

(* ptr + 1'b1, truncated to AW + 1 bits. *)
Increment(ptr) == IF ptr = 2 * DEPTH - 1 THEN 0 ELSE ptr + 1

(* Mutant of full: the lap bits are not compared. *)
fullAnyLap == Address(wr_ptr) = Address(rd_ptr)
full == Lap(wr_ptr) # Lap(rd_ptr) /\ Address(wr_ptr) = Address(rd_ptr)
empty == wr_ptr = rd_ptr

FifoInit ==
  /\ wr_ptr = 0 /\ rd_ptr = 0 /\ rd_data = 0
  /\ mem \in [Addresses -> Words]

FifoReset ==
  /\ wr_ptr' = 0 /\ rd_ptr' = 0 /\ rd_data' = 0
  /\ UNCHANGED mem

(* Mutant of FifoClock: blocking assignments, so a read sees the write      *)
(* pointer and the memory as this edge's write leaves them.                 *)
FifoClockBlocking(wr_en, wr_data, rd_en) ==
  /\ mem' = IF wr_en /\ ~full THEN [mem EXCEPT ![Address(wr_ptr)] = wr_data] ELSE mem
  /\ wr_ptr' = IF wr_en /\ ~full THEN Increment(wr_ptr) ELSE wr_ptr
  /\ rd_data' = IF rd_en /\ wr_ptr' # rd_ptr THEN mem'[Address(rd_ptr)] ELSE rd_data
  /\ rd_ptr' = IF rd_en /\ wr_ptr' # rd_ptr THEN Increment(rd_ptr) ELSE rd_ptr

(* All right-hand sides are values before the edge (nonblocking).           *)
FifoClock(wr_en, wr_data, rd_en) ==
  /\ mem' = IF wr_en /\ ~full THEN [mem EXCEPT ![Address(wr_ptr)] = wr_data] ELSE mem
  /\ wr_ptr' = IF wr_en /\ ~full THEN Increment(wr_ptr) ELSE wr_ptr
  /\ rd_data' = IF rd_en /\ ~empty THEN mem[Address(rd_ptr)] ELSE rd_data
  /\ rd_ptr' = IF rd_en /\ ~empty THEN Increment(rd_ptr) ELSE rd_ptr

FifoNext ==
  \/ FifoReset
  \/ \E wr_en, rd_en \in BOOLEAN, wr_data \in Words : FifoClock(wr_en, wr_data, rd_en)

FifoSpec == FifoInit /\ [][FifoNext]_fifoVars

-----------------------------------------------------------------------------
(* PROPERTIES                                                              *)

(* How many words lie between the pointers, counting laps. *)
Fill == IF wr_ptr >= rd_ptr THEN wr_ptr - rd_ptr ELSE wr_ptr + 2 * DEPTH - rd_ptr

(***************************************************************************)
(* The registers stay in their ranges, and the pointers, each of which     *)
(* wraps around on its own, are never more than DEPTH apart: nothing is    *)
(* overwritten before it is read, nothing is read that was not written.    *)
(***************************************************************************)
FillInv ==
  /\ wr_ptr \in Pointers /\ rd_ptr \in Pointers
  /\ rd_data \in Words
  /\ mem \in [Addresses -> Words]
  /\ Fill <= DEPTH

(* The word at distance i from the read pointer, and the words still to be read. *)
Slot(i) == Address(IF rd_ptr + i < 2 * DEPTH THEN rd_ptr + i ELSE rd_ptr + i - 2 * DEPTH)
Stored == [i \in 1 .. Fill |-> mem[Slot(i - 1)]]

Queue == INSTANCE FifoQueue WITH Capacity <- DEPTH, queue <- Stored, out <- rd_data

(***************************************************************************)
(* The FIFO is a queue: through any number of wrap-arounds, with reads and *)
(* writes in the same cycle, at full and at empty, words come out in the   *)
(* order they went in.  The testbench reads five words once and never      *)
(* wraps a pointer.                                                        *)
(***************************************************************************)
ImplementsQueue == Queue!Spec

(* The two flags tell exactly when the queue is full and empty. *)
FlagsTrue == (full <=> Queue!Full) /\ (empty <=> Queue!Empty)
=============================================================================
