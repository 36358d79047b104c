-------------------------------- MODULE Uart --------------------------------
(***************************************************************************)
(* designs/uart/uart.v, the transmitter.  One step is one rising clock     *)
(* edge; rst_n, tx_start and tx_data are free at every edge, also while a  *)
(* frame is on the line.  The state starts as the first reset edge leaves  *)
(* it.                                                                     *)
(***************************************************************************)
EXTENDS SerialWord

VARIABLES uart_state, bit_index, uart_shift, tx, tx_busy

uartVars == <<uart_state, bit_index, uart_shift, tx, tx_busy>>

UartInit ==
  /\ uart_state = "IDLE"
  /\ bit_index = 0
  /\ uart_shift = Zero
  /\ tx = 1
  /\ tx_busy = FALSE

UartReset ==
  /\ uart_state' = "IDLE"
  /\ bit_index' = 0
  /\ uart_shift' = Zero
  /\ tx' = 1
  /\ tx_busy' = FALSE

UartWait ==
  /\ uart_state = "IDLE"
  /\ tx' = 1
  /\ UNCHANGED <<uart_state, bit_index, uart_shift, tx_busy>>

UartStart(tx_data) ==
  /\ uart_state = "IDLE"
  /\ tx' = 1
  /\ uart_state' = "START_BIT"
  /\ uart_shift' = tx_data
  /\ tx_busy' = TRUE
  /\ UNCHANGED bit_index

(* Mutant of StartBit: bit_index is not cleared for the next frame. *)
StartBitNoClear ==
  /\ uart_state = "START_BIT"
  /\ tx' = 0
  /\ uart_state' = "DATA_BITS"
  /\ UNCHANGED <<bit_index, uart_shift, tx_busy>>

StartBit ==
  /\ uart_state = "START_BIT"
  /\ tx' = 0
  /\ uart_state' = "DATA_BITS"
  /\ bit_index' = 0
  /\ UNCHANGED <<uart_shift, tx_busy>>

(* Mutant of DataBit: the last position is compared one too low. *)
DataBitShort ==
  /\ uart_state = "DATA_BITS"
  /\ tx' = uart_shift[bit_index]
  /\ uart_state' = IF bit_index = BITS - 2 THEN "STOP_BIT" ELSE uart_state
  /\ bit_index' = IF bit_index = BITS - 2 THEN bit_index ELSE bit_index + 1
  /\ UNCHANGED <<uart_shift, tx_busy>>

DataBit ==
  /\ uart_state = "DATA_BITS"
  /\ tx' = uart_shift[bit_index]
  /\ IF bit_index = BITS - 1
     THEN uart_state' = "STOP_BIT" /\ UNCHANGED bit_index
     ELSE bit_index' = bit_index + 1 /\ UNCHANGED uart_state
  /\ UNCHANGED <<uart_shift, tx_busy>>

(* Mutant of StopBit: tx_busy stays on until the next frame. *)
StopBitBusy ==
  /\ uart_state = "STOP_BIT"
  /\ tx' = 1
  /\ uart_state' = "IDLE"
  /\ UNCHANGED <<bit_index, uart_shift, tx_busy>>

StopBit ==
  /\ uart_state = "STOP_BIT"
  /\ tx' = 1
  /\ tx_busy' = FALSE
  /\ uart_state' = "IDLE"
  /\ UNCHANGED <<bit_index, uart_shift>>

UartNext ==
  \/ UartReset \/ UartWait \/ (\E tx_data \in Bytes : UartStart(tx_data))
  \/ StartBit \/ DataBit \/ StopBit

UartSpec == UartInit /\ [][UartNext]_uartVars

-----------------------------------------------------------------------------
(* PROPERTIES                                                              *)

(***************************************************************************)
(* Type invariant; tx_busy is on in every state but IDLE.                  *)
(***************************************************************************)
UartTypeOK ==
  /\ uart_state \in {"IDLE", "START_BIT", "DATA_BITS", "STOP_BIT"}
  /\ bit_index \in 0 .. (BITS - 1)
  /\ uart_shift \in Bytes
  /\ tx \in {0, 1}
  /\ tx_busy \in BOOLEAN
  /\ tx_busy <=> uart_state # "IDLE"

(* The bits of the current frame that are not on the line yet. *)
Pending ==
  IF uart_state = "IDLE" THEN 0
  ELSE IF uart_state = "START_BIT" THEN BITS + 2
  ELSE IF uart_state = "DATA_BITS" THEN BITS + 1 - bit_index
  ELSE 1

FrameBit(i) == IF i = 1 THEN 0 ELSE IF i = BITS + 2 THEN 1 ELSE uart_shift[i - 2]
Rest == [i \in 1 .. Pending |-> FrameBit(BITS + 2 - Pending + i)]

Line == INSTANCE UartLine WITH rest <- Rest, line <- tx, busy <- tx_busy

(***************************************************************************)
(* The transmitter sends whole frames of the accepted words and nothing    *)
(* else: a start or new data in the middle of a frame changes nothing,     *)
(* frames may follow each other without a gap, and tx_busy covers exactly  *)
(* the cycles up to the stop bit.                                          *)
(***************************************************************************)
ImplementsLine == Line!Spec
=============================================================================
