----------------------------- MODULE SpiMaster -----------------------------
(***************************************************************************)
(* designs/spi_master/spi_master.v with the slave it talks to.  One step   *)
(* is one rising edge of clk; rst_n, start and tx_data are free at every   *)
(* edge.  The master moves mosi with the rising edge of sclk, so the slave *)
(* (external) samples mosi when sclk falls while it is selected.  The      *)
(* state starts as the first reset edge leaves it.                         *)
(***************************************************************************)
EXTENDS SerialWord

VARIABLES
  spi_state, sclk, cs_n, mosi, busy, bit_count, spi_shift,
  sent,     \* history: tx_data when the transfer was accepted
  received  \* the slave: the bits sampled in this transfer, in order

master == <<spi_state, sclk, cs_n, mosi, busy, bit_count, spi_shift>>
spiVars == <<master, sent, received>>

SpiInit ==
  /\ spi_state = "IDLE"
  /\ sclk = 0 /\ cs_n = 1 /\ mosi = 0 /\ busy = 0
  /\ bit_count = 0
  /\ spi_shift = Zero
  /\ sent = Zero
  /\ received = <<>>

-----------------------------------------------------------------------------
(* The slave looks at the pins before and after the edge; it starts afresh  *)
(* when it is selected.                                                     *)
SlaveSees ==
  received' =
    IF cs_n = 1 /\ cs_n' = 0 THEN <<>>
    ELSE IF cs_n = 0 /\ sclk = 1 /\ sclk' = 0 THEN Append(received, mosi)
    ELSE received

SpiReset ==
  /\ spi_state' = "IDLE"
  /\ sclk' = 0 /\ cs_n' = 1 /\ mosi' = 0 /\ busy' = 0
  /\ bit_count' = 0
  /\ spi_shift' = Zero
  /\ UNCHANGED sent
  /\ received' = <<>>

SpiWait ==
  /\ spi_state = "IDLE"
  /\ sclk' = 0
  /\ UNCHANGED <<spi_state, cs_n, mosi, busy, bit_count, spi_shift, sent>>
  /\ SlaveSees

SpiStart(tx_data) ==
  /\ spi_state = "IDLE"
  /\ sclk' = 0
  /\ spi_state' = "XFER"
  /\ cs_n' = 0
  /\ busy' = 1
  /\ spi_shift' = tx_data
  /\ bit_count' = 0
  /\ sent' = tx_data
  /\ UNCHANGED mosi
  /\ SlaveSees

(* {shift_reg[6:0], 1'b0} *)
Shifted == [i \in 0 .. (BITS - 1) |-> IF i = 0 THEN 0 ELSE spi_shift[i - 1]]

(* The first half of a bit: sclk rises and mosi takes the highest bit.      *)
Raise ==
  /\ spi_state = "XFER" /\ sclk = 0
  /\ sclk' = 1
  /\ mosi' = spi_shift[BITS - 1]
  /\ UNCHANGED <<spi_state, cs_n, busy, bit_count, spi_shift, sent>>
  /\ SlaveSees

(* Mutant of Lower: mosi already takes the next bit when sclk falls.        *)
LowerMovingMosi ==
  /\ spi_state = "XFER" /\ sclk = 1
  /\ sclk' = 0
  /\ IF bit_count = BITS - 1
     THEN spi_state' = "DONE" /\ UNCHANGED <<bit_count, spi_shift>>
     ELSE bit_count' = bit_count + 1 /\ spi_shift' = Shifted /\ UNCHANGED spi_state
  /\ mosi' = spi_shift'[BITS - 1]
  /\ UNCHANGED <<cs_n, busy, sent>>
  /\ SlaveSees

(* Mutant of Lower: the shift happens in the last bit only.                 *)
LowerShiftMixedUp ==
  /\ spi_state = "XFER" /\ sclk = 1
  /\ sclk' = 0
  /\ mosi' = spi_shift[BITS - 1]
  /\ IF bit_count = BITS - 1
     THEN spi_state' = "DONE" /\ spi_shift' = Shifted /\ UNCHANGED bit_count
     ELSE bit_count' = bit_count + 1 /\ UNCHANGED <<spi_state, spi_shift>>
  /\ UNCHANGED <<cs_n, busy, sent>>
  /\ SlaveSees

(* The second half: sclk falls, and the register shifts unless that was the *)
(* last bit.  mosi is assigned from the register as it was.                 *)
Lower ==
  /\ spi_state = "XFER" /\ sclk = 1
  /\ sclk' = 0
  /\ mosi' = spi_shift[BITS - 1]
  /\ IF bit_count = BITS - 1
     THEN spi_state' = "DONE" /\ UNCHANGED <<bit_count, spi_shift>>
     ELSE bit_count' = bit_count + 1 /\ spi_shift' = Shifted /\ UNCHANGED spi_state
  /\ UNCHANGED <<cs_n, busy, sent>>
  /\ SlaveSees

(* Mutant of Release: chip select is left to the next transfer.             *)
ReleaseBusyOnly ==
  /\ spi_state = "DONE"
  /\ busy' = 0
  /\ spi_state' = "IDLE"
  /\ UNCHANGED <<sclk, cs_n, mosi, bit_count, spi_shift, sent>>
  /\ SlaveSees

Release ==
  /\ spi_state = "DONE"
  /\ cs_n' = 1
  /\ busy' = 0
  /\ spi_state' = "IDLE"
  /\ UNCHANGED <<sclk, mosi, bit_count, spi_shift, sent>>
  /\ SlaveSees

SpiNext ==
  \/ SpiReset \/ SpiWait \/ (\E tx_data \in Bytes : SpiStart(tx_data))
  \/ Raise \/ Lower \/ Release

SpiSpec == SpiInit /\ [][SpiNext]_spiVars

-----------------------------------------------------------------------------
(* PROPERTIES                                                              *)

(* Type invariant; the slave is selected exactly while the master is busy,  *)
(* and the clock only runs then.                                            *)
SpiTypeOK ==
  /\ spi_state \in {"IDLE", "XFER", "DONE"}
  /\ sclk \in {0, 1} /\ cs_n \in {0, 1} /\ mosi \in {0, 1} /\ busy \in {0, 1}
  /\ bit_count \in 0 .. (BITS - 1)
  /\ spi_shift \in WordType /\ sent \in WordType
  /\ received \in Seq({0, 1})
  /\ busy = 1 <=> spi_state # "IDLE"
  /\ cs_n = 0 <=> spi_state # "IDLE"
  /\ sclk = 1 => spi_state = "XFER"

(* The first n bits of a word, highest first. *)
HighBits(word, n) == [i \in 1 .. n |-> word[BITS - i]]

(***************************************************************************)
(* When a transfer ends without a reset, the slave has received exactly    *)
(* the word that was accepted, highest bit first, whatever start and       *)
(* tx_data did meanwhile.  The testbench never looks at mosi.              *)
(***************************************************************************)
Delivered == [][Release => received' = HighBits(sent, BITS)]_spiVars

(***************************************************************************)
(* mosi is stable around the edge at which the slave samples it.           *)
(***************************************************************************)
MosiStable == [][cs_n = 0 /\ sclk = 1 /\ sclk' = 0 /\ cs_n' = 0 => mosi' = mosi]_spiVars

(***************************************************************************)
(* The strengthening behind both: in the middle of a transfer the slave    *)
(* has the first bit_count bits, and the register holds the other ones.    *)
(***************************************************************************)
TransferInv ==
  /\ spi_state = "XFER" =>
       /\ received = HighBits(sent, bit_count)
       /\ \A i \in bit_count .. (BITS - 1) : spi_shift[i] = sent[i - bit_count]
       /\ sclk = 1 => mosi = sent[BITS - 1 - bit_count]
  /\ spi_state = "DONE" => received = HighBits(sent, BITS)
=============================================================================
