----------------------------- MODULE SerialWord -----------------------------
(* The words the two serial designs, uart and spi_master, send.             *)
EXTENDS Naturals, Sequences

CONSTANTS
  BITS,  \* bits of a word: 8
  Bytes  \* values of tx_data, as functions from bit positions to bits

WordType == [0 .. (BITS - 1) -> {0, 1}]
Zero == [i \in 0 .. (BITS - 1) |-> 0]

ASSUME WordAssumption ==
  /\ BITS \in Nat \ {0}
  /\ Bytes \subseteq WordType
  /\ Zero \in Bytes
=============================================================================
