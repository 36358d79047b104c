---------------------------- MODULE DesignProofs ----------------------------
(***************************************************************************)
(* The four golden designs: the FIFO is a queue for every depth and every  *)
(* set of words; the transmitter sends whole frames and every completed    *)
(* transfer of the SPI master delivers its word, for words of any width;   *)
(* the fsm agrees with itself for runs of any length its counter measures. *)
(***************************************************************************)
EXTENDS Fifo, Uart, SpiMaster, FsmMiter, TLAPS

-----------------------------------------------------------------------------
(* THE FIFO                                                                *)

(* The arithmetic of the two pointers.                                      *)
LEMMA FlagsFill ==
  ASSUME FillInv
  PROVE /\ Fill \in 0 .. DEPTH
        /\ full <=> Fill = DEPTH
        /\ empty <=> Fill = 0
BY FifoAssumption DEF FillInv, Pointers, Fill, full, empty, Lap, Address

LEMMA AddressType == ASSUME NEW p \in Pointers PROVE Address(p) \in Addresses
BY FifoAssumption DEF Pointers, Addresses, Address, Lap

LEMMA SlotType ==
  ASSUME FillInv, NEW i \in 0 .. DEPTH
  PROVE Slot(i) \in Addresses
BY FifoAssumption DEF FillInv, Pointers, Addresses, Slot, Address, Lap

(* The write pointer is at distance Fill of the read pointer, where no      *)
(* stored word is as long as the FIFO is not full.                          *)
LEMMA WriteSlot ==
  ASSUME FillInv
  PROVE /\ Address(wr_ptr) = Slot(Fill)
        /\ Fill < DEPTH => \A i \in 0 .. (Fill - 1) : Slot(i) # Address(wr_ptr)
BY FifoAssumption DEF FillInv, Pointers, Slot, Fill, Address, Lap

LEMMA ReadSlot == ASSUME FillInv PROVE Address(rd_ptr) = Slot(0)
BY FifoAssumption DEF FillInv, Pointers, Slot, Address, Lap

(* What Stored is, as a sequence. *)
StoredFacts ==
  /\ Stored \in Seq(Words)
  /\ Len(Stored) = Fill
  /\ \A i \in 1 .. Fill : Stored[i] = mem[Slot(i - 1)]

LEMMA StoredSeq == FillInv => StoredFacts
<1> SUFFICES ASSUME FillInv PROVE StoredFacts
  OBVIOUS
<1>1. Fill \in Nat /\ Fill <= DEPTH
  BY FlagsFill, FifoAssumption
<1>2. \A i \in 1 .. Fill : mem[Slot(i - 1)] \in Words
  <2> TAKE i \in 1 .. Fill
  <2>1. Slot(i - 1) \in Addresses
    BY <1>1, SlotType, FifoAssumption
  <2> QED
    BY <2>1 DEF FillInv
<1> QED
  BY <1>1, <1>2 DEF Stored, StoredFacts

LEMMA StoredSeqNext == FillInv' => StoredFacts'
BY StoredSeq, PTL

(* No words are stored when the pointers meet.                              *)
LEMMA StoredEmpty == FillInv /\ Fill = 0 => Stored = <<>>
BY StoredSeq DEF StoredFacts

LEMMA StoredEmptyNext == FillInv' /\ (Fill = 0)' => (Stored = <<>>)'
BY StoredEmpty, PTL

(* What one clock edge does to the pointers and to the memory.              *)
LEMMA ClockStep ==
  ASSUME FillInv,
         NEW wr_en \in BOOLEAN, NEW rd_en \in BOOLEAN, NEW wr_data \in Words,
         FifoClock(wr_en, wr_data, rd_en)
  PROVE /\ FillInv'
        /\ Queue!Cycle(wr_en, wr_data, rd_en)
<1> DEFINE put == wr_en /\ ~full
           take == rd_en /\ ~empty
           first == IF take THEN 1 ELSE 0
           kept == IF take THEN Tail(Stored) ELSE Stored
<1>1. /\ Fill \in 0 .. DEPTH
      /\ full <=> Fill = DEPTH
      /\ empty <=> Fill = 0
  BY FlagsFill
<1>2. wr_ptr' \in Pointers /\ rd_ptr' \in Pointers
  BY FifoAssumption DEF FillInv, Pointers, FifoClock, Increment
<1>3. Fill' = Fill + (IF put THEN 1 ELSE 0) - first
  BY <1>1, FifoAssumption DEF FillInv, Pointers, FifoClock, Increment, Fill
<1>4. Address(wr_ptr) \in Addresses /\ Address(rd_ptr) \in Addresses
  BY AddressType DEF FillInv
<1>5. mem' \in [Addresses -> Words] /\ rd_data' \in Words
  BY <1>4 DEF FillInv, FifoClock
<1>6. FillInv'
  <2>1. Fill' <= DEPTH
    BY <1>1, <1>3, FifoAssumption
  <2> QED
    BY <1>2, <1>5, <2>1 DEF FillInv
<1>7. /\ Stored \in Seq(Words) /\ Len(Stored) = Fill
      /\ \A i \in 1 .. Fill : Stored[i] = mem[Slot(i - 1)]
  BY StoredSeq DEF StoredFacts
<1>8. /\ Stored' \in Seq(Words) /\ Len(Stored') = Fill'
      /\ \A i \in 1 .. Fill' : Stored'[i] = mem'[Slot(i - 1)']
  BY <1>6, StoredSeqNext DEF StoredFacts
<1>9. \A i \in 0 .. DEPTH : i + first <= DEPTH => Slot(i)' = Slot(i + first)
  BY FifoAssumption DEF FillInv, Pointers, FifoClock, Increment, Slot
<1>10. \A i \in 0 .. (Fill - 1) : mem'[Slot(i)] = mem[Slot(i)]
  <2> TAKE i \in 0 .. (Fill - 1)
  <2>1. Slot(i) \in Addresses
    BY <1>1, SlotType, FifoAssumption
  <2>2. put => Slot(i) # Address(wr_ptr)
    BY <1>1, WriteSlot, FifoAssumption
  <2> QED
    BY <2>1, <2>2 DEF FifoClock, FillInv
<1>11. put => mem'[Slot(Fill)] = wr_data
  BY <1>4, WriteSlot DEF FifoClock, FillInv
<1>12. /\ kept \in Seq(Words)
       /\ Len(kept) = Fill - first
       /\ \A i \in 1 .. (Fill - first) : kept[i] = mem[Slot(i + first - 1)]
  <2>1. CASE take
    <3>1. Stored # <<>>
      BY <1>1, <1>7, <2>1
    <3> QED
      BY <1>1, <1>7, <2>1, <3>1
  <2>2. CASE ~take
    BY <1>1, <1>7, <2>2
  <2> QED
    BY <2>1, <2>2
<1>13. \A i \in 1 .. (Fill - first) : Stored'[i] = kept[i]
  <2> TAKE i \in 1 .. (Fill - first)
  <2>1. i \in 1 .. Fill' /\ i + first - 1 \in 0 .. (Fill - 1) /\ (i - 1) + first <= DEPTH
    BY <1>1, <1>3, FifoAssumption
  <2>2. Stored'[i] = mem'[Slot(i - 1)']
    BY <1>8, <2>1
  <2>3. Slot(i - 1)' = Slot(i + first - 1)
    BY <1>1, <1>9, <2>1, FifoAssumption
  <2> QED
    BY <1>10, <1>12, <2>1, <2>2, <2>3
<1>14. put => Stored'[Fill - first + 1] = wr_data
  <2> SUFFICES ASSUME put, NEW n \in 0 .. DEPTH, n = Fill - first
               PROVE Stored'[n + 1] = wr_data
    BY <1>1, FifoAssumption
  <2>1. n + first = Fill /\ n + 1 \in 1 .. Fill' /\ (n + 1) - 1 = n /\ Fill <= DEPTH
    BY <1>1, <1>3, FifoAssumption
  <2>2. Stored'[n + 1] = mem'[Slot(n)']
    BY <1>8, <2>1
  <2>3. Slot(n)' = Slot(Fill)
    BY <1>9, <2>1
  <2> QED
    BY <1>11, <2>2, <2>3
<1> HIDE DEF kept
<1>15. Stored' = IF put THEN Append(kept, wr_data) ELSE kept
  <2>1. CASE put
    <3>1. Append(kept, wr_data) \in Seq(Words) /\ Len(Append(kept, wr_data)) = Len(Stored')
      BY <1>1, <1>3, <1>8, <1>12, <2>1
    <3>2. \A i \in 1 .. Len(Stored') : Stored'[i] = Append(kept, wr_data)[i]
      BY <1>1, <1>3, <1>8, <1>12, <1>13, <1>14, <2>1
    <3> QED
      BY <1>8, <2>1, <3>1, <3>2
  <2>2. CASE ~put
    BY <1>1, <1>3, <1>8, <1>12, <1>13, <2>2
  <2> QED
    BY <2>1, <2>2
<1>16. rd_data' = IF take THEN Head(Stored) ELSE rd_data
  BY <1>1, <1>7, ReadSlot DEF FifoClock
<1>17. (full <=> Queue!Full) /\ (empty <=> Queue!Empty)
  BY <1>1, <1>7 DEF Queue!Full, Queue!Empty
<1> QED
  BY <1>6, <1>15, <1>16, <1>17 DEF Queue!Cycle, kept

LEMMA InitFill == ASSUME FifoInit PROVE FillInv /\ Queue!Init
<1>1. FillInv /\ Fill = 0 /\ rd_data = 0
  BY FifoAssumption DEF FifoInit, FillInv, Pointers, Fill
<1> QED
  BY <1>1, StoredEmpty DEF Queue!Init

LEMMA ResetStep == ASSUME FillInv, FifoReset PROVE FillInv' /\ Queue!Reset
<1>1. FillInv' /\ (Fill = 0)' /\ rd_data' = 0
  BY FifoAssumption DEF FifoReset, FillInv, Pointers, Fill
<1> QED
  BY <1>1, StoredEmptyNext DEF Queue!Reset

LEMMA FifoStep == ASSUME FillInv, [FifoNext]_fifoVars PROVE FillInv' /\ [Queue!Next]_Queue!vars
<1>1. CASE FifoReset
  BY <1>1, ResetStep DEF Queue!Next
<1>2. ASSUME NEW wr_en \in BOOLEAN, NEW rd_en \in BOOLEAN, NEW wr_data \in Words,
             FifoClock(wr_en, wr_data, rd_en)
      PROVE FillInv' /\ [Queue!Next]_Queue!vars
  BY <1>2, ClockStep DEF Queue!Next
<1>3. CASE UNCHANGED fifoVars
  BY <1>3 DEF fifoVars, FillInv, Fill, Stored, Slot, Queue!vars
<1> QED
  BY <1>1, <1>2, <1>3 DEF FifoNext

(***************************************************************************)
(* The pointers of fifo.v are never more than DEPTH apart.                 *)
(***************************************************************************)
THEOREM FillCorrect == FifoSpec => []FillInv
BY InitFill, FifoStep, PTL DEF FifoSpec

(***************************************************************************)
(* The golden FIFO implements a queue of DEPTH words.                      *)
(***************************************************************************)
THEOREM QueueImplemented == FifoSpec => ImplementsQueue
BY InitFill, FifoStep, PTL DEF FifoSpec, ImplementsQueue, Queue!Spec

(***************************************************************************)
(* full and empty tell the truth at every moment.                          *)
(***************************************************************************)
THEOREM FlagsCorrect == FifoSpec => []FlagsTrue
<1>1. FillInv => FlagsTrue
  BY FlagsFill, StoredSeq DEF StoredFacts, FlagsTrue, Queue!Full, Queue!Empty
<1> QED
  BY <1>1, FillCorrect, PTL

-----------------------------------------------------------------------------
(* THE SERIAL TRANSMITTER                                                  *)

(* Words have at least one bit, and the word of zeros is one.              *)
LEMMA BitsZero == BITS \in Nat \ {0} /\ 0 \in 0 .. (BITS - 1) /\ Zero \in Bytes /\ Zero \in WordType
BY WordAssumption DEF Zero, WordType

(* What Rest is, as a sequence. *)
RestFacts ==
  /\ Pending \in 0 .. (BITS + 2)
  /\ Rest \in Seq({0, 1})
  /\ Len(Rest) = Pending
  /\ \A i \in 1 .. Pending : Rest[i] = FrameBit(BITS + 2 - Pending + i)

LEMMA RestSeq == UartTypeOK => RestFacts
<1> SUFFICES ASSUME UartTypeOK PROVE RestFacts
  OBVIOUS
<1>1. Pending \in 0 .. (BITS + 2)
  BY WordAssumption DEF UartTypeOK, Pending
<1>2. \A i \in 1 .. (BITS + 2) : FrameBit(i) \in {0, 1}
  BY WordAssumption DEF WordType, UartTypeOK, FrameBit
<1>3. \A i \in 1 .. Pending : BITS + 2 - Pending + i \in 1 .. (BITS + 2)
  BY <1>1, WordAssumption
<1>4. Rest \in Seq({0, 1}) /\ Len(Rest) = Pending
  BY <1>1, <1>2, <1>3 DEF Rest
<1> QED
  BY <1>1, <1>4 DEF RestFacts, Rest

LEMMA RestSeqNext == UartTypeOK' => RestFacts'
BY RestSeq, PTL

(* Every clock edge keeps the registers in their domains.                   *)
LEMMA UartTypeStep == ASSUME UartTypeOK, [UartNext]_uartVars PROVE UartTypeOK'
<1>0. 0 \in 0 .. (BITS - 1) /\ Zero \in Bytes
  BY BitsZero
<1>1. CASE UartReset
  BY <1>0, <1>1 DEF UartTypeOK, UartReset
<1>2. CASE UartWait
  BY <1>2 DEF UartTypeOK, UartWait
<1>3. ASSUME NEW tx_data \in Bytes, UartStart(tx_data) PROVE UartTypeOK'
  BY <1>3 DEF UartTypeOK, UartStart
<1>4. CASE StartBit
  BY <1>4, WordAssumption DEF UartTypeOK, StartBit
<1>5. CASE DataBit
  <2>1. uart_shift[bit_index] \in {0, 1}
    BY WordAssumption DEF WordType, UartTypeOK
  <2>2. bit_index' \in 0 .. (BITS - 1) /\ uart_state' \in {"DATA_BITS", "STOP_BIT"}
    BY <1>5, WordAssumption DEF UartTypeOK, DataBit
  <2> QED
    BY <1>5, <2>1, <2>2 DEF UartTypeOK, DataBit
<1>6. CASE StopBit
  BY <1>6 DEF UartTypeOK, StopBit
<1>7. CASE UNCHANGED uartVars
  BY <1>7 DEF UartTypeOK, uartVars
<1> QED
  BY <1>1, <1>2, <1>3, <1>4, <1>5, <1>6, <1>7 DEF UartNext

LEMMA InitType == ASSUME UartInit PROVE UartTypeOK /\ Line!Init
<1>0. 0 \in 0 .. (BITS - 1) /\ Zero \in Bytes
  BY BitsZero
<1>1. UartTypeOK /\ Pending = 0
  BY <1>0 DEF UartInit, UartTypeOK, Pending
<1>2. Rest = <<>>
  BY <1>1, RestSeq DEF RestFacts
<1> QED
  BY <1>1, <1>2 DEF UartInit, Line!Init

(* The data bits of a frame, between the start bit and the stop bit.        *)
LEMMA FrameData == \A j \in 0 .. (BITS - 1) : FrameBit(j + 2) = uart_shift[j]
<1> TAKE j \in 0 .. (BITS - 1)
<1>1. j + 2 # 1 /\ j + 2 # BITS + 2 /\ (j + 2) - 2 = j
  BY WordAssumption
<1>2. FrameBit(j + 2) = uart_shift[(j + 2) - 2]
  BY <1>1, Zenon DEF FrameBit
<1> QED
  BY <1>1, <1>2

(* A cycle in which a frame is on the line sends its next bit.              *)
LEMMA SendStep ==
  ASSUME UartTypeOK, UartTypeOK', StartBit \/ DataBit \/ StopBit
  PROVE Line!Send
<1>1. RestFacts /\ RestFacts'
  BY RestSeq, RestSeqNext
<1>2. /\ Pending > 0 /\ Pending' = Pending - 1 /\ uart_shift' = uart_shift
      /\ tx' = FrameBit(BITS + 2 - Pending + 1)
      /\ tx_busy' <=> Pending > 1
  <2>1. CASE StartBit
    <3>1. Pending = BITS + 2 /\ Pending' = BITS + 1 /\ BITS \in Nat \ {0}
      BY <2>1, BitsZero DEF Pending, StartBit
    <3>2. FrameBit(1) = 0 /\ BITS + 2 - Pending + 1 = 1
      BY <3>1 DEF FrameBit
    <3>3. tx_busy' <=> Pending > 1
      BY <2>1, <3>1 DEF UartTypeOK, StartBit
    <3> QED
      BY <2>1, <3>1, <3>2, <3>3 DEF StartBit
  <2>2. CASE DataBit
    <3>1. Pending = BITS + 1 - bit_index /\ bit_index \in 0 .. (BITS - 1)
      BY <2>2 DEF UartTypeOK, Pending, DataBit
    <3>2. Pending' = Pending - 1
      BY <2>2, <3>1, WordAssumption DEF Pending, DataBit
    <3>3. FrameBit(bit_index + 2) = uart_shift[bit_index]
      BY <3>1, FrameData
    <3>4. BITS + 2 - Pending + 1 = bit_index + 2 /\ Pending > 1
      BY <3>1, WordAssumption
    <3>5. tx_busy' <=> Pending > 1
      BY <2>2, <3>4 DEF UartTypeOK, DataBit
    <3> QED
      BY <2>2, <3>1, <3>2, <3>3, <3>4, <3>5 DEF DataBit
  <2>3. CASE StopBit
    BY <2>3, WordAssumption DEF UartTypeOK, Pending, FrameBit, StopBit
  <2> QED
    BY <2>1, <2>2, <2>3
<1>3. tx' = FrameBit(BITS + 2 - Pending + 1)
  BY <1>2
<1>4. Rest # <<>> /\ Head(Rest) = tx'
  BY <1>1, <1>2, <1>3 DEF RestFacts
<1>6. Tail(Rest) \in Seq({0, 1}) /\ Len(Tail(Rest)) = Pending'
  BY <1>1, <1>2, <1>4 DEF RestFacts
<1>7. \A i \in 1 .. Pending' : Rest'[i] = Tail(Rest)[i]
  <2> TAKE i \in 1 .. Pending'
  <2>1. Rest'[i] = (FrameBit(BITS + 2 - Pending + i))'
    BY <1>1 DEF RestFacts
  <2>2. Tail(Rest)[i] = FrameBit(BITS + 2 - Pending + (i + 1))
    BY <1>1, <1>2, <1>4 DEF RestFacts
  <2>3. BITS + 2 - Pending' + i = BITS + 2 - Pending + (i + 1)
    BY <1>1, <1>2, WordAssumption DEF RestFacts
  <2>4. (FrameBit(BITS + 2 - Pending + i))' = FrameBit(BITS + 2 - Pending + (i + 1))
    BY <1>2, <2>3 DEF FrameBit
  <2> QED
    BY <2>1, <2>2, <2>4
<1>8. Rest' = Tail(Rest)
  BY <1>1, <1>6, <1>7 DEF RestFacts
<1>9. tx_busy' = (Len(Rest) > 1)
  <2>1. tx_busy' \in BOOLEAN /\ (Len(Rest) > 1 <=> Pending > 1)
    BY <1>1 DEF UartTypeOK, RestFacts
  <2> QED
    BY <1>2, <2>1
<1> QED
  BY <1>4, <1>8, <1>9 DEF Line!Send

LEMMA BeginStep ==
  ASSUME UartTypeOK, UartTypeOK', NEW tx_data \in Bytes, UartStart(tx_data)
  PROVE Line!Begin(tx_data)
<1>1. RestFacts /\ RestFacts'
  BY RestSeq, RestSeqNext
<1>2. Pending = 0 /\ Pending' = BITS + 2 /\ uart_shift' = tx_data
  BY DEF UartStart, Pending
<1>3. Rest = <<>>
  BY <1>1, <1>2 DEF RestFacts
<1>4. Rest' = [i \in 1 .. (BITS + 2) |-> FrameBit(i)']
  BY <1>2, WordAssumption DEF Rest
<1>5. Rest' = Line!Frame(tx_data)
  BY <1>2, <1>4 DEF FrameBit, Line!Frame
<1> QED
  BY <1>3, <1>5 DEF UartStart, Line!Begin

LEMMA QuietStep ==
  ASSUME UartTypeOK, UartTypeOK', UartReset \/ UartWait
  PROVE Line!Reset \/ Line!Idle
<1>1. RestFacts /\ RestFacts'
  BY RestSeq, RestSeqNext
<1>2. (Pending = 0)' /\ (UartWait => Pending = 0)
  BY DEF UartReset, UartWait, Pending
<1>3. Rest' = <<>> /\ (UartWait => Rest = <<>>)
  BY <1>1, <1>2 DEF RestFacts
<1> QED
  BY <1>3 DEF UartTypeOK, UartReset, UartWait, Line!Reset, Line!Idle

LEMMA UartStep ==
  ASSUME UartTypeOK, [UartNext]_uartVars
  PROVE UartTypeOK' /\ [Line!Next]_Line!vars
<1>1. UartTypeOK'
  BY UartTypeStep
<1>2. CASE StartBit \/ DataBit \/ StopBit
  BY <1>1, <1>2, SendStep DEF Line!Next
<1>3. ASSUME NEW tx_data \in Bytes, UartStart(tx_data)
      PROVE [Line!Next]_Line!vars
  BY <1>1, <1>3, BeginStep DEF Line!Next
<1>4. CASE UartReset \/ UartWait
  BY <1>1, <1>4, QuietStep DEF Line!Next
<1>5. CASE UNCHANGED uartVars
  <2>1. Pending' = Pending
    BY <1>5 DEF uartVars, Pending
  <2>2. Rest' = Rest
    BY <1>5, <2>1 DEF uartVars, Rest, FrameBit
  <2>3. tx' = tx /\ tx_busy' = tx_busy
    BY <1>5 DEF uartVars
  <2>4. UNCHANGED Line!vars
    BY <2>2, <2>3, Zenon DEF Line!vars
  <2> QED
    BY <1>1, <2>4
<1> QED
  BY <1>1, <1>2, <1>3, <1>4, <1>5 DEF UartNext

(***************************************************************************)
(* The registers of uart.v stay in their domains, and tx_busy is on in     *)
(* every state but IDLE.                                                   *)
(***************************************************************************)
THEOREM UartTypeCorrect == UartSpec => []UartTypeOK
BY InitType, UartTypeStep, PTL DEF UartSpec

(***************************************************************************)
(* The transmitter implements the line of whole frames.                    *)
(***************************************************************************)
THEOREM LineImplemented == UartSpec => ImplementsLine
BY InitType, UartStep, PTL DEF UartSpec, ImplementsLine, Line!Spec

-----------------------------------------------------------------------------
(* THE SPI MASTER                                                          *)

LEMMA ShiftedType == ASSUME SpiTypeOK PROVE Shifted \in WordType
<1>1. BITS \in Nat \ {0} /\ spi_shift \in [0 .. (BITS - 1) -> {0, 1}]
  BY BitsZero DEF SpiTypeOK, WordType
<1>2. \A i \in 0 .. (BITS - 1) : i # 0 => spi_shift[i - 1] \in {0, 1}
  BY <1>1
<1> QED
  BY <1>2 DEF Shifted, WordType

(* Every clock edge keeps the registers and the pins in their domains.      *)
LEMMA SpiTypeStep == ASSUME SpiTypeOK, [SpiNext]_spiVars PROVE SpiTypeOK'
<1>0. /\ BITS \in Nat \ {0} /\ 0 \in 0 .. (BITS - 1) /\ Zero \in WordType
      /\ BITS - 1 \in 0 .. (BITS - 1) /\ Bytes \subseteq WordType
  BY BitsZero, WordAssumption DEF WordType
<1>1. spi_shift[BITS - 1] \in {0, 1}
  BY <1>0 DEF SpiTypeOK, WordType
<1>2. SlaveSees => received' \in Seq({0, 1})
  BY DEF SpiTypeOK, SlaveSees
<1>3. CASE SpiReset
  BY <1>0, <1>3 DEF SpiTypeOK, SpiReset
<1>4. CASE SpiWait
  BY <1>2, <1>4 DEF SpiTypeOK, SpiWait
<1>5. ASSUME NEW tx_data \in Bytes, SpiStart(tx_data) PROVE SpiTypeOK'
  BY <1>0, <1>2, <1>5 DEF SpiTypeOK, SpiStart
<1>6. CASE Raise
  BY <1>1, <1>2, <1>6 DEF SpiTypeOK, Raise
<1>7. CASE Lower
  <2>1. spi_shift' \in WordType
    BY <1>7, ShiftedType DEF SpiTypeOK, Lower
  <2>2. bit_count' \in 0 .. (BITS - 1) /\ spi_state' \in {"XFER", "DONE"}
    BY <1>0, <1>7 DEF SpiTypeOK, Lower
  <2> QED
    BY <1>1, <1>2, <1>7, <2>1, <2>2 DEF SpiTypeOK, Lower
<1>8. CASE Release
  BY <1>2, <1>8 DEF SpiTypeOK, Release
<1>9. CASE UNCHANGED spiVars
  BY <1>9 DEF SpiTypeOK, spiVars, master
<1> QED
  BY <1>3, <1>4, <1>5, <1>6, <1>7, <1>8, <1>9 DEF SpiNext

(* One more sampled bit makes the next longer prefix of the word.           *)
LEMMA OneMoreBit ==
  ASSUME NEW word \in WordType, NEW n \in 0 .. (BITS - 1)
  PROVE Append(HighBits(word, n), word[BITS - 1 - n]) = HighBits(word, n + 1)
<1>1. BITS \in Nat \ {0}
  BY BitsZero
<1>2. \A i \in 1 .. (n + 1) : BITS - i \in 0 .. (BITS - 1) /\ word[BITS - i] \in {0, 1}
  BY <1>1 DEF WordType
<1>3. HighBits(word, n) \in Seq({0, 1}) /\ Len(HighBits(word, n)) = n
  BY <1>1, <1>2 DEF HighBits
<1>4. HighBits(word, n + 1) \in Seq({0, 1}) /\ Len(HighBits(word, n + 1)) = n + 1
  BY <1>1, <1>2 DEF HighBits
<1>5. BITS - 1 - n = BITS - (n + 1) /\ word[BITS - 1 - n] \in {0, 1}
  BY <1>1, <1>2
<1>6. \A i \in 1 .. n : HighBits(word, n)[i] = HighBits(word, n + 1)[i]
  BY <1>1 DEF HighBits
<1>7. HighBits(word, n + 1)[n + 1] = word[BITS - 1 - n]
  BY <1>1, <1>5 DEF HighBits
<1> QED
  BY <1>3, <1>4, <1>5, <1>6, <1>7

LEMMA LowerStep ==
  ASSUME SpiTypeOK, TransferInv, Lower
  PROVE /\ mosi' = mosi
        /\ received' = HighBits(sent, bit_count + 1)
        /\ TransferInv'
<1>1. /\ BITS \in Nat \ {0} /\ bit_count \in 0 .. (BITS - 1) /\ sent \in WordType
      /\ spi_shift \in [0 .. (BITS - 1) -> {0, 1}]
  BY BitsZero DEF SpiTypeOK, WordType
<1>2. spi_shift[BITS - 1] = sent[BITS - 1 - bit_count]
  <2>1. BITS - 1 \in bit_count .. (BITS - 1)
    BY <1>1
  <2> QED
    BY <2>1 DEF TransferInv, Lower
<1>3. mosi = sent[BITS - 1 - bit_count] /\ mosi' = mosi
  BY <1>2 DEF TransferInv, Lower
<1>4. received' = Append(received, mosi)
  BY DEF SpiTypeOK, Lower, SlaveSees
<1>5. received' = HighBits(sent, bit_count + 1)
  BY <1>1, <1>3, <1>4, OneMoreBit DEF TransferInv, Lower
<1>6. TransferInv'
  <2>1. CASE bit_count = BITS - 1
    <3>1. bit_count + 1 = BITS /\ spi_state' = "DONE" /\ sent' = sent
      BY <1>1, <2>1 DEF Lower
    <3> QED
      BY <1>5, <3>1 DEF TransferInv
  <2>2. CASE bit_count # BITS - 1
    <3>1. /\ spi_state' = "XFER" /\ sent' = sent /\ sclk' = 0
          /\ bit_count' = bit_count + 1 /\ spi_shift' = Shifted
      BY <2>2 DEF Lower
    <3>2. \A i \in (bit_count + 1) .. (BITS - 1) : spi_shift'[i] = sent[i - (bit_count + 1)]
      <4> TAKE i \in (bit_count + 1) .. (BITS - 1)
      <4>1. /\ i \in 0 .. (BITS - 1) /\ i # 0 /\ i - 1 \in bit_count .. (BITS - 1)
            /\ (i - 1) - bit_count = i - (bit_count + 1)
        BY <1>1
      <4>2. spi_shift'[i] = spi_shift[i - 1]
        BY <3>1, <4>1 DEF Shifted
      <4>3. spi_shift[i - 1] = sent[(i - 1) - bit_count]
        BY <4>1 DEF TransferInv, Lower
      <4> QED
        BY <4>1, <4>2, <4>3
    <3> QED
      BY <1>5, <3>1, <3>2 DEF TransferInv
  <2> QED
    BY <2>1, <2>2
<1> QED
  BY <1>3, <1>5, <1>6

LEMMA RaiseStep == ASSUME SpiTypeOK, TransferInv, Raise PROVE TransferInv'
<1>1. BITS - 1 \in bit_count .. (BITS - 1)
  BY BitsZero DEF SpiTypeOK
<1>2. mosi' = sent[BITS - 1 - bit_count]
  BY <1>1 DEF TransferInv, Raise
<1>3. received' = received
  BY DEF SpiTypeOK, Raise, SlaveSees
<1> QED
  BY <1>2, <1>3 DEF TransferInv, Raise

LEMMA StartStep ==
  ASSUME SpiTypeOK, NEW tx_data \in Bytes, SpiStart(tx_data)
  PROVE TransferInv'
<1>1. received' = <<>>
  BY DEF SpiTypeOK, SpiStart, SlaveSees
<1>2. HighBits(tx_data, 0) = <<>>
  BY DEF HighBits
<1>3. \A i \in 0 .. (BITS - 1) : tx_data[i] = tx_data[i - 0]
  BY BitsZero
<1> QED
  BY <1>1, <1>2, <1>3 DEF TransferInv, SpiStart

LEMMA TransferStep == ASSUME SpiTypeOK, TransferInv, [SpiNext]_spiVars PROVE TransferInv'
<1>1. CASE SpiReset \/ SpiWait \/ Release
  BY <1>1 DEF TransferInv, SpiReset, SpiWait, Release
<1>2. CASE UNCHANGED spiVars
  BY <1>2 DEF TransferInv, spiVars, master
<1> QED
  BY <1>1, <1>2, StartStep, RaiseStep, LowerStep DEF SpiNext

LEMMA InitTransfer == SpiInit => SpiTypeOK /\ TransferInv
BY BitsZero DEF SpiInit, SpiTypeOK, TransferInv

(***************************************************************************)
(* The registers and pins of spi_master.v stay in their domains, and the   *)
(* slave is selected exactly while the master is busy.                     *)
(***************************************************************************)
THEOREM SpiTypeCorrect == SpiSpec => []SpiTypeOK
BY InitTransfer, SpiTypeStep, PTL DEF SpiSpec

LEMMA TransferCorrect == SpiSpec => [](SpiTypeOK /\ TransferInv)
BY InitTransfer, SpiTypeStep, TransferStep, PTL DEF SpiSpec

(***************************************************************************)
(* A transfer that is not cut short by a reset delivers its word.          *)
(***************************************************************************)
THEOREM DeliveredCorrect == SpiSpec => Delivered
<1>1. SpiTypeOK /\ TransferInv /\ Release => received' = HighBits(sent, BITS)
  BY DEF SpiTypeOK, TransferInv, Release, SlaveSees
<1> QED
  BY <1>1, TransferCorrect, PTL DEF SpiSpec, Delivered

(***************************************************************************)
(* mosi does not move when the slave samples it.                           *)
(***************************************************************************)
THEOREM MosiStableCorrect == SpiSpec => MosiStable
<1>1. /\ SpiTypeOK /\ TransferInv /\ [SpiNext]_spiVars
      /\ cs_n = 0 /\ sclk = 1 /\ sclk' = 0 /\ cs_n' = 0
      => mosi' = mosi
  <2> SUFFICES ASSUME SpiTypeOK, TransferInv, [SpiNext]_spiVars,
                      cs_n = 0, sclk = 1, sclk' = 0, cs_n' = 0
               PROVE mosi' = mosi
    OBVIOUS
  <2>1. spi_state = "XFER"
    BY DEF SpiTypeOK
  <2>2. Lower \/ UNCHANGED spiVars
    BY <2>1 DEF SpiNext, SpiReset, SpiWait, SpiStart, Raise, Release
  <2> QED
    BY <2>2, LowerStep DEF spiVars, master
<1> QED
  BY <1>1, TransferCorrect, PTL DEF SpiSpec, MosiStable

-----------------------------------------------------------------------------
(* THE FSM                                                                 *)

(* An edge keeps the registers in their ranges; a reset clears them all.    *)
LEMMA EdgeType ==
  ASSUME NEW r \in Registers, NEW reset \in Bit, NEW go \in Bit
  PROVE  /\ Edge(r, reset, go) \in Registers
         /\ reset = 0 => Edge(r, reset, go) = Cleared
<1>1. /\ IDLE \in 0 .. 3 /\ RUN \in 0 .. 3 /\ FINISH \in 0 .. 3
      /\ 0 \in Bit /\ 1 \in Bit /\ 0 \in 0 .. 7
  BY DEF IDLE, RUN, FINISH, Bit
<1>2. (r.counter + 1) % 8 \in 0 .. 7
  BY DEF Registers
<1>3. Cleared \in Registers
  BY <1>1 DEF Cleared, Registers
<1>4. Idle(r, go) \in Registers
  BY <1>1 DEF Idle, Registers
<1>5. Run(r) \in Registers
  <2>1. ASSUME NEW c \in 0 .. 7 PROVE [r EXCEPT !.counter = c, !.done = 0] \in Registers
    BY <1>1 DEF Registers
  <2>2. [r EXCEPT !.state = FINISH, !.done = 0] \in Registers
    BY <1>1 DEF Registers
  <2> QED
    BY <1>2, <2>1, <2>2, Zenon DEF Run
<1>6. Finish(r) \in Registers
  BY <1>1 DEF Finish, Registers
<1>7. [r EXCEPT !.state = IDLE, !.done = 0] \in Registers
  BY <1>1 DEF Registers
<1> QED
  BY <1>3, <1>4, <1>5, <1>6, <1>7, Zenon DEF Edge

(* The inductive invariant. *)
MiterInv ==
  /\ ref_i \in Registers /\ uut_i \in Registers
  /\ rst_n \in Bit /\ start \in Bit /\ initial \in BOOLEAN
  /\ waited \in 0 .. NoRun
  /\ Aligned /\ Phase

LEMMA MiterInvInit == MiterInit => MiterInv
BY FsmAssumption DEF MiterInit, InitialAssume, MiterInv, Aligned, Phase, NoRun

(* Where the machine is, as Phase sees it, for one copy.                    *)
AtCount(r, w) ==
  /\ w \in 0 .. NoRun
  /\ r.state = IDLE <=> w >= LAST + 2
  /\ r.state = RUN <=> w <= LAST
  /\ r.state = FINISH <=> w = LAST + 1
  /\ r.state = RUN => r.counter = w
  /\ r.done = 1 <=> w = LAST + 2
  /\ r.busy = 1 <=> w < LAST + 2

LEMMA ClearedAt == AtCount(Cleared, NoRun)
BY FsmAssumption DEF AtCount, Cleared, NoRun, IDLE, RUN, FINISH

(* Out of reset, one edge of the machine is one more edge waited.           *)
LEMMA EdgeAt ==
  ASSUME NEW r \in Registers, NEW go \in Bit, NEW w, AtCount(r, w)
  PROVE  AtCount(Edge(r, 1, go),
            IF r.state = IDLE /\ go = 1 THEN 0 ELSE IF w < LAST + 3 THEN w + 1 ELSE NoRun)
<1> USE FsmAssumption DEF AtCount, Registers, Bit, Edge, IDLE, RUN, FINISH, NoRun
<1>1. CASE r.state = IDLE
  BY <1>1 DEF Idle
<1>2. CASE r.state = RUN
  BY <1>2 DEF Run
<1>3. CASE r.state = FINISH
  BY <1>3 DEF Finish
<1> QED
  BY <1>1, <1>2, <1>3

LEMMA MiterInvStep == ASSUME MiterInv, [MiterNext]_miterVars PROVE MiterInv'
<1>1. CASE UNCHANGED miterVars
  BY <1>1 DEF MiterInv, miterVars, Aligned, Phase
<1>2. CASE MiterClock
  <2>1. /\ ref_i' = Edge(ref_i, rst_n, start) /\ uut_i' = Edge(uut_i, rst_n, start)
        /\ rst_n' \in Bit /\ start' \in Bit /\ initial' = FALSE
    BY <1>2 DEF MiterClock, RefEdge, UutEdge
  <2>2. ref_i' \in Registers /\ uut_i' \in Registers
    BY <2>1, EdgeType DEF MiterInv
  <2>3. ref_i' = uut_i'
    <3>1. CASE initial
      BY <2>1, <3>1, EdgeType DEF MiterInv, Aligned
    <3>2. CASE ~initial
      BY <2>1, <3>2 DEF MiterInv, Aligned
    <3> QED
      BY <3>1, <3>2
  <2>4. AtCount(ref_i', waited')
    <3>1. CASE rst_n = 0
      <4>1. ref_i' = Cleared /\ waited' = NoRun
        BY <1>2, <2>1, <3>1, EdgeType DEF MiterInv, MiterClock, Waited
      <4> QED
        BY <4>1, ClearedAt
    <3>2. CASE rst_n = 1
      <4>1. ~initial /\ AtCount(ref_i, waited)
        BY <3>2 DEF MiterInv, Aligned, Phase, AtCount
      <4>2. waited' = IF ref_i.state = IDLE /\ start = 1 THEN 0
                      ELSE IF waited < LAST + 3 THEN waited + 1 ELSE NoRun
        BY <1>2, <3>2 DEF MiterClock, Waited
      <4> QED
        BY <2>1, <3>2, <4>1, <4>2, EdgeAt DEF MiterInv
    <3> QED
      BY <3>1, <3>2 DEF MiterInv, Bit
  <2> QED
    BY <2>1, <2>2, <2>3, <2>4 DEF MiterInv, Aligned, Phase, AtCount
<1> QED
  BY <1>1, <1>2 DEF MiterNext

LEMMA MiterInvCorrect == MiterSpec => []MiterInv
BY MiterInvInit, MiterInvStep, PTL DEF MiterSpec

(***************************************************************************)
(* The assertions of the generated miter hold for golden against golden at *)
(* every depth, from any power-up, with reset assumed at the first step.   *)
(***************************************************************************)
THEOREM AgreementCorrect == MiterSpec => []OutputsAgree
<1>1. MiterInv => OutputsAgree
  BY DEF MiterInv, Aligned, OutputsAgree
<1> QED
  BY <1>1, MiterInvCorrect, PTL

(***************************************************************************)
(* done comes LAST + 2 edges after an accepted start, for one cycle, and   *)
(* busy covers the edges before it.                                        *)
(***************************************************************************)
THEOREM DoneOnTimeCorrect == MiterSpec => []DoneOnTime
<1>1. MiterInv => DoneOnTime
  BY DEF MiterInv, Phase, DoneOnTime
<1> QED
  BY <1>1, MiterInvCorrect, PTL
=============================================================================
