-------------------------- MODULE SpiLoader_proofs ---------------------------
(* Proofs about the loader, for every size of counter, memory, input buffer    *)
(* and flash, and every set of transfers the assumption allows.                *)
EXTENDS SpiLoaderProps, Integers, FiniteSetTheorems, TLAPS

-----------------------------------------------------------------------------
(* What a transfer has done so far.                                            *)

Bytes == mm_read_size \div 8
Active == stage = "poll" /\ ~mm_spi_start     \* since the master was told to start
Sending == state \in {"SEND_CMD", "SEND_ADDR"}

\* Bytes the master has read, and those of them that address_mems has counted.
Fetched == IF Sending THEN 0
           ELSE IF state = "READ_FLASH" THEN counter_send \div 8 ELSE Bytes
InFlight == valid \/ spi_byte_valid_d
Assembled == IF InFlight THEN Fetched - 1 ELSE Fetched

\* Byte and word number i of the transfer.
At(i)      == Flash((mm_spi_adr + i) % FlashBytes)
TheWord(i) == <<At(2 * i), At(2 * i + 1)>>

Pair == (0 .. FlashBytes) \X (0 .. FlashBytes)

-----------------------------------------------------------------------------
(* The invariant.                                                              *)

HostTypes ==
    /\ stage \in {"prepare", "start", "poll"}
    /\ mm_spi_adr \in 0 .. FlashBytes - 1 /\ mm_mem_address \in 0 .. 2
    /\ mm_read_size \in Nat /\ mm_external_wren \subseteq 0 .. 1
    /\ mm_spi_start \in BOOLEAN /\ mm_spi_start_d \in BOOLEAN /\ mm_spi_valid \in BOOLEAN
    /\ valid_rst_cond \in BOOLEAN /\ spi_rd_ack \in BOOLEAN

MasterTypes ==
    /\ state \in {"IDLE", "SEND_CMD", "SEND_ADDR", "READ_FLASH", "WAIT_ACK"}
    /\ counter_clk \in {0, 1} /\ counter_send \in Nat /\ words_to_read_reg \in Nat
    /\ flash_adr \in 0 .. FlashBytes - 1
    /\ valid \in BOOLEAN /\ rd_data \in 0 .. FlashBytes /\ end_transaction \in BOOLEAN

WordTypes ==
    /\ spi_byte_valid_d \in BOOLEAN /\ address_mems \in Nat /\ data_in_intmems \in Pair
    /\ INT_MEM \in [0 .. 1 -> [0 .. Depth - 1 -> Pair]]

BufferTypes ==
    /\ buffer \in [0 .. CHANNELS_INT - 1 -> Pair] /\ pointer \in 0 .. CHANNELS_INT - 1
    /\ read_flag \in BOOLEAN /\ slow_stream_out \in BOOLEAN /\ buffer_valid \in BOOLEAN
    /\ mem_out \in Pair /\ sample \in Nat

(* What a started transfer was asked for.                                      *)
Fits ==
    /\ mm_read_size \in 16 .. 16 * Depth /\ mm_read_size % 16 = 0
    /\ mm_read_size < 2^CounterBits
    /\ mm_mem_address = 2 => mm_read_size = 16 * CHANNELS_INT
    /\ mm_external_wren = IF mm_mem_address = 2 THEN {} ELSE {mm_mem_address}

Requested == stage # "prepare" => Fits

(* The firmware starts a transfer only when the last one has ended, and the    *)
(* status is up exactly from that end to the read that sees it.                *)
Handshake ==
    /\ stage # "poll" => ~mm_spi_start /\ state = "IDLE"
    /\ stage = "start" => ~mm_spi_valid
    /\ stage = "prepare" /\ mm_spi_valid => valid_rst_cond
    /\ valid_rst_cond => stage = "prepare"
    /\ stage = "poll" =>
          (mm_spi_valid <=> \/ state = "WAIT_ACK" /\ spi_rd_ack
                            \/ state = "IDLE" /\ ~mm_spi_start)
    /\ mm_spi_start => ~mm_spi_start_d /\ state = "IDLE"
    /\ end_transaction => state = "WAIT_ACK"
    /\ spi_rd_ack => end_transaction \/ (state = "IDLE" /\ ~mm_spi_start)
    /\ state # "IDLE" => words_to_read_reg = mm_read_size

(* Bits, and the byte that is on its way from the master to the word.          *)
Counting ==
    /\ ~(valid /\ spi_byte_valid_d)
    /\ InFlight => state \in {"READ_FLASH", "WAIT_ACK"}
    /\ Sending => counter_send = 0 /\ counter_clk = 0
    /\ state = "READ_FLASH" => /\ counter_send < mm_read_size
                               /\ valid => counter_clk = 0
                               /\ spi_byte_valid_d => counter_clk = 1
                               /\ InFlight => counter_send % 8 = 0 /\ counter_send > 0
    /\ state = "WAIT_ACK" => /\ valid <=> ~end_transaction
                             /\ spi_byte_valid_d <=> (end_transaction /\ ~spi_rd_ack)

(* The byte in flight, and the word in assembly, are those that come next.     *)
Assembly ==
    Active => /\ address_mems = IF Assembled = 2 * Depth THEN 0 ELSE Assembled
              /\ state \in {"SEND_CMD", "SEND_ADDR", "READ_FLASH"} =>
                     flash_adr = (mm_spi_adr + Fetched) % FlashBytes
              /\ valid => rd_data = At(Assembled)
              /\ spi_byte_valid_d => data_in_intmems[2] = At(Assembled)
              /\ Assembled % 2 = 1 =>
                     IF spi_byte_valid_d THEN data_in_intmems[1] = At(Assembled - 1)
                                         ELSE data_in_intmems[2] = At(Assembled - 1)

(* All words assembled so far are in their memory.                             *)
Stored ==
    Active => \A i \in Nat : 2 * i + 1 < Assembled =>
                  IF mm_mem_address = 2 THEN buffer[i] = TheWord(i)
                                        ELSE INT_MEM[mm_mem_address][i] = TheWord(i)

(* The input buffer rests, but while it is filled and while it streams.        *)
Filling == Active /\ mm_mem_address = 2 /\ Assembled < Bytes

Still == ~read_flag /\ ~slow_stream_out /\ ~buffer_valid

Stream ==
    /\ mm_mem_address = 2 /\ stage # "start" /\ ~mm_spi_start
    /\ \A i \in 0 .. CHANNELS_INT - 1 : buffer[i] = TheWord(i)
    /\ \/ /\ read_flag /\ ~slow_stream_out /\ ~buffer_valid
          /\ pointer = 0 /\ sample = 0
       \/ /\ read_flag /\ slow_stream_out /\ buffer_valid
          /\ sample = 2 * pointer /\ mem_out = TheWord(pointer)
       \/ /\ read_flag /\ ~slow_stream_out /\ buffer_valid
          /\ pointer > 0 /\ sample = 2 * pointer - 1 /\ mem_out = TheWord(pointer - 1)
       \/ /\ ~read_flag /\ ~slow_stream_out /\ buffer_valid /\ pointer = 0
          /\ sample = 2 * CHANNELS_INT - 1 /\ mem_out = TheWord(CHANNELS_INT - 1)

Streaming ==
    /\ Filling => Still /\ sample = 0 /\ pointer = Assembled \div 2
    /\ ~Filling => (Still /\ pointer = 0) \/ Stream

IInv == /\ HostTypes /\ MasterTypes /\ WordTypes /\ BufferTypes
        /\ Requested /\ Handshake /\ Counting /\ Assembly /\ Stored /\ Streaming

-----------------------------------------------------------------------------
(* Arithmetic.                                                                 *)

(* The range of the bit counter is a number: there are that many subsets of a  *)
(* set with CounterBits elements.                                              *)
LEMMA CounterRange == 2^CounterBits \in Nat
<1>1. CounterBits \in Nat
  BY SpiLoaderAssumption
<1>2. IsFiniteSet(1 .. CounterBits) /\ Cardinality(1 .. CounterBits) = CounterBits
  BY <1>1, FS_Interval
<1>3. /\ Cardinality(SUBSET (1 .. CounterBits)) = 2^CounterBits
      /\ IsFiniteSet(SUBSET (1 .. CounterBits))
  BY <1>2, FS_SUBSET
<1> QED BY <1>3, FS_CardinalityType

(* Counting on modulo m.                                                       *)
LEMMA ModSuccessor ==
  ASSUME NEW m \in Nat \ {0}, NEW w \in Nat
  PROVE  /\ (w % m) \in 0 .. m - 1
         /\ (w + 1) % m = IF (w % m) < m - 1 THEN (w % m) + 1 ELSE 0
         /\ ((w % m) + 1) % m = (w + 1) % m
<1>1. PICK q \in Nat, r \in 0 .. m - 1 : w = m * q + r /\ (w % m) = r
  <2>1. (w \div m) \in Nat /\ w = m * (w \div m) + (w % m) /\ (w % m) \in 0 .. m - 1
    BY SMT
  <2> QED BY <2>1
<1>2. CASE r < m - 1
  <2>1. w + 1 = m * q + (r + 1) /\ r + 1 \in 0 .. m - 1
    BY <1>1, <1>2
  <2>2. (w + 1) % m = r + 1
    BY <1>1, <1>2, <2>1, SMTT(30)
  <2>3. (r + 1) % m = r + 1
    BY <2>1, SMT
  <2> QED BY <1>1, <1>2, <2>2, <2>3
<1>3. CASE r = m - 1
  <2>1. w + 1 = m * (q + 1)
    BY <1>1, <1>3
  <2>2. (w + 1) % m = 0
    BY <1>1, <1>3, <2>1, SMTT(30)
  <2>3. m % m = 0
    BY SMT
  <2>4. r + 1 = m
    BY <1>3
  <2> QED BY <1>1, <1>3, <2>2, <2>3, <2>4
<1> QED BY <1>1, <1>2, <1>3

(* A small number is its own remainder.                                        *)
LEMMA ModSmall ==
  ASSUME NEW m \in Nat \ {0}, NEW w \in 0 .. m - 1
  PROVE  (w % m) = w
BY SMT

(* The constants.                                                              *)
LEMMA Constants ==
  /\ Depth \in Nat \ {0} /\ CHANNELS_INT \in Nat \ {0} /\ FlashBytes \in Nat \ {0}
  /\ \A r \in Requests : /\ r.sel \in 0 .. 2 /\ r.adr \in 0 .. FlashBytes - 1
                         /\ r.size \in 16 .. 16 * Depth /\ r.size % 16 = 0
                         /\ r.size < 2^CounterBits
                         /\ r.sel = 2 => r.size = 16 * CHANNELS_INT
<1>1. \A r \in Requests : r \in [sel : 0..2, adr : 0..FlashBytes - 1, size : 0..2^CounterBits - 1]
  BY SpiLoaderAssumption
<1>2. \A r \in Requests : r.size \in 0 .. 2^CounterBits - 1 /\ r.sel \in 0 .. 2
                          /\ r.adr \in 0 .. FlashBytes - 1
  BY <1>1
<1>3. \A r \in Requests : r.size < 2^CounterBits
  BY <1>2, CounterRange
<1> QED BY <1>2, <1>3, SpiLoaderAssumption

(* The end of a transfer is found at its last bit.                             *)
LEMMA LastBitFound ==
  ASSUME words_to_read_reg \in Nat, words_to_read_reg > 0, words_to_read_reg < 2^CounterBits
  PROVE  LastBit <=> counter_send = words_to_read_reg - 1
<1>1. PICK m \in Nat : m = 2^CounterBits
  BY CounterRange
<1>2. PICK w \in 1 .. m - 1 : w = words_to_read_reg
  BY <1>1
<1>3. (w + m - 1) % m = w - 1
  BY SMT
<1> QED BY <1>1, <1>2, <1>3 DEF LastBit

-----------------------------------------------------------------------------
(* Initially.                                                                  *)
LEMMA InitInv == Init => IInv
<1> SUFFICES ASSUME Init PROVE IInv
  OBVIOUS
<1>0. /\ Depth \in Nat \ {0} /\ CHANNELS_INT \in Nat \ {0} /\ FlashBytes \in Nat \ {0}
      /\ 0 \in 0 .. FlashBytes - 1 /\ 0 \in 0 .. FlashBytes /\ 0 \in 0 .. CHANNELS_INT - 1
      /\ <<0, 0>> \in Pair /\ Zero = 0
  BY Constants DEF Pair, Zero
<1>1. HostTypes /\ MasterTypes
  <2>1. HostTypes
    <3>1. /\ stage = "prepare" /\ mm_spi_adr = 0 /\ mm_mem_address = 0 /\ mm_read_size = 0
          /\ mm_external_wren = {} /\ mm_spi_start = FALSE /\ mm_spi_start_d = FALSE
          /\ mm_spi_valid = FALSE /\ valid_rst_cond = FALSE /\ spi_rd_ack = FALSE
      BY DEF Init
    <3>2. mm_external_wren \subseteq 0 .. 1
      BY <3>1
    <3>3. mm_spi_adr \in 0 .. FlashBytes - 1 /\ mm_mem_address \in 0 .. 2 /\ mm_read_size \in Nat
      BY <1>0, <3>1
    <3> QED BY <3>1, <3>2, <3>3 DEF HostTypes
  <2>2. MasterTypes
    BY <1>0 DEF Init, MasterTypes
  <2> QED BY <2>1, <2>2
<1>2. WordTypes
  <2>1. /\ spi_byte_valid_d = FALSE /\ address_mems = 0 /\ data_in_intmems = <<0, 0>>
        /\ INT_MEM = [k \in 0..1 |-> [i \in 0..Depth - 1 |-> <<0, 0>>]]
    BY <1>0 DEF Init
  <2> QED BY <1>0, <2>1 DEF WordTypes
<1>3. BufferTypes
  <2>1. /\ buffer = [i \in 0..CHANNELS_INT - 1 |-> <<0, 0>>] /\ mem_out = <<0, 0>>
        /\ pointer = 0 /\ read_flag = FALSE /\ slow_stream_out = FALSE
        /\ buffer_valid = FALSE /\ sample = 0
    BY <1>0 DEF Init
  <2> QED BY <1>0, <2>1 DEF BufferTypes
<1>4. Requested /\ Handshake
  BY DEF Init, Requested, Handshake
<1>5. Counting
  BY DEF Init, Counting, InFlight, Sending
<1>6. Assembly /\ Stored
  BY DEF Init, Assembly, Stored, Active
<1>7. Streaming
  BY DEF Init, Streaming, Filling, Active, Still
<1> QED BY <1>1, <1>2, <1>3, <1>4, <1>5, <1>6, <1>7 DEF IInv

(* The firmware's side of a step: the registers change in one stage only.      *)
LEMMA RegistersKept ==
  ASSUME IInv, Next
  PROVE  /\ stage # "prepare" => UNCHANGED regs
         /\ stage' = "prepare" => UNCHANGED regs
         /\ stage = "prepare" /\ stage' # "prepare" => stage' = "start" /\ Result
         /\ stage' = "poll" => \/ stage = "start" /\ mm_spi_start'
                               \/ stage = "poll" /\ ~mm_spi_start' /\ ~valid_rst_cond'
         /\ stage' = "start" => stage = "prepare"
         /\ stage = "start" => stage' = "poll"
         /\ stage = "poll" /\ stage' # "poll" => stage' = "prepare" /\ mm_spi_valid
         /\ stage \in {"prepare", "poll"} => ~mm_spi_start'
<1>1. HostEdge /\ HostTypes /\ Handshake
  BY DEF Next, IInv
<1> QED BY <1>1 DEF HostEdge, HostTypes, Handshake, ExecInference, Prepare, Start, Poll, regs

(* Types of the host, and what the next transfer is asked for.                 *)
LEMMA HostStep ==
  ASSUME IInv, Next
  PROVE  HostTypes' /\ Requested'
<1>1. HostEdge /\ StatusEdge /\ HostTypes /\ Requested /\ MasterTypes
  BY DEF Next, IInv
<1>2. mm_spi_start_d' \in BOOLEAN /\ mm_spi_valid' \in BOOLEAN /\ spi_rd_ack' \in BOOLEAN
  BY <1>1 DEF StatusEdge, HostTypes, MasterTypes
<1>3. CASE ExecInference
  BY <1>1, <1>2, <1>3 DEF ExecInference, HostTypes, Requested, regs
<1>4. CASE Prepare
  <2>1. PICK r \in Requests : /\ mm_spi_adr' = r.adr /\ mm_mem_address' = r.sel
                              /\ mm_read_size' = r.size
                              /\ mm_external_wren' = IF r.sel = 2 THEN {} ELSE {r.sel}
    BY <1>4 DEF Prepare
  <2>2. /\ stage' = "start" /\ mm_spi_start' = mm_spi_start /\ valid_rst_cond' = FALSE
    BY <1>4 DEF Prepare
  <2>3. /\ r.sel \in 0 .. 2 /\ r.adr \in 0 .. FlashBytes - 1
        /\ r.size \in 16 .. 16 * Depth /\ r.size % 16 = 0 /\ r.size < 2^CounterBits
        /\ r.sel = 2 => r.size = 16 * CHANNELS_INT
    BY Constants
  <2>4. Fits'
    BY <2>1, <2>3 DEF Fits
  <2>5. mm_read_size' \in Nat /\ mm_external_wren' \subseteq 0 .. 1
    BY <2>1, <2>3, Constants
  <2> QED BY <1>1, <1>2, <2>1, <2>2, <2>3, <2>4, <2>5 DEF HostTypes, Requested
<1>5. CASE Start
  <2>1. Fits' <=> Fits
    BY <1>5 DEF Start, Fits, regs
  <2> QED BY <1>1, <1>2, <1>5, <2>1 DEF Start, HostTypes, Requested, regs
<1>6. CASE Poll
  <2>1. Fits' <=> Fits
    BY <1>6 DEF Poll, Fits, regs
  <2> QED BY <1>1, <1>2, <1>6, <2>1 DEF Poll, HostTypes, Requested, regs
<1> QED BY <1>1, <1>3, <1>4, <1>5, <1>6 DEF HostEdge

(* The handshakes: one step of the master, and what the firmware sees of it.   *)
LEMMA HandshakeStep ==
  ASSUME IInv, Next
  PROVE  Handshake'
<1>1. /\ HostEdge /\ StatusEdge /\ MasterEdge /\ HostTypes /\ MasterTypes /\ Handshake /\ Counting
  BY DEF Next, IInv
<1>2. UNCHANGED mm_read_size \/ (stage = "prepare" /\ stage' = "start")
  BY RegistersKept DEF regs
<1>3. /\ mm_spi_start_d' = mm_spi_start
      /\ mm_spi_valid' = (end_transaction \/ (mm_spi_valid /\ ~valid_rst_cond))
      /\ spi_rd_ack' = end_transaction
  BY <1>1 DEF StatusEdge
<1>4. \/ state = "IDLE" /\ state' = "IDLE" /\ ~end_transaction /\ ~end_transaction' /\ ~spi_enable
      \/ /\ state = "IDLE" /\ state' = "SEND_CMD" /\ ~end_transaction /\ ~end_transaction'
         /\ spi_enable /\ words_to_read_reg' = mm_read_size
      \/ /\ state \in {"SEND_CMD", "SEND_ADDR", "READ_FLASH"} /\ state' # "IDLE"
         /\ state' = "WAIT_ACK" => state = "READ_FLASH"
         /\ ~end_transaction /\ ~end_transaction' /\ words_to_read_reg' = words_to_read_reg
      \/ /\ state = "WAIT_ACK" /\ words_to_read_reg' = words_to_read_reg
         /\ end_transaction' = ~spi_rd_ack
         /\ state' = IF spi_rd_ack THEN "IDLE" ELSE "WAIT_ACK"
  BY <1>1 DEF MasterEdge, IDLE, SEND, ClockHigh, ClockLow, WAIT_ACK, Handshake, MasterTypes
<1>5. CASE stage = "prepare"
  <2>1. state = "IDLE" /\ ~mm_spi_start /\ ~mm_spi_start' /\ ~spi_enable
    BY <1>1, <1>5, RegistersKept DEF Handshake, spi_enable
  <2>2. stage' \in {"prepare", "start"} /\ ~valid_rst_cond' /\ ~mm_spi_valid'
    BY <1>1, <1>3, <1>4, <1>5, <2>1
       DEF HostEdge, ExecInference, Prepare, Start, Poll, Handshake
  <2> QED BY <1>3, <1>4, <2>1, <2>2 DEF Handshake
<1>6. CASE stage = "start"
  <2>1. state = "IDLE" /\ ~mm_spi_start /\ mm_spi_start' /\ stage' = "poll" /\ ~spi_enable
        /\ ~valid_rst_cond' /\ ~mm_spi_valid
    BY <1>1, <1>6 DEF Handshake, spi_enable, HostEdge, ExecInference, Prepare, Start, Poll
  <2> QED BY <1>3, <1>4, <2>1 DEF Handshake
<1>7. CASE stage = "poll"
  <2>1. /\ ~mm_spi_start' /\ mm_read_size' = mm_read_size /\ ~valid_rst_cond
        /\ valid_rst_cond' => mm_spi_valid /\ stage' = "prepare"
        /\ stage' = "poll" \/ (stage' = "prepare" /\ mm_spi_valid /\ valid_rst_cond')
    BY <1>1, <1>7 DEF Handshake, HostEdge, ExecInference, Prepare, Start, Poll, regs
  <2>2. mm_spi_valid <=> \/ state = "WAIT_ACK" /\ spi_rd_ack
                         \/ state = "IDLE" /\ ~mm_spi_start
    BY <1>1, <1>7 DEF Handshake
  <2>3. /\ mm_spi_start => ~mm_spi_start_d /\ state = "IDLE"
        /\ end_transaction => state = "WAIT_ACK"
        /\ spi_rd_ack => end_transaction \/ (state = "IDLE" /\ ~mm_spi_start)
        /\ state # "IDLE" => words_to_read_reg = mm_read_size
    BY <1>1 DEF Handshake
  <2>4. CASE state = "IDLE"
    BY <1>3, <1>4, <2>1, <2>2, <2>3, <2>4 DEF Handshake, spi_enable
  <2>5. CASE state \in {"SEND_CMD", "SEND_ADDR", "READ_FLASH"}
    BY <1>3, <1>4, <2>1, <2>2, <2>3, <2>5 DEF Handshake, spi_enable
  <2>6. CASE state = "WAIT_ACK"
    BY <1>3, <1>4, <2>1, <2>2, <2>3, <2>6 DEF Handshake, spi_enable
  <2> QED BY <1>1, <2>4, <2>5, <2>6 DEF MasterTypes
<1> QED BY <1>1, <1>5, <1>6, <1>7 DEF HostTypes

(* The transfer that is under way was asked for by the firmware, and fits.     *)
LEMMA UnderwayFits ==
  ASSUME IInv
  PROVE  /\ state # "IDLE" => /\ stage = "poll" /\ ~mm_spi_start
                              /\ words_to_read_reg = mm_read_size
         /\ stage # "prepare" => /\ Fits /\ Bytes \in Nat /\ Bytes \in 2 .. 2 * Depth
                                 /\ mm_read_size = 8 * Bytes /\ Bytes % 2 = 0
                                 /\ mm_mem_address = 2 => Bytes = 2 * CHANNELS_INT
<1>1. state # "IDLE" => /\ stage = "poll" /\ ~mm_spi_start
                        /\ words_to_read_reg = mm_read_size
  BY DEF IInv, Handshake
<1>2. ASSUME stage # "prepare" PROVE Fits
  BY <1>2 DEF IInv, Requested
<1>3. ASSUME Fits PROVE /\ Bytes \in Nat /\ Bytes \in 2 .. 2 * Depth /\ Bytes % 2 = 0
                        /\ mm_read_size = 8 * Bytes
                        /\ mm_mem_address = 2 => Bytes = 2 * CHANNELS_INT
  BY <1>3, Constants DEF Fits, Bytes
<1> QED BY <1>1, <1>2, <1>3

(* What an edge of the master does to its counters while it reads.             *)
LEMMA MasterStep ==
  ASSUME IInv, Next
  PROVE  MasterTypes' /\ Counting'
<1>1. /\ MasterEdge /\ WordEdge /\ HostTypes /\ MasterTypes /\ WordTypes /\ Handshake /\ Counting
  BY DEF Next, IInv
<1>2. FlashBytes \in Nat \ {0} /\ CounterBits \in Nat /\ 2^CounterBits \in Nat
  BY Constants, CounterRange, SpiLoaderAssumption
<1>3. spi_byte_valid_d' = (valid /\ ~spi_byte_valid_d)
  BY <1>1 DEF WordEdge, spi_byte_valid_pulse
<1>4. /\ flash_adr \in Nat /\ flash_adr + 1 \in Nat
      /\ ((flash_adr + 1) % FlashBytes) \in 0 .. FlashBytes - 1
      /\ Flash(flash_adr) \in 0 .. FlashBytes /\ Zero \in 0 .. FlashBytes
  <2>1. flash_adr \in Nat /\ flash_adr + 1 \in Nat /\ flash_adr < FlashBytes
    BY <1>1, <1>2 DEF MasterTypes
  <2> QED BY <1>2, <2>1, ModSuccessor DEF Flash, Zero
<1>5. CASE IDLE
  <2>1. ~valid /\ ~spi_byte_valid_d
    BY <1>1, <1>5 DEF IDLE, Counting, InFlight
  <2>2. MasterTypes'
    BY <1>1, <1>4, <1>5 DEF IDLE, MasterTypes, HostTypes
  <2> QED BY <1>3, <1>5, <2>1, <2>2 DEF IDLE, Counting, InFlight, Sending
<1>6. CASE SEND
  <2>1. ~valid /\ ~spi_byte_valid_d /\ counter_send = 0 /\ counter_clk = 0
    BY <1>1, <1>6 DEF SEND, Counting, InFlight, Sending
  <2>2. MasterTypes'
    BY <1>1, <1>6 DEF SEND, MasterTypes
  <2>3. mm_read_size' = mm_read_size /\ mm_read_size > 0
    <3>1. state # "IDLE"
      BY <1>6 DEF SEND
    <3> QED BY <3>1, UnderwayFits, RegistersKept DEF regs, Fits
  <2>4. counter_send' < mm_read_size'
    BY <1>6, <2>1, <2>3 DEF SEND
  <2> QED BY <1>3, <1>6, <2>1, <2>2, <2>4 DEF SEND, Counting, InFlight, Sending
<1>7. CASE ClockHigh
  <2>1. MasterTypes'
    BY <1>1, <1>7 DEF ClockHigh, MasterTypes
  <2>2. mm_read_size' = mm_read_size
    <3>1. state # "IDLE"
      BY <1>7 DEF ClockHigh
    <3> QED BY <3>1, UnderwayFits, RegistersKept DEF regs
  <2>3. /\ counter_send < mm_read_size /\ ~spi_byte_valid_d
        /\ valid => counter_send % 8 = 0 /\ counter_send > 0
    BY <1>1, <1>7 DEF ClockHigh, Counting, InFlight
  <2> QED BY <1>3, <1>7, <2>1, <2>2, <2>3 DEF ClockHigh, Counting, InFlight, Sending
<1>8. CASE ClockLow
  <2>1. /\ mm_read_size' = mm_read_size /\ words_to_read_reg = mm_read_size
        /\ mm_read_size = 8 * Bytes /\ Bytes \in Nat /\ Bytes > 0
        /\ mm_read_size < 2^CounterBits
    <3>1. state # "IDLE"
      BY <1>8 DEF ClockLow
    <3> QED BY <3>1, UnderwayFits, RegistersKept DEF regs, Fits
  <2>2. /\ counter_send < mm_read_size /\ ~valid
        /\ spi_byte_valid_d => counter_send % 8 = 0
    BY <1>1, <1>8 DEF ClockLow, Counting, InFlight
  <2>3. LastBit <=> counter_send = mm_read_size - 1
    BY <2>1, LastBitFound
  <2>4. counter_send \in Nat
    BY <1>1 DEF MasterTypes
  <2>5. ~spi_byte_valid_d' /\ ~end_transaction /\ end_transaction' = end_transaction
    BY <1>1, <1>3, <1>8, <2>2 DEF ClockLow, Handshake
  <2>6. CASE ByteDone /\ LastBit
    <3>1. MasterTypes'
      BY <1>1, <1>4, <1>8, <2>6 DEF ClockLow, MasterTypes
    <3> QED BY <1>8, <2>5, <2>6, <3>1 DEF ClockLow, Counting, InFlight, Sending
  <2>7. CASE ~(ByteDone /\ LastBit)
    <3>1. counter_send + 1 < mm_read_size
      BY <2>1, <2>2, <2>3, <2>4, <2>7 DEF ByteDone
    <3>2. counter_send' = counter_send + 1
      <4>1. PICK m \in Nat \ {0} : m = 2^CounterBits
        BY <1>2, <2>1
      <4>2. counter_send + 1 \in 0 .. m - 1
        BY <2>1, <2>4, <3>1, <4>1
      <4>3. counter_send' = (counter_send + 1) % m
        BY <1>8, <2>7, <4>1 DEF ClockLow
      <4> QED BY <4>2, <4>3, ModSmall
    <3>3. /\ state' = "READ_FLASH" /\ counter_clk' = 0 /\ valid' = ByteDone
          /\ words_to_read_reg' = words_to_read_reg
      BY <1>8, <2>7 DEF ClockLow
    <3>4. MasterTypes'
      BY <1>1, <1>4, <1>8, <2>4, <2>5, <3>2, <3>3 DEF ClockLow, MasterTypes, ByteDone
    <3>5. ByteDone => (counter_send + 1) % 8 = 0
      BY <2>4 DEF ByteDone
    <3> QED BY <2>1, <2>4, <2>5, <3>1, <3>2, <3>3, <3>4, <3>5 DEF Counting, InFlight, Sending
  <2> QED BY <2>6, <2>7
<1>9. CASE WAIT_ACK
  <2>1. /\ valid <=> ~end_transaction
        /\ spi_byte_valid_d <=> (end_transaction /\ ~spi_rd_ack)
        /\ spi_rd_ack => end_transaction
    BY <1>1, <1>9 DEF WAIT_ACK, Counting, Handshake
  <2>2. spi_rd_ack' = end_transaction
    BY DEF Next, StatusEdge
  <2>3. MasterTypes'
    BY <1>1, <1>9 DEF WAIT_ACK, MasterTypes, HostTypes
  <2> QED BY <1>1, <1>3, <1>9, <2>1, <2>2, <2>3 DEF WAIT_ACK, Counting, InFlight, Sending
<1> QED BY <1>1, <1>5, <1>6, <1>7, <1>8, <1>9 DEF MasterEdge

-----------------------------------------------------------------------------
(* Bytes read and bytes assembled during a transfer.                           *)

(* The byte in flight is one of the transfer; when the end is reported none is *)
(* left.                                                                       *)
LEMMA Counts ==
  ASSUME IInv, Active
  PROVE  /\ Fetched \in 0 .. Bytes /\ Assembled \in 0 .. Bytes
         /\ InFlight => Assembled < Bytes /\ Fetched = Assembled + 1
         /\ ~InFlight => Fetched = Assembled
         /\ state \in {"SEND_CMD", "SEND_ADDR", "READ_FLASH"} => Assembled < Bytes
         /\ mm_spi_valid => Assembled = Bytes
         /\ state = "IDLE" => mm_spi_valid
<1>1. /\ Bytes \in Nat /\ Bytes >= 2 /\ mm_read_size = 8 * Bytes
  BY UnderwayFits DEF Active
<1>2. Counting /\ Handshake /\ MasterTypes
  BY DEF IInv
<1>3. CASE Sending
  <2>1. ~InFlight /\ state # "IDLE" /\ state # "READ_FLASH" /\ ~mm_spi_valid
    BY <1>2, <1>3 DEF Counting, Sending, Handshake, Active
  <2> QED BY <1>1, <1>3, <2>1 DEF Fetched, Assembled
<1>4. CASE state = "READ_FLASH"
  <2>1. /\ counter_send \in Nat /\ counter_send < 8 * Bytes
        /\ InFlight => counter_send % 8 = 0 /\ counter_send > 0
        /\ ~mm_spi_valid
    BY <1>1, <1>2, <1>4 DEF Counting, MasterTypes, Handshake, Active
  <2>2. /\ (counter_send \div 8) \in 0 .. Bytes - 1
        /\ InFlight => (counter_send \div 8) > 0
    BY <1>1, <2>1
  <2> QED BY <1>1, <1>4, <2>1, <2>2 DEF Fetched, Assembled, Sending
<1>5. CASE state = "WAIT_ACK"
  <2>1. /\ valid <=> ~end_transaction
        /\ spi_byte_valid_d <=> (end_transaction /\ ~spi_rd_ack)
        /\ mm_spi_valid => spi_rd_ack
        /\ spi_rd_ack => end_transaction
    BY <1>2, <1>5 DEF Counting, Handshake, Active
  <2> QED BY <1>1, <1>5, <2>1 DEF Fetched, Assembled, Sending, InFlight
<1>6. CASE state = "IDLE"
  <2>1. ~InFlight /\ mm_spi_valid
    BY <1>2, <1>6 DEF Counting, Handshake, Active
  <2> QED BY <1>1, <1>6, <2>1 DEF Fetched, Assembled, Sending
<1> QED BY <1>2, <1>3, <1>4, <1>5, <1>6 DEF MasterTypes, Sending

(* While a transfer is active its registers stand, and each byte is counted    *)
(* once by the master and two edges later once by the word assembly.           *)
LEMMA CountedOnce ==
  ASSUME IInv, Next, Active, stage' = "poll"
  PROVE  /\ UNCHANGED regs /\ Active' /\ ~spi_enable /\ Bytes' = Bytes
         /\ Fetched' = Fetched + (IF valid' THEN 1 ELSE 0)
         /\ Assembled' = Assembled + (IF spi_byte_valid_d THEN 1 ELSE 0)
         /\ spi_byte_valid_d' = valid
<1>1. /\ UNCHANGED regs /\ Active' /\ ~spi_enable /\ Bytes' = Bytes
      /\ Bytes \in Nat /\ mm_read_size = 8 * Bytes
  BY RegistersKept, UnderwayFits DEF Active, spi_enable, Bytes, regs
<1>2. /\ MasterEdge /\ WordEdge /\ MasterTypes /\ WordTypes /\ Handshake /\ Counting
      /\ MasterTypes' /\ Counting'
  BY MasterStep DEF Next, IInv
<1>3. /\ spi_byte_valid_d' = valid /\ ~(valid /\ spi_byte_valid_d)
      /\ valid \in BOOLEAN /\ valid' \in BOOLEAN /\ spi_byte_valid_d \in BOOLEAN
  BY <1>2 DEF WordEdge, spi_byte_valid_pulse, Counting, MasterTypes, WordTypes
<1>4. Fetched \in Nat
  BY Counts, <1>1
<1>5. InFlight' <=> (valid' \/ valid)
  BY <1>3 DEF InFlight
<1>6. CASE IDLE
  <2>1. ~valid /\ ~spi_byte_valid_d /\ state = "IDLE" /\ state' = "IDLE" /\ ~valid'
    BY <1>1, <1>2, <1>6 DEF IDLE, Counting, InFlight
  <2>2. Fetched = Bytes /\ Fetched' = Bytes
    BY <1>1, <2>1 DEF Fetched, Sending
  <2> QED BY <1>1, <1>3, <1>5, <2>1, <2>2 DEF Assembled, InFlight
<1>7. CASE SEND
  <2>1. ~valid /\ ~spi_byte_valid_d /\ ~valid' /\ Fetched = 0
    BY <1>2, <1>7 DEF SEND, Counting, InFlight, Sending, Fetched
  <2>2. Fetched' = 0
    BY <1>2, <1>7 DEF SEND, Fetched, Sending, Counting
  <2> QED BY <1>1, <1>3, <1>5, <2>1, <2>2 DEF Assembled, InFlight
<1>8. CASE ClockHigh
  <2>1. ~spi_byte_valid_d /\ ~valid'
    BY <1>2, <1>8 DEF ClockHigh, Counting
  <2>2. Fetched' = Fetched
    BY <1>8 DEF ClockHigh, Fetched, Sending
  <2>3. Assembled' = Assembled
    BY <1>5, <2>1, <2>2 DEF Assembled, InFlight
  <2>4. Assembled \in Nat
    BY Counts, <1>1
  <2> QED BY <1>1, <1>3, <1>4, <2>1, <2>2, <2>3, <2>4
<1>9. CASE ClockLow
  <2>1. /\ ~valid /\ valid' = ByteDone /\ state = "READ_FLASH"
        /\ counter_send \in Nat /\ counter_send < 8 * Bytes
        /\ spi_byte_valid_d => counter_send % 8 = 0 /\ counter_send > 0
    BY <1>1, <1>2, <1>9 DEF ClockLow, Counting, InFlight, MasterTypes
  <2>2. Fetched = counter_send \div 8
    BY <2>1 DEF Fetched, Sending
  <2>3. Fetched' = Fetched + (IF ByteDone THEN 1 ELSE 0)
    <3>1. CASE ByteDone /\ LastBit
      <4>1. state' = "WAIT_ACK" /\ Fetched' = Bytes
        BY <1>1, <1>9, <3>1 DEF ClockLow, Fetched, Sending
      <4>2. counter_send = 8 * Bytes - 1
        BY <1>1, <2>1, <3>1, LastBitFound, UnderwayFits DEF Active, Fits
      <4> QED BY <1>1, <2>1, <2>2, <3>1, <4>1, <4>2
    <3>2. CASE ~(ByteDone /\ LastBit)
      <4>1. state' = "READ_FLASH" /\ Fetched' = counter_send' \div 8
        BY <1>9, <3>2 DEF ClockLow, Fetched, Sending
      <4>2. counter_send' = counter_send + 1
        <5>1. PICK m \in Nat : m = 2^CounterBits
          BY CounterRange
        <5>2. mm_read_size < m /\ words_to_read_reg = mm_read_size /\ mm_read_size > 0
          BY <2>1, <5>1, UnderwayFits DEF Active, Fits
        <5>3. LastBit <=> counter_send = mm_read_size - 1
          BY <1>1, <5>1, <5>2, LastBitFound
        <5>4. counter_send + 1 \in 0 .. m - 1
          BY <1>1, <2>1, <5>1, <5>2
        <5>5. counter_send' = (counter_send + 1) % m
          BY <1>9, <3>2, <5>1 DEF ClockLow
        <5>6. m \in Nat \ {0}
          BY <1>1, <5>1, <5>2
        <5> QED BY <5>4, <5>5, <5>6, ModSmall
      <4> QED BY <2>1, <2>2, <4>1, <4>2 DEF ByteDone
    <3> QED BY <3>1, <3>2
  <2>4. CASE spi_byte_valid_d
    <3>1. ~ByteDone
      BY <2>1, <2>4 DEF ByteDone
    <3> QED BY <1>1, <1>3, <1>4, <1>5, <2>1, <2>3, <2>4, <3>1 DEF Assembled, InFlight
  <2>5. CASE ~spi_byte_valid_d
    BY <1>1, <1>3, <1>4, <1>5, <2>1, <2>3, <2>5 DEF Assembled, InFlight
  <2> QED BY <2>4, <2>5
<1>10. CASE WAIT_ACK
  <2>1. ~valid' /\ Fetched = Bytes /\ Fetched' = Bytes
    BY <1>1, <1>10 DEF WAIT_ACK, Fetched, Sending
  <2>2. CASE spi_byte_valid_d
    BY <1>1, <1>3, <1>5, <2>1, <2>2 DEF Assembled, InFlight
  <2>3. CASE ~spi_byte_valid_d
    BY <1>1, <1>3, <1>5, <2>1, <2>3 DEF Assembled, InFlight
  <2> QED BY <2>2, <2>3
<1>11. IDLE \/ SEND \/ ClockHigh \/ ClockLow \/ WAIT_ACK
  BY <1>2 DEF MasterEdge
<1> QED BY <1>6, <1>7, <1>8, <1>9, <1>10, <1>11

(* The edge at which the master is told to start: nothing is in flight.        *)
LEMMA Begun ==
  ASSUME IInv, Next, ~Active, Active'
  PROVE  /\ UNCHANGED regs /\ spi_enable /\ ~spi_byte_valid_d /\ ~valid
         /\ ~spi_byte_valid_d' /\ ~valid' /\ Sending' /\ Assembled' = 0 /\ Fetched' = 0
         /\ Bytes' = Bytes /\ stage = "poll" /\ Fits
         /\ flash_adr' = mm_spi_adr /\ mm_spi_start
<1>1. stage = "poll" /\ mm_spi_start /\ UNCHANGED regs
  BY RegistersKept DEF Active
<1>2. spi_enable /\ state = "IDLE" /\ ~InFlight /\ Fits
  BY <1>1 DEF IInv, Handshake, Counting, spi_enable, Requested
<1>3. /\ state' = "SEND_CMD" /\ ~valid' /\ flash_adr' = mm_spi_adr
      /\ ~spi_byte_valid_d'
  BY <1>2 DEF Next, MasterEdge, IDLE, SEND, ClockHigh, ClockLow, WAIT_ACK, WordEdge,
              spi_byte_valid_pulse, InFlight
<1>4. Fetched' = 0 /\ Assembled' = 0
  BY <1>3 DEF Fetched, Assembled, Sending, InFlight
<1> QED BY <1>1, <1>2, <1>3, <1>4 DEF InFlight, Sending, Bytes, regs

-----------------------------------------------------------------------------
(* The word assembly.                                                          *)

(* Its types.                                                                  *)
LEMMA WordTypesStep ==
  ASSUME IInv, Next
  PROVE  WordTypes'
<1>1. WordEdge /\ WordTypes /\ MasterTypes
  BY DEF Next, IInv
<1>2. spi_byte_valid_d' \in BOOLEAN
  BY <1>1 DEF WordEdge, WordTypes, MasterTypes, spi_byte_valid_pulse
<1>3. address_mems' \in Nat
  <2>1. 2 * Depth \in Nat \ {0} /\ address_mems + 1 \in Nat /\ address_mems \in Nat
    BY <1>1, Constants DEF WordTypes
  <2>2. ((address_mems + 1) % (2 * Depth)) \in Nat
    <3>1. PICK m \in Nat \ {0} : m = 2 * Depth
      BY <2>1
    <3>2. PICK a \in Nat : a = address_mems + 1
      BY <2>1
    <3>3. (a % m) \in 0 .. m - 1
      BY ModSuccessor
    <3> QED BY <3>1, <3>2, <3>3
  <2> QED BY <1>1, <2>1, <2>2 DEF WordEdge, NextAddress
<1>4. data_in_intmems' \in Pair
  <2>1. data_in_intmems[2] \in 0 .. FlashBytes /\ <<0, 0>> \in Pair
    BY <1>1, Constants DEF WordTypes, Pair
  <2>2. <<data_in_intmems[2], rd_data>> \in Pair
    BY <1>1, <2>1 DEF MasterTypes, Pair
  <2> QED BY <1>1, <2>1, <2>2 DEF WordEdge, NextData, Zero, WordTypes
<1>5. INT_MEM' \in [0 .. 1 -> [0 .. Depth - 1 -> Pair]]
  <2>1. data_in_intmems \in Pair /\ INT_MEM \in [0 .. 1 -> [0 .. Depth - 1 -> Pair]]
    BY <1>1 DEF WordTypes
  <2>2. \A k \in 0 .. 1 : /\ INT_MEM[k] \in [0 .. Depth - 1 -> Pair]
                          /\ [INT_MEM[k] EXCEPT ![wr_addr] = data_in_intmems]
                                \in [0 .. Depth - 1 -> Pair]
    BY <2>1
  <2>3. INT_MEM' = [k \in 0..1 |-> IF Writes(k)
                                   THEN [INT_MEM[k] EXCEPT ![wr_addr] = data_in_intmems]
                                   ELSE INT_MEM[k]]
    BY <1>1 DEF WordEdge
  <2> QED BY <2>2, <2>3
<1> QED BY <1>2, <1>3, <1>4, <1>5 DEF WordTypes

(* The byte the master passes is the next one of the transfer.                 *)
LEMMA NextByteRead ==
  ASSUME IInv, Next, Active, stage' = "poll"
  PROVE  /\ state' \in {"SEND_CMD", "SEND_ADDR", "READ_FLASH"} =>
               flash_adr' = (mm_spi_adr + Fetched') % FlashBytes
         /\ valid' => rd_data' = At(Assembled')
<1>1. /\ UNCHANGED regs /\ Active' /\ ~spi_enable
      /\ Fetched' = Fetched + (IF valid' THEN 1 ELSE 0)
      /\ Assembled' = Assembled + (IF spi_byte_valid_d THEN 1 ELSE 0)
  BY CountedOnce
<1>2. MasterEdge /\ Assembly /\ Counting /\ MasterTypes
  BY DEF Next, IInv
<1>3. /\ Fetched \in Nat /\ mm_spi_adr \in Nat /\ FlashBytes \in Nat \ {0}
  BY Counts, UnderwayFits, Constants DEF IInv, HostTypes, Active
<1>4. CASE valid'
  <2>1. /\ ~valid /\ ~spi_byte_valid_d /\ state = "READ_FLASH"
        /\ rd_data' = Flash(flash_adr) /\ flash_adr' = (flash_adr + 1) % FlashBytes
    <3>1. ClockLow /\ ByteDone
      BY <1>2, <1>4, <1>1 DEF MasterEdge, IDLE, SEND, ClockHigh, ClockLow, WAIT_ACK,
                              Counting, InFlight
    <3>2. counter_send \in Nat /\ (spi_byte_valid_d => counter_send % 8 = 0)
      BY <1>2, <3>1 DEF ClockLow, Counting, InFlight, MasterTypes
    <3> QED BY <1>2, <3>1, <3>2 DEF ClockLow, ByteDone, Counting
  <2>2. flash_adr = (mm_spi_adr + Fetched) % FlashBytes
    BY <1>2, <2>1 DEF Assembly, Active
  <2>3. Fetched' = Fetched + 1 /\ Assembled' = Fetched
    BY <1>1, <1>3, <1>4, <2>1, Counts DEF InFlight
  <2>4. flash_adr' = (mm_spi_adr + Fetched + 1) % FlashBytes
    <3>1. mm_spi_adr + Fetched \in Nat
      BY <1>3
    <3> QED BY <1>3, <2>1, <2>2, <3>1, ModSuccessor
  <2>5. At(Assembled') = Flash((mm_spi_adr + Fetched) % FlashBytes)
    BY <2>3 DEF At
  <2> QED BY <1>1, <1>3, <2>1, <2>2, <2>3, <2>4, <2>5
<1>5. CASE ~valid'
  <2>1. Fetched' = Fetched
    BY <1>1, <1>3, <1>5
  <2>2. state' \in {"SEND_CMD", "SEND_ADDR", "READ_FLASH"} =>
            /\ state \in {"SEND_CMD", "SEND_ADDR", "READ_FLASH"} /\ flash_adr' = flash_adr
    BY <1>1, <1>2, <1>5 DEF MasterEdge, IDLE, SEND, ClockHigh, ClockLow, WAIT_ACK
  <2> QED BY <1>2, <1>5, <2>1, <2>2 DEF Assembly, Active
<1> QED BY <1>4, <1>5

(* The address counts the bytes, and the low bit tells the two of a word apart *)
(* as long as bytes of the transfer are missing.                               *)
LEMMA AddressCounts ==
  ASSUME IInv, Active
  PROVE  /\ Assembled \in Nat
         /\ spi_byte_valid_d => Assembled < Bytes /\ address_mems = Assembled
         /\ wen <=> (spi_byte_valid_d /\ Assembled % 2 = 1)
         /\ wen => wr_addr = Assembled \div 2 /\ 2 * wr_addr + 1 = Assembled
                   /\ wr_addr \in 0 .. Depth - 1
<1>1. Assembled \in Nat /\ (spi_byte_valid_d => Assembled < Bytes)
  BY Counts, UnderwayFits DEF Active, InFlight
<1>2. Bytes \in Nat /\ Bytes <= 2 * Depth /\ Depth \in Nat
  BY UnderwayFits, Constants DEF Active
<1>3. spi_byte_valid_d => address_mems = Assembled
  BY <1>1, <1>2 DEF IInv, Assembly
<1> QED BY <1>1, <1>2, <1>3 DEF wen, wr_addr

(* One edge of the word assembly.                                              *)
LEMMA AssemblyStep ==
  ASSUME IInv, Next
  PROVE  Assembly'
<1>1. WordEdge /\ MasterTypes /\ WordTypes /\ Counting /\ Assembly
  BY DEF Next, IInv
<1>2. CASE ~Active'
  BY <1>2 DEF Assembly
<1>3. CASE ~Active /\ Active'
  <2>1. /\ UNCHANGED regs /\ spi_enable /\ ~spi_byte_valid_d' /\ ~valid' /\ Sending'
        /\ Assembled' = 0 /\ Fetched' = 0 /\ flash_adr' = mm_spi_adr
    BY <1>3, Begun
  <2>2. address_mems' = 0
    BY <1>1, <2>1 DEF WordEdge, NextAddress, rst_out_spi
  <2>3. mm_spi_adr \in 0 .. FlashBytes - 1 /\ FlashBytes \in Nat \ {0} /\ Depth \in Nat \ {0}
    BY Constants DEF IInv, HostTypes
  <2>4. (mm_spi_adr + 0) % FlashBytes = mm_spi_adr
    BY <2>3, ModSmall
  <2>5. mm_spi_adr' = mm_spi_adr
    BY <2>1 DEF regs
  <2> QED BY <2>1, <2>2, <2>3, <2>4, <2>5 DEF Assembly
<1>4. CASE Active /\ Active'
  <2> stage' = "poll"
    BY <1>4 DEF Active
  <2>1. /\ UNCHANGED regs /\ ~spi_enable /\ spi_byte_valid_d' = valid
        /\ Assembled' = Assembled + (IF spi_byte_valid_d THEN 1 ELSE 0)
    BY <1>4, CountedOnce
  <2>2. /\ state' \in {"SEND_CMD", "SEND_ADDR", "READ_FLASH"} =>
              flash_adr' = (mm_spi_adr + Fetched') % FlashBytes
        /\ valid' => rd_data' = At(Assembled')
        /\ mm_spi_adr' = mm_spi_adr
    BY <1>4, <2>1, NextByteRead DEF regs
  <2>3. /\ Assembled \in Nat /\ Assembled <= 2 * Depth /\ Depth \in Nat \ {0}
        /\ spi_byte_valid_d => Assembled < 2 * Depth
        /\ spi_byte_valid_d => address_mems = Assembled
        /\ wen <=> (spi_byte_valid_d /\ Assembled % 2 = 1)
    BY <1>4, AddressCounts, Counts, UnderwayFits, Constants DEF Active
  <2>4. address_mems' = IF Assembled' = 2 * Depth THEN 0 ELSE Assembled'
    <3>1. CASE spi_byte_valid_d
      <4>1. address_mems' = (Assembled + 1) % (2 * Depth) /\ Assembled' = Assembled + 1
        BY <1>1, <2>1, <2>3, <3>1 DEF WordEdge, NextAddress, rst_out_spi
      <4>2. PICK m \in Nat \ {0} : m = 2 * Depth
        BY <2>3
      <4>3. Assembled + 1 < m => (Assembled + 1) % m = Assembled + 1
        BY <2>3, <4>2, ModSmall
      <4>4. (m % m) = 0
        BY SMT
      <4> QED BY <2>3, <3>1, <4>1, <4>2, <4>3, <4>4
    <3>2. CASE ~spi_byte_valid_d
      BY <1>1, <1>4, <2>1, <2>3, <3>2 DEF WordEdge, NextAddress, rst_out_spi, Assembly
    <3> QED BY <3>1, <3>2
  <2>5. /\ At(Assembled)' = At(Assembled')
        /\ At(Assembled - 1)' = At(Assembled' - 1)
    BY <2>2 DEF At, Flash
  <2>6. /\ spi_byte_valid_d' => data_in_intmems'[2] = At(Assembled')
        /\ Assembled' % 2 = 1 =>
               IF spi_byte_valid_d' THEN data_in_intmems'[1] = At(Assembled' - 1)
                                    ELSE data_in_intmems'[2] = At(Assembled' - 1)
    <3>1. CASE valid
      <4>1. ~spi_byte_valid_d /\ spi_byte_valid_d' /\ Assembled' = Assembled
        BY <1>1, <2>1, <2>3, <3>1 DEF Counting
      <4>2. data_in_intmems' = <<data_in_intmems[2], rd_data>>
        BY <1>1, <2>1, <2>3, <3>1, <4>1 DEF WordEdge, NextData, spi_byte_valid_pulse, rst_out_spi
      <4>3. /\ rd_data = At(Assembled)
            /\ Assembled % 2 = 1 => data_in_intmems[2] = At(Assembled - 1)
        BY <1>1, <1>4, <3>1, <4>1 DEF Assembly
      <4> QED BY <4>1, <4>2, <4>3
    <3>2. CASE spi_byte_valid_d
      <4>1. ~valid /\ ~spi_byte_valid_d' /\ Assembled' = Assembled + 1
        BY <1>1, <2>1, <2>3, <3>2 DEF Counting
      <4>2. ASSUME Assembled' % 2 = 1 PROVE data_in_intmems'[2] = At(Assembled' - 1)
        <5>1. ~wen /\ Assembled' - 1 = Assembled
          BY <2>3, <4>1, <4>2
        <5>2. data_in_intmems' = data_in_intmems
          BY <1>1, <2>1, <4>1, <5>1 DEF WordEdge, NextData, spi_byte_valid_pulse, rst_out_spi
        <5> QED BY <1>1, <1>4, <3>2, <5>1, <5>2 DEF Assembly
      <4> QED BY <4>1, <4>2
    <3>3. CASE ~valid /\ ~spi_byte_valid_d
      <4>1. ~spi_byte_valid_d' /\ Assembled' = Assembled /\ ~wen
        BY <2>1, <2>3, <3>3
      <4>2. data_in_intmems' = data_in_intmems
        BY <1>1, <2>1, <3>3, <4>1 DEF WordEdge, NextData, spi_byte_valid_pulse, rst_out_spi
      <4> QED BY <1>1, <1>4, <3>3, <4>1, <4>2 DEF Assembly
    <3> QED BY <3>1, <3>2, <3>3
  <2>7. (Active => /\ address_mems = IF Assembled = 2 * Depth THEN 0 ELSE Assembled
                   /\ state \in {"SEND_CMD", "SEND_ADDR", "READ_FLASH"} =>
                          flash_adr = (mm_spi_adr + Fetched) % FlashBytes
                   /\ valid => rd_data = At(Assembled)
                   /\ spi_byte_valid_d => data_in_intmems[2] = At(Assembled)
                   /\ Assembled % 2 = 1 =>
                          IF spi_byte_valid_d THEN data_in_intmems[1] = At(Assembled - 1)
                                              ELSE data_in_intmems[2] = At(Assembled - 1))'
    BY <2>2, <2>4, <2>5, <2>6
  <2> QED BY <2>7 DEF Assembly
<1> QED BY <1>2, <1>3, <1>4

(* Words are written in order, each into its own place, and stay there.        *)
LEMMA StoredStep ==
  ASSUME IInv, Next
  PROVE  Stored'
<1>1. /\ WordEdge /\ BufferEdge /\ WordTypes /\ BufferTypes /\ HostTypes /\ Counting
      /\ Assembly /\ Stored /\ Streaming /\ Handshake
  BY DEF Next, IInv
<1>2. CASE ~Active'
  BY <1>2 DEF Stored
<1>3. CASE ~Active /\ Active'
  <2>1. Assembled' = 0
    BY <1>3, Begun
  <2>2. \A i \in Nat : ~(2 * i + 1 < 0)
    OBVIOUS
  <2> QED BY <2>1, <2>2 DEF Stored
<1>4. CASE Active /\ Active'
  <2> stage' = "poll"
    BY <1>4 DEF Active
  <2>1. /\ UNCHANGED regs /\ Assembled' = Assembled + (IF spi_byte_valid_d THEN 1 ELSE 0)
        /\ \A i : TheWord(i)' = TheWord(i)
    BY <1>4, CountedOnce DEF TheWord, At, Flash, regs
  <2>2. /\ Assembled \in Nat
        /\ wen <=> (spi_byte_valid_d /\ Assembled % 2 = 1)
        /\ wen => /\ wr_addr = Assembled \div 2 /\ 2 * wr_addr + 1 = Assembled
                  /\ wr_addr \in 0 .. Depth - 1
    BY <1>4, AddressCounts
  <2>3. /\ Assembled <= Bytes /\ Bytes \in Nat /\ Bytes <= 2 * Depth
        /\ mm_mem_address = 2 => Bytes = 2 * CHANNELS_INT
        /\ Depth \in Nat /\ CHANNELS_INT \in Nat
        /\ mm_mem_address # 2 => mm_external_wren = {mm_mem_address}
        /\ wen => Assembled < Bytes
    BY <1>4, Counts, UnderwayFits, Constants DEF Active, Fits, wen, InFlight
  <2>4. wen => data_in_intmems = TheWord(wr_addr)
    <3> SUFFICES ASSUME wen PROVE data_in_intmems = TheWord(wr_addr)
      OBVIOUS
    <3>1. spi_byte_valid_d /\ Assembled % 2 = 1
      BY <2>2
    <3>2. data_in_intmems[1] = At(Assembled - 1) /\ data_in_intmems[2] = At(Assembled)
      BY <1>1, <1>4, <3>1 DEF Assembly
    <3>3. data_in_intmems = <<data_in_intmems[1], data_in_intmems[2]>>
      BY <1>1 DEF WordTypes, Pair
    <3>4. 2 * wr_addr = Assembled - 1 /\ 2 * wr_addr + 1 = Assembled
      BY <2>2
    <3> QED BY <3>2, <3>3, <3>4 DEF TheWord
  <2> SUFFICES ASSUME NEW i \in Nat, 2 * i + 1 < Assembled'
               PROVE  IF mm_mem_address = 2 THEN buffer'[i] = TheWord(i)
                                            ELSE INT_MEM'[mm_mem_address][i] = TheWord(i)
    BY <2>1 DEF Stored, regs
  <2>5. (2 * i + 1 < Assembled) \/ (wen /\ wr_addr = i)
    BY <2>1, <2>2
  <2>6. (2 * i + 1 < Assembled) => ~(wen /\ wr_addr = i)
    BY <2>2
  <2>7. CASE mm_mem_address = 2
    <3>1. wr_en <=> wen
      BY <2>7 DEF wr_en, en_mem
    <3>2. wen => pointer = wr_addr
      BY <1>1, <1>4, <2>2, <2>3, <2>7 DEF Streaming, Filling
    <3>3. i \in 0 .. CHANNELS_INT - 1
      BY <2>1, <2>2, <2>3, <2>5, <2>7
    <3>4. buffer' = IF wen THEN [buffer EXCEPT ![pointer] = data_in_intmems] ELSE buffer
      BY <1>1, <3>1 DEF BufferEdge
    <3>5. buffer \in [0 .. CHANNELS_INT - 1 -> Pair]
      BY <1>1 DEF BufferTypes
    <3>6. buffer'[i] = IF wen /\ pointer = i THEN data_in_intmems ELSE buffer[i]
      BY <3>3, <3>4, <3>5
    <3>7. (2 * i + 1 < Assembled) => buffer[i] = TheWord(i)
      BY <1>1, <1>4, <2>7 DEF Stored
    <3> QED BY <2>4, <2>5, <2>6, <2>7, <3>2, <3>6, <3>7
  <2>8. CASE mm_mem_address # 2
    <3>1. mm_mem_address \in 0 .. 1
      BY <1>1, <2>8 DEF HostTypes
    <3>2. Writes(mm_mem_address) <=> wen
      BY <2>3, <2>8 DEF Writes, en_mem
    <3>3. i \in 0 .. Depth - 1
      BY <2>1, <2>2, <2>3, <2>5
    <3>4. INT_MEM'[mm_mem_address] = IF wen
                  THEN [INT_MEM[mm_mem_address] EXCEPT ![wr_addr] = data_in_intmems]
                  ELSE INT_MEM[mm_mem_address]
      BY <1>1, <3>1, <3>2 DEF WordEdge
    <3>5. INT_MEM[mm_mem_address] \in [0 .. Depth - 1 -> Pair]
      BY <1>1, <3>1 DEF WordTypes
    <3>6. INT_MEM'[mm_mem_address][i] =
              IF wen /\ wr_addr = i THEN data_in_intmems ELSE INT_MEM[mm_mem_address][i]
      BY <3>3, <3>4, <3>5
    <3>7. (2 * i + 1 < Assembled) => INT_MEM[mm_mem_address][i] = TheWord(i)
      BY <1>1, <1>4, <2>8 DEF Stored
    <3> QED BY <2>4, <2>5, <2>6, <2>8, <3>6, <3>7
  <2> QED BY <2>7, <2>8
<1> QED BY <1>2, <1>3, <1>4

-----------------------------------------------------------------------------
(* The input buffer.                                                           *)

(* Its types.                                                                  *)
LEMMA BufferTypesStep ==
  ASSUME IInv, Next
  PROVE  BufferTypes'
<1>1. BufferEdge /\ BufferTypes /\ WordTypes
  BY DEF Next, IInv
<1>2. buffer' \in [0 .. CHANNELS_INT - 1 -> Pair]
  BY <1>1 DEF BufferEdge, BufferTypes, WordTypes
<1>3. pointer' \in 0 .. CHANNELS_INT - 1
  <2>1. PICK m \in Nat \ {0} : m = CHANNELS_INT
    BY Constants
  <2>2. pointer \in 0 .. m - 1
    BY <1>1, <2>1 DEF BufferTypes
  <2>3. ((pointer + 1) % m) \in 0 .. m - 1
    BY <2>2, ModSuccessor
  <2> QED BY <1>1, <2>1, <2>2, <2>3 DEF BufferEdge, NextPointer, Advance
<1>4. mem_out' \in Pair
  BY <1>1 DEF BufferEdge, BufferTypes
<1>5. sample' \in Nat
  BY <1>1 DEF BufferEdge, BufferTypes
<1>6. read_flag' \in BOOLEAN /\ slow_stream_out' \in BOOLEAN /\ buffer_valid' \in BOOLEAN
  BY <1>1 DEF BufferEdge, BufferTypes, NextReadFlag
<1> QED BY <1>2, <1>3, <1>4, <1>5, <1>6 DEF BufferTypes

(* Words are written into the input buffer while it is filled only.            *)
LEMMA WritesWhileFilling ==
  ASSUME IInv, wr_en
  PROVE  Filling /\ wen
<1>1. wen /\ mm_mem_address = 2 /\ spi_byte_valid_d
  BY DEF wr_en, en_mem, wen
<1>2. Active
  BY <1>1, UnderwayFits DEF IInv, Counting, InFlight, Active
<1> QED BY <1>1, <1>2, Counts DEF Filling, InFlight

(* A transfer into the input buffer fills it to the end.                       *)
LEMMA FillingGoesOn ==
  ASSUME IInv, Next
  PROVE  /\ Filling => stage' = "poll" /\ Active' /\ mm_mem_address' = 2
         /\ Filling' => Filling \/ (spi_enable /\ Assembled' = 0)
<1>1. ASSUME Filling PROVE stage' = "poll" /\ Active' /\ mm_mem_address' = 2
  <2>1. Active /\ ~mm_spi_valid
    BY <1>1, Counts, UnderwayFits DEF Filling, Active
  <2>2. stage' = "poll" /\ UNCHANGED regs /\ ~mm_spi_start'
    BY <2>1, RegistersKept DEF Active, IInv, HostTypes
  <2> QED BY <1>1, <2>2 DEF Active, Filling, regs
<1>2. ASSUME Filling', ~Filling PROVE spi_enable /\ Assembled' = 0
  <2>1. CASE ~Active
    BY <1>2, <2>1, Begun DEF Filling
  <2>2. CASE Active
    <3>1. stage' = "poll"
      BY <1>2 DEF Filling, Active
    <3>2. /\ UNCHANGED regs /\ Bytes' = Bytes
          /\ Assembled' = Assembled + (IF spi_byte_valid_d THEN 1 ELSE 0)
      BY <2>2, <3>1, CountedOnce
    <3>3. Assembled = Bytes /\ Bytes \in Nat
      BY <1>2, <2>2, <3>2, Counts, UnderwayFits DEF Filling, Active, regs
    <3> QED BY <1>2, <3>2, <3>3 DEF Filling
  <2> QED BY <2>1, <2>2
<1> QED BY <1>1, <1>2

(* The pointer goes round once.                                                *)
LEMMA PointerAdvances ==
  ASSUME IInv
  PROVE  /\ CHANNELS_INT \in Nat \ {0} /\ pointer \in 0 .. CHANNELS_INT - 1
         /\ Advance = IF pointer = CHANNELS_INT - 1 THEN 0 ELSE pointer + 1
<1>1. PICK m \in Nat \ {0} : m = CHANNELS_INT
  BY Constants
<1>2. pointer \in 0 .. m - 1
  BY <1>1 DEF IInv, BufferTypes
<1>3. (pointer % m) = pointer
  BY <1>2, ModSmall
<1>4. pointer \in Nat
  BY <1>2
<1>5. (pointer + 1) % m = IF (pointer % m) < m - 1 THEN (pointer % m) + 1 ELSE 0
  BY <1>4, ModSuccessor
<1> QED BY <1>1, <1>2, <1>3, <1>5 DEF Advance

(* An edge of the buffer while it is filled; the last word starts the stream.  *)
LEMMA FillingStep ==
  ASSUME IInv, Next, Filling, Stored'
  PROVE  Streaming'
<1>1. BufferEdge /\ Streaming /\ WordTypes /\ BufferTypes
  BY DEF Next, IInv
<1>2. /\ Active /\ mm_mem_address = 2 /\ Still /\ sample = 0 /\ pointer = Assembled \div 2
  BY <1>1 DEF Filling, Streaming
<1>3. stage' = "poll" /\ Active' /\ mm_mem_address' = 2
  BY FillingGoesOn
<1>4. /\ UNCHANGED regs /\ ~spi_enable /\ Bytes' = Bytes
      /\ Assembled' = Assembled + (IF spi_byte_valid_d THEN 1 ELSE 0)
  BY <1>2, <1>3, CountedOnce
<1>5. /\ Assembled \in Nat /\ Assembled < Bytes /\ Bytes = 2 * CHANNELS_INT
      /\ CHANNELS_INT \in Nat \ {0} /\ pointer \in 0 .. CHANNELS_INT - 1
      /\ wen <=> (spi_byte_valid_d /\ Assembled % 2 = 1)
      /\ Advance = IF pointer = CHANNELS_INT - 1 THEN 0 ELSE pointer + 1
  BY <1>2, AddressCounts, UnderwayFits, PointerAdvances DEF Filling, Active
<1>6. wr_en <=> wen
  BY <1>2 DEF wr_en, en_mem
<1>7. /\ ~slow_stream_out' /\ ~buffer_valid' /\ sample' = 0
      /\ pointer' = IF wen THEN Advance ELSE pointer
      /\ read_flag' <=> (wen /\ pointer = CHANNELS_INT - 1)
  <2>1. read_flag = FALSE /\ slow_stream_out = FALSE /\ buffer_valid = FALSE
    BY <1>1, <1>2 DEF Still, BufferTypes
  <2>2. ~slow_stream_out' /\ ~buffer_valid'
    BY <1>1, <2>1 DEF BufferEdge
  <2>3. sample' = 0
    BY <1>1, <1>2, <1>4, <2>1 DEF BufferEdge
  <2>4. pointer' = IF wen THEN Advance ELSE pointer
    BY <1>1, <1>6, <2>1 DEF BufferEdge, NextPointer
  <2>5. read_flag' <=> (wen /\ pointer = CHANNELS_INT - 1)
    BY <1>1, <1>6, <2>1 DEF BufferEdge, NextReadFlag
  <2> QED BY <2>2, <2>3, <2>4, <2>5
<1>8. Filling' <=> Assembled' < Bytes
  BY <1>3, <1>4 DEF Filling
<1>9. CASE wen /\ pointer = CHANNELS_INT - 1
  <2>1. Assembled = 2 * CHANNELS_INT - 1 /\ Assembled' = 2 * CHANNELS_INT
    BY <1>2, <1>4, <1>5, <1>9
  <2>2. ~Filling'
    BY <1>5, <1>8, <2>1
  <2>5. pointer' = 0 /\ read_flag'
    BY <1>5, <1>7, <1>9
  <2>3. \A i \in 0 .. CHANNELS_INT - 1 : buffer'[i] = TheWord(i)'
    <3> SUFFICES ASSUME NEW i \in 0 .. CHANNELS_INT - 1 PROVE buffer'[i] = TheWord(i)'
      OBVIOUS
    <3>1. i \in Nat /\ 2 * i + 1 < Assembled'
      BY <1>5, <2>1
    <3> QED BY <1>3, <3>1 DEF Stored
  <2>4. stage' # "start" /\ ~mm_spi_start'
    BY <1>3 DEF Active
  <2> QED BY <1>3, <1>7, <2>2, <2>3, <2>4, <2>5 DEF Streaming, Stream
<1>10. CASE wen /\ pointer # CHANNELS_INT - 1
  <2>1. Assembled' = Assembled + 1 /\ pointer' = pointer + 1 /\ Assembled % 2 = 1
    BY <1>4, <1>5, <1>7, <1>10
  <2>2. pointer' = Assembled' \div 2 /\ Assembled' < Bytes
    BY <1>2, <1>5, <1>10, <2>1
  <2> QED BY <1>7, <1>8, <1>10, <2>2 DEF Streaming, Still
<1>11. CASE ~wen
  <2>1. Assembled' \div 2 = Assembled \div 2 /\ Assembled' < Bytes
    BY <1>4, <1>5, <1>11
  <2> QED BY <1>2, <1>7, <1>8, <1>11, <2>1 DEF Streaming, Still
<1> QED BY <1>9, <1>10, <1>11

(* An edge of the buffer while it streams: two cycles per word, so that each   *)
(* byte of a word is handed on once; the firmware waits meanwhile.             *)
LEMMA StreamStep ==
  ASSUME IInv, Next, ~Filling, Stream
  PROVE  Streaming'
<1>1. BufferEdge /\ BufferTypes /\ HostTypes
  BY DEF Next, IInv
<1>2. /\ mm_mem_address = 2 /\ stage # "start" /\ ~mm_spi_start
      /\ ~wr_en /\ ~spi_enable
  BY WritesWhileFilling DEF Stream, spi_enable
<1>3. ~Filling'
  BY <1>2, FillingGoesOn
<1>4. /\ CHANNELS_INT \in Nat \ {0} /\ pointer \in 0 .. CHANNELS_INT - 1
      /\ Advance = IF pointer = CHANNELS_INT - 1 THEN 0 ELSE pointer + 1
  BY PointerAdvances
<1>5. sample \in Nat /\ sample < 2 * CHANNELS_INT
  BY <1>1, <1>4 DEF Stream, BufferTypes
<1>6. ~Result
  BY <1>2, <1>5 DEF Result
<1>7. UNCHANGED regs /\ stage' # "start" /\ ~mm_spi_start'
  BY <1>1, <1>2, <1>6, RegistersKept DEF HostTypes
<1>8. /\ buffer' = buffer /\ mem_out' = buffer[pointer]
      /\ pointer' = IF read_flag /\ slow_stream_out THEN Advance ELSE pointer
      /\ read_flag' = IF read_flag /\ slow_stream_out /\ pointer = CHANNELS_INT - 1
                      THEN FALSE ELSE read_flag
      /\ slow_stream_out' = (read_flag # slow_stream_out) /\ buffer_valid' = read_flag
      /\ sample' = IF buffer_valid THEN sample + 1 ELSE sample
  BY <1>1, <1>2 DEF BufferEdge, NextPointer, NextReadFlag
<1>9. mm_spi_adr' = mm_spi_adr
  BY <1>7 DEF regs
<1>10. /\ mm_mem_address' = 2
       /\ \A i \in 0 .. CHANNELS_INT - 1 : buffer'[i] = TheWord(i) /\ buffer[i] = TheWord(i)
  BY <1>2, <1>7, <1>8 DEF Stream, regs
<1>11. \A i \in 0 .. CHANNELS_INT - 1 : buffer'[i] = TheWord(i)'
  BY <1>9, <1>10 DEF TheWord, At, Flash
<1>12. /\ read_flag \in BOOLEAN /\ slow_stream_out \in BOOLEAN /\ buffer_valid \in BOOLEAN
  BY <1>1 DEF BufferTypes
<1>13. mem_out' = TheWord(pointer)
  BY <1>4, <1>8, <1>10
<1>14. CASE read_flag /\ ~slow_stream_out /\ ~buffer_valid /\ pointer = 0 /\ sample = 0
  <2>1. read_flag = TRUE /\ slow_stream_out = FALSE /\ buffer_valid = FALSE
    BY <1>12, <1>14
  <2>2. read_flag' /\ slow_stream_out' /\ buffer_valid' /\ pointer' = 0 /\ sample' = 0
    BY <1>8, <1>14, <2>1
  <2>3. sample' = 2 * pointer' /\ mem_out' = TheWord(pointer)'
    BY <1>9, <1>13, <1>14, <2>2 DEF TheWord, At, Flash
  <2> QED BY <1>3, <1>7, <1>10, <1>11, <2>2, <2>3 DEF Streaming, Stream
<1>15. CASE read_flag /\ slow_stream_out /\ buffer_valid /\ sample = 2 * pointer
  <2>0. read_flag = TRUE /\ slow_stream_out = TRUE /\ buffer_valid = TRUE
    BY <1>12, <1>15
  <2>1. ~slow_stream_out' /\ buffer_valid' /\ sample' = 2 * pointer + 1
    BY <1>8, <1>15, <2>0
  <2>2. CASE pointer = CHANNELS_INT - 1
    <3>1. ~read_flag' /\ pointer' = 0
      BY <1>4, <1>8, <2>0, <2>2
    <3>2. sample' = 2 * CHANNELS_INT - 1
      BY <1>4, <2>1, <2>2
    <3>3. mem_out' = TheWord(CHANNELS_INT - 1)'
      BY <1>9, <1>13, <2>2 DEF TheWord, At, Flash
    <3> QED BY <1>3, <1>7, <1>10, <1>11, <2>1, <3>1, <3>2, <3>3 DEF Streaming, Stream
  <2>3. CASE pointer # CHANNELS_INT - 1
    <3>1. read_flag' /\ pointer' = pointer + 1
      BY <1>4, <1>8, <2>0, <2>3
    <3>2. pointer' > 0 /\ pointer' - 1 = pointer /\ sample' = 2 * pointer' - 1
      BY <1>4, <2>1, <3>1
    <3>3. mem_out' = TheWord(pointer - 1)'
      BY <1>9, <1>13, <3>2 DEF TheWord, At, Flash
    <3> QED BY <1>3, <1>7, <1>10, <1>11, <2>1, <3>1, <3>2, <3>3 DEF Streaming, Stream
  <2> QED BY <2>2, <2>3
<1>16. CASE read_flag /\ ~slow_stream_out /\ buffer_valid /\ pointer > 0
            /\ sample = 2 * pointer - 1
  <2>0. read_flag = TRUE /\ slow_stream_out = FALSE /\ buffer_valid = TRUE
    BY <1>12, <1>16
  <2>1. read_flag' /\ slow_stream_out' /\ buffer_valid' /\ pointer' = pointer
    BY <1>8, <2>0
  <2>2. sample' = 2 * pointer'
    BY <1>4, <1>8, <1>16, <2>0, <2>1
  <2>3. mem_out' = TheWord(pointer)'
    BY <1>9, <1>13, <2>1 DEF TheWord, At, Flash
  <2> QED BY <1>3, <1>7, <1>10, <1>11, <2>1, <2>2, <2>3 DEF Streaming, Stream
<1>17. CASE ~read_flag /\ ~slow_stream_out /\ buffer_valid /\ pointer = 0
  <2>0. read_flag = FALSE /\ slow_stream_out = FALSE
    BY <1>12, <1>17
  <2>1. ~read_flag' /\ ~slow_stream_out' /\ ~buffer_valid' /\ pointer' = 0
    BY <1>8, <1>17, <2>0
  <2> QED BY <1>3, <2>1 DEF Streaming, Still
<1> QED BY <1>14, <1>15, <1>16, <1>17 DEF Stream

(* Every edge of the input buffer.                                             *)
LEMMA StreamingStep ==
  ASSUME IInv, Next, Stored'
  PROVE  Streaming'
<1>1. CASE Filling
  BY <1>1, FillingStep
<1>2. CASE ~Filling /\ Stream
  BY <1>2, StreamStep
<1>3. CASE ~Filling /\ Still /\ pointer = 0
  <2>1. BufferEdge /\ ~wr_en
    BY <1>3, WritesWhileFilling DEF Next
  <2>0. read_flag = FALSE /\ slow_stream_out = FALSE
    BY <1>3 DEF Still, IInv, BufferTypes
  <2>2. ~read_flag' /\ ~slow_stream_out' /\ ~buffer_valid' /\ pointer' = 0
        /\ (spi_enable => sample' = 0)
    BY <1>3, <2>0, <2>1 DEF BufferEdge, NextPointer, NextReadFlag
  <2>3. Filling' => spi_enable /\ Assembled' = 0
    BY <1>3, FillingGoesOn
  <2>4. 0 \div 2 = 0
    OBVIOUS
  <2> QED BY <2>2, <2>3, <2>4 DEF Streaming, Still
<1> QED BY <1>1, <1>2, <1>3 DEF IInv, Streaming

-----------------------------------------------------------------------------
(* The invariant holds initially and every step keeps it.                      *)
THEOREM Inductive == Spec => []IInv
<1>1. IInv /\ Next => IInv'
  BY HostStep, HandshakeStep, MasterStep, WordTypesStep, AssemblyStep, StoredStep,
     BufferTypesStep, StreamingStep DEF IInv
<1>2. IInv /\ UNCHANGED vars => IInv'
  <2> SUFFICES ASSUME IInv, UNCHANGED vars PROVE IInv'
    OBVIOUS
  <2>1. UNCHANGED <<stage, regs, status, master, words, inbuf>>
    BY DEF vars
  <2>2. UNCHANGED <<stage, mm_spi_adr, mm_mem_address, mm_read_size, mm_external_wren,
                    mm_spi_start, mm_spi_start_d, mm_spi_valid, valid_rst_cond, spi_rd_ack>>
    BY <2>1 DEF regs, status
  <2>3. UNCHANGED <<state, counter_clk, counter_send, words_to_read_reg, flash_adr, valid,
                    rd_data, end_transaction>>
    BY <2>1 DEF master
  <2>4. UNCHANGED <<spi_byte_valid_d, address_mems, data_in_intmems, INT_MEM>>
    BY <2>1 DEF words
  <2>5. UNCHANGED <<buffer, pointer, read_flag, slow_stream_out, buffer_valid, mem_out, sample>>
    BY <2>1 DEF inbuf
  <2>6. (Fits' <=> Fits) /\ (Active' <=> Active) /\ (Sending' <=> Sending) /\ Bytes' = Bytes
        /\ (InFlight' <=> InFlight) /\ \A i : At(i)' = At(i) /\ TheWord(i)' = TheWord(i)
    BY <2>2, <2>3, <2>4 DEF Fits, Active, Sending, Bytes, InFlight, At, TheWord, Flash
  <2>7. Fetched' = Fetched /\ Assembled' = Assembled
    BY <2>3, <2>6 DEF Fetched, Assembled
  <2>8. HostTypes' /\ MasterTypes' /\ WordTypes' /\ BufferTypes'
    BY <2>2, <2>3, <2>4, <2>5 DEF IInv, HostTypes, MasterTypes, WordTypes, BufferTypes
  <2>9. Requested' /\ Handshake' /\ Counting'
    BY <2>2, <2>3, <2>4, <2>6 DEF IInv, Requested, Handshake, Counting
  <2>10. Assembly' /\ Stored'
    BY <2>2, <2>3, <2>4, <2>5, <2>6, <2>7 DEF IInv, Assembly, Stored
  <2>11. Streaming'
    <3>1. (Filling' <=> Filling) /\ (Still' <=> Still) /\ (Stream' <=> Stream)
      BY <2>2, <2>5, <2>6, <2>7 DEF Filling, Still, Stream
    <3> QED BY <2>5, <2>7, <3>1 DEF IInv, Streaming
  <2> QED BY <2>8, <2>9, <2>10, <2>11 DEF IInv
<1> QED BY InitInv, <1>1, <1>2, PTL DEF Spec

(* A transfer that is reported as ended has put every word in its place.       *)
THEOREM LoadingReported == Spec => []LoadedWhenReported
<1>1. IInv => LoadedWhenReported
  <2> SUFFICES ASSUME IInv, mm_spi_valid, mm_mem_address \in 0 .. 1, stage = "poll",
                      NEW i \in 0 .. Length - 1
               PROVE  INT_MEM[mm_mem_address][i] = Word((mm_spi_adr + 2 * i) % FlashBytes)
    BY DEF LoadedWhenReported
  <2>1. Active
    BY DEF IInv, Handshake, Active
  <2>2. Assembled = Bytes /\ mm_read_size = 8 * Bytes /\ Bytes \in Nat /\ Bytes % 2 = 0
    BY <2>1, Counts, UnderwayFits
  <2>3. i \in Nat /\ 2 * i + 1 < Assembled
    BY <2>2 DEF Length
  <2>4. INT_MEM[mm_mem_address][i] = TheWord(i)
    BY <2>1, <2>3 DEF IInv, Stored
  <2>5. PICK a \in Nat : a = mm_spi_adr + 2 * i
    BY <2>3 DEF IInv, HostTypes
  <2>6. ((a % FlashBytes) + 1) % FlashBytes = (a + 1) % FlashBytes
    BY Constants, ModSuccessor
  <2>7. mm_spi_adr + (2 * i + 1) = a + 1
    BY <2>3, <2>5 DEF IInv, HostTypes
  <2> QED BY <2>4, <2>5, <2>6, <2>7 DEF TheWord, At, Word
<1> QED BY Inductive, <1>1, PTL

(* The encoder gets the samples of the frame in their order.                   *)
THEOREM SamplesOrdered == Spec => []SamplesInOrder
<1>1. IInv => SamplesInOrder
  <2> SUFFICES ASSUME IInv, buffer_valid
               PROVE  data_out = Flash((mm_spi_adr + sample) % FlashBytes)
    BY DEF SamplesInOrder
  <2>1. Stream
    BY DEF IInv, Streaming, Still
  <2>2. CHANNELS_INT \in Nat /\ pointer \in Nat
    BY PointerAdvances
  <2>3. CASE slow_stream_out
    BY <2>1, <2>2, <2>3 DEF Stream, data_out, TheWord, At
  <2>4. CASE ~slow_stream_out /\ read_flag
    <3>1. sample = 2 * (pointer - 1) + 1 /\ mem_out = TheWord(pointer - 1)
      BY <2>1, <2>2, <2>4 DEF Stream
    <3> QED BY <2>4, <3>1 DEF data_out, TheWord, At
  <2>5. CASE ~slow_stream_out /\ ~read_flag
    <3>1. sample = 2 * (CHANNELS_INT - 1) + 1 /\ mem_out = TheWord(CHANNELS_INT - 1)
      BY <2>1, <2>2, <2>5 DEF Stream
    <3> QED BY <2>5, <3>1 DEF data_out, TheWord, At
  <2> QED BY <2>3, <2>4, <2>5
<1> QED BY Inductive, <1>1, PTL

(* Memories are written by the transfer in progress only, within its length.   *)
THEOREM WritesIntended == Spec => NoStrayWrite
<1>1. IInv /\ [Next]_vars => [INT_MEM' # INT_MEM => /\ stage = "poll" /\ ~mm_spi_valid
                                                    /\ wr_addr < Length]_vars
  <2> SUFFICES ASSUME IInv, Next, INT_MEM' # INT_MEM
               PROVE  stage = "poll" /\ ~mm_spi_valid /\ wr_addr < Length
    BY DEF vars, words
  <2>1. WordEdge /\ INT_MEM \in [0 .. 1 -> [0 .. Depth - 1 -> Pair]]
    BY DEF Next, IInv, WordTypes
  <2>2. ASSUME ~wen PROVE INT_MEM' = INT_MEM
    BY <2>1, <2>2 DEF WordEdge, Writes
  <2>3. wen /\ spi_byte_valid_d
    BY <2>2 DEF wen
  <2>4. Active
    BY <2>3, UnderwayFits DEF IInv, Counting, InFlight, Active
  <2>5. /\ Assembled \in Nat /\ Assembled < Bytes /\ ~mm_spi_valid
        /\ 2 * wr_addr + 1 = Assembled /\ wr_addr \in Nat
        /\ mm_read_size = 8 * Bytes /\ Bytes \in Nat /\ Bytes % 2 = 0
    BY <2>3, <2>4, AddressCounts, Counts, UnderwayFits DEF Active, InFlight
  <2> QED BY <2>4, <2>5 DEF Active, Length
<1> QED BY Inductive, <1>1, PTL DEF Spec, NoStrayWrite
=============================================================================
