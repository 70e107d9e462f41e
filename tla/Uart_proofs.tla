----------------------------- MODULE Uart_proofs -----------------------------
(* Proofs about the serial link, for every baud rate, every length of a word,  *)
(* all answers and every spacing of the accesses.                              *)
EXTENDS UartProps, Integers, TLAPS

-----------------------------------------------------------------------------
(* The queue of the transmitter.                                               *)

(* The transmitter rests only when its queue is empty (the count has reached   *)
(* the end of a word or has been cleared), and it is ready whenever it rests,  *)
(* but for the first edge after reset, when nothing can have been queued.      *)
RestsWhenEmpty ==
    /\ cnt \in 0 .. N
    /\ txState \in {"Idle", "StartBit", "DataBit", "StopBit"}
    /\ cReady \in BOOLEAN /\ uart_wren \in BOOLEAN
    /\ txState = "Idle" => cnt \in {0, N}
    /\ txState = "Idle" /\ ~cReady => cnt = 0 /\ ~uart_wren

(* An edge of the transmitter, by what it does to its state.                   *)
LEMMA Transmits ==
  ASSUME RestsWhenEmpty, TxEdge, QueueEdge, Registers
  PROVE  RestsWhenEmpty'
<1>1. N \in Nat \ {0}
  BY UartAssumption
<1>2. /\ cnt \in 0 .. N /\ cReady \in BOOLEAN /\ uart_wren \in BOOLEAN
      /\ txState = "Idle" => cnt \in {0, N}
      /\ txState = "Idle" /\ ~cReady => cnt = 0 /\ ~uart_wren
  BY DEF RestsWhenEmpty
<1>3. cnt' = NextCnt /\ cnt' \in 0 .. N
  BY <1>1, <1>2 DEF QueueEdge, NextCnt
<1>4. uart_wren' \in BOOLEAN
  BY DEF Registers
<1>5. CASE TxIdle
  <2>1. CASE uart_tx_go
    BY <1>2, <1>3, <1>4, <1>5, <2>1 DEF TxIdle, RestsWhenEmpty
  <2>2. CASE ~uart_tx_go
    <3>1. txState = "Idle" /\ txState' = "Idle" /\ cReady' = TRUE
      BY <1>5, <2>2 DEF TxIdle
    <3>2. cnt \in {0, N} /\ (cReady => cnt = 0 /\ ~uart_wren)
      BY <1>2, <2>2, <3>1 DEF uart_tx_go
    <3>3. cnt' = 0
      BY <1>1, <1>2, <1>3, <3>1, <3>2 DEF NextCnt
    <3> QED BY <1>1, <1>4, <3>1, <3>3 DEF RestsWhenEmpty
  <2> QED BY <2>1, <2>2
<1>6. CASE TxStartBit
  BY <1>2, <1>3, <1>4, <1>6 DEF TxStartBit, RestsWhenEmpty
<1>7. CASE TxDataBit
  <2>1. txState' \in {"DataBit", "StopBit"} /\ cReady' \in BOOLEAN
    BY <1>2, <1>7 DEF TxDataBit, ReadyAfter
  <2> QED BY <1>3, <1>4, <2>1 DEF RestsWhenEmpty
<1>8. CASE TxStopBit
  <2>1. /\ cReady' = (cReady /\ ~uart_tx_go) /\ cReady' \in BOOLEAN
        /\ txState' \in {"StopBit", "Idle", "StartBit"}
        /\ txState' = "Idle" => cReady'
    BY <1>2, <1>8 DEF TxStopBit
  <2>2. cReady' => cnt = 0 /\ ~uart_wren
    BY <1>2, <2>1 DEF uart_tx_go
  <2>3. cReady' => cnt' = 0
    BY <1>1, <1>3, <2>2 DEF NextCnt
  <2> QED BY <1>1, <1>3, <1>4, <2>1, <2>3 DEF RestsWhenEmpty
<1> QED BY <1>5, <1>6, <1>7, <1>8 DEF TxEdge

(* The transmitter never rests between two bytes of a word, whatever moments   *)
(* the firmware queues a word at.                                              *)
THEOREM NeverDelayed == Spec => []BytesWithoutDelay
<1>1. Init => RestsWhenEmpty
  <2> SUFFICES ASSUME Init PROVE RestsWhenEmpty
    OBVIOUS
  <2>1. N \in Nat \ {0}
    BY UartAssumption
  <2>2. cnt = 0 /\ txState = "Idle" /\ cReady = FALSE /\ uart_wren = FALSE
    BY DEF Init
  <2>3. cnt \in 0 .. N /\ cnt \in {0, N}
    BY <2>1, <2>2
  <2> QED BY <2>2, <2>3 DEF RestsWhenEmpty
<1>2. RestsWhenEmpty /\ [Next]_vars => RestsWhenEmpty'
  <2> SUFFICES ASSUME RestsWhenEmpty, [Next]_vars PROVE RestsWhenEmpty'
    OBVIOUS
  <2>1. CASE Next
    BY <2>1, Transmits DEF Next
  <2>2. CASE UNCHANGED vars
    <3>1. cnt' = cnt /\ txState' = txState /\ cReady' = cReady /\ uart_wren' = uart_wren
      BY <2>2 DEF vars, tx, regs
    <3> QED BY <3>1 DEF RestsWhenEmpty
  <2> QED BY <2>1, <2>2
<1>3. RestsWhenEmpty => BytesWithoutDelay
  BY UartAssumption DEF RestsWhenEmpty, BytesWithoutDelay
<1> QED BY <1>1, <1>2, <1>3, PTL DEF Spec

-----------------------------------------------------------------------------
(* Where the transmitter and the receiver are.                                 *)

Bit(i) == i * TICKS                   \* edges before bit i of a byte
Half   == (3 * TICKS) \div 2

\* The bit on the line, from the start bit, 0, to the stop bit, 9; the edges
\* since the byte began; and its number in the word.
Sent    == CASE txState = "StartBit" -> 0
             [] txState = "DataBit"  -> cBitIndex + 1
             [] OTHER                -> 9
Elapsed == Bit(Sent) + cBitTimer
Queued  == IF cnt = 0 THEN N ELSE cnt
Onto    == IF txState = "StopBit" /\ ~cReady THEN Queued - 2 ELSE Queued - 1

\* A byte less its i lowest bits, and the level of the line in bit i.
Shifted(b, i) == CASE i = 0 -> b        [] i = 1 -> b \div 2  [] i = 2 -> b \div 4
                   [] i = 3 -> b \div 8  [] i = 4 -> b \div 16 [] i = 5 -> b \div 32
                   [] i = 6 -> b \div 64 [] OTHER -> b \div 128
Level(b, i) == i \in 0 .. 8 => i > 0 /\ Shifted(b, i - 1) % 2 = 1

\* The level d edges ago, d less than the length of a bit.
Delayed(d) == Level(Byte(answer, Onto), IF cBitTimer >= d THEN Sent ELSE Sent - 1)

\* Bits that the receiver has read, and the highest ones of d are these of b.
Read == IF rxState \in {"WaitToStopBit", "CheckStopBit"} THEN 8 ELSE cBitCounter
Holds(d, b, i) == CASE i = 0 -> TRUE            [] i = 1 -> d \div 128 = b % 2
                    [] i = 2 -> d \div 64 = b % 4 [] i = 3 -> d \div 32 = b % 8
                    [] i = 4 -> d \div 16 = b % 16 [] i = 5 -> d \div 8 = b % 32
                    [] i = 6 -> d \div 4 = b % 64 [] i = 7 -> d \div 2 = b % 128
                    [] OTHER -> d = b

\* Edges since the beginning of the byte it receives.
Waiting == rxState \in {"WaitToDataBit", "WaitToStopBit"}
Heard   == Half + Bit(Read) + (IF Waiting THEN 2 - cTimer ELSE 3)

-----------------------------------------------------------------------------
(* The invariant of the link.                                                  *)

HostTypes ==
    /\ pc \in {"UART_DATA", "UART_SEND", "UART_READY", "RESULT"}
    /\ gap \in Nat /\ polls \in {Polls, CorePolls}
    /\ cyc \in BOOLEAN /\ mux_ack \in BOOLEAN /\ ack_int \in BOOLEAN /\ uart_wren \in BOOLEAN
    /\ answer \in Answers /\ (pc # "RESULT" => result \in Answers)

(* An access takes two edges; the queue starts after the second of one.        *)
Accesses ==
    /\ cyc => adr = pc /\ pc # "RESULT" /\ ack_int = mux_ack
    /\ ~cyc => ~mux_ack
    /\ uart_wren => pc = "UART_READY" /\ ~cyc

TxTypes ==
    /\ txState \in {"Idle", "StartBit", "DataBit", "StopBit"}
    /\ cBitTimer \in 0 .. TICKS - 1 /\ (cBitSent <=> cBitTimer = TICKS - 1)
    /\ cBitIndex \in 0 .. 7 /\ (txState # "DataBit" => cBitIndex = 0)
    /\ cReady \in BOOLEAN /\ cnt \in 0 .. N
    /\ oTxd \in BOOLEAN /\ cRxdSyncPipe \in BOOLEAN /\ cRxd \in BOOLEAN

(* The count is one ahead of the byte on the line, two while a byte waits for  *)
(* the end of the stop bit.                                                    *)
InStep ==
    /\ txState = "Idle" => cBitTimer = 0 /\ cnt = 0
    /\ txState \in {"StartBit", "DataBit"} => ~cReady
    /\ cnt = N => ~cReady
    /\ txState = "StopBit" =>
          IF cReady THEN cnt = 0 \/ cBitTimer = 0 ELSE Queued # 1 /\ cBitTimer > 0

Buffered ==
    /\ txState = "StartBit" => cBuffer = Byte(answer, Onto)
    /\ txState = "DataBit" => cBuffer = Shifted(Byte(answer, Onto), cBitIndex)
    /\ txState = "StopBit" /\ ~cReady => cBuffer = Byte(answer, Onto + 1)

(* The line, and what of it the receiver has sampled.                          *)
Levels ==
    txState # "Idle" => /\ oTxd <=> Delayed(1)
                        /\ cRxdSyncPipe <=> Delayed(2)
                        /\ cRxd <=> Delayed(3)

RxTypes ==
    /\ rxState \in {"ErrorRecovery", "Idle", "WaitToDataBit", "ReadDataBit",
                    "WaitToStopBit", "CheckStopBit"}
    /\ cTimer \in Nat /\ cTimerIsZero \in BOOLEAN
    /\ cBitCounter \in 0 .. 7 /\ cData \in 0 .. 255 /\ cReceived \in BOOLEAN
    /\ got \in 0 .. N

(* The receiver is at position p of the byte with number n.                    *)
Receiving(p, n) ==
    /\ rxState \notin {"Idle", "ErrorRecovery"}
    /\ p = Heard /\ got = n /\ ~cReceived
    /\ Waiting => (cTimerIsZero <=> cTimer = 0)
    /\ ~Waiting => cTimer = 0
    /\ rxState \in {"WaitToStopBit", "CheckStopBit"} => cBitCounter = 0
    /\ Holds(cData, Byte(answer, n), Read)

Between(n) == rxState = "Idle" /\ cBitCounter = 0 /\ got = n

(* The receiver is in the byte on the line, before it, after it, or, if the    *)
(* bits are short, still at the end of the previous one.                       *)
Following ==
    txState # "Idle" =>
        \/ Receiving(Elapsed, Onto)
        \/ Between(Onto) /\ Elapsed <= 3 /\ (Elapsed = 3 => cTimer = Half - 2)
        \/ Between(Onto + 1) /\ Elapsed >= Half + 4 + Bit(8)
        \/ Receiving(Bit(10) + Elapsed, Onto - 1)

(* When the transmitter rests the line does, and the receiver does so soon.    *)
Quiet == /\ txState = "Idle" /\ cReady /\ oTxd /\ cRxdSyncPipe /\ cRxd
         /\ Between(N)

LastStopBit == /\ txState = "Idle" /\ cReady /\ oTxd /\ cRxdSyncPipe /\ cRxd
               /\ \/ rxState = "WaitToStopBit" /\ cTimer = 0
                  \/ rxState = "CheckStopBit"
               /\ Receiving(Heard, N - 1)

AfterReset == /\ txState = "Idle" /\ oTxd /\ (cRxd => cRxdSyncPipe)
              /\ (cRxdSyncPipe => cReady)
              /\ rxState = "ErrorRecovery" /\ cBitCounter = 0 /\ got = N /\ ~cReceived

Resting == txState = "Idle" => Quiet \/ LastStopBit \/ AfterReset

(* Edges until the link is quiet, at most.                                     *)
Bytes(n) == n * Bit(10)
Left == IF txState # "Idle" THEN Bytes(N - Onto) - Elapsed + 2
        ELSE IF Quiet THEN 0
        ELSE IF rxState = "WaitToStopBit" THEN 2
        ELSE IF rxState = "CheckStopBit" \/ cRxd THEN 1
        ELSE IF cRxdSyncPipe THEN 2 ELSE 3

(* Edges until uart_send returns, at least.                                    *)
Returns == IF ~cyc THEN gap + 3 ELSE IF ~mux_ack THEN 2 ELSE 1

(* The firmware touches the result and the queue only while the link is quiet. *)
Spaced ==
    /\ pc \in {"UART_DATA", "UART_SEND"} \/ uart_wren => Quiet
    /\ pc = "RESULT" => Left <= gap
    /\ pc = "UART_READY" /\ ~uart_wren => Left <= Bytes(N) + Returns
    /\ txState # "Idle" => result = answer

\* The edges, counted from the beginning of a word, at which the core can sample
\* READY: after UART_SEND, and then again and again, an access taking three.
Sampling(S) == /\ CorePolls["UART_SEND"] \subseteq S
               /\ \A m \in S, p \in CorePolls["UART_READY"] : m + p + 3 \in S
Moments == {m \in Nat : \A S \in SUBSET Nat : Sampling(S) => m \in S}

\* Those at which READY is up although the word is not out when uart_send returns:
\* the first edge of every stop bit but the last, and the last one but two edges.
ReadyTooSoon == {Bytes(k) + Bit(9) : k \in 0 .. N - 2}
                    \cup (Bytes(N - 1) + Bit(9) .. Bytes(N) - 3)

(* The core samples READY between those moments.                               *)
PollsMissReady == Moments \cap ReadyTooSoon = {}

\* The edge of the word on the line, and edges until READY is sampled, or since.
Position == Bytes(Onto) + Elapsed
ToSample == IF ~cyc THEN gap + 1 ELSE IF ~mux_ack THEN 0 ELSE 0 - 1

(* A core whose polls miss those moments sees READY only at the end of the     *)
(* word.                                                                       *)
OnTime ==
    PollsMissReady /\ polls = CorePolls =>
        /\ pc = "RESULT" => txState = "Idle"
        /\ uart_wren => gap \in Moments
        /\ pc = "UART_READY" /\ txState # "Idle" =>
              /\ Position + ToSample \in Moments
              /\ cyc /\ mux_ack /\ o_cpu_rdt => Bytes(N) <= Position + 1

IInv == /\ HostTypes /\ Accesses /\ TxTypes /\ InStep /\ Buffered /\ Levels
        /\ RxTypes /\ Following /\ Resting /\ Spaced /\ OnTime

(* The next result comes no earlier than a queue's length after uart_send,     *)
(* which any CPU can rely on, or no earlier than three edges after it, which   *)
(* is enough for the core.                                                     *)
WaitsLongEnough == \A w \in Waits : w >= Bytes(N)
CoreWaits       == Polls = CorePolls /\ PollsMissReady /\ \A w \in Waits : w >= 3

-----------------------------------------------------------------------------
(* Arithmetic.                                                                 *)

(* The constants, and the delay before the first sample, as integers.          *)
LEMMA Constants ==
  /\ TICKS \in Nat /\ TICKS >= 4 /\ N \in Nat \ {0}
  /\ Half \in Nat /\ Half >= TICKS + 2 /\ 2 * Half <= 3 * TICKS /\ 2 * Half >= 3 * TICKS - 1
<1>1. TICKS \in Nat /\ TICKS >= 4 /\ N \in Nat \ {0}
  BY UartAssumption
<1> QED BY <1>1 DEF Half

(* The beginnings of the bits are a bit apart.                                 *)
LEMMA Bits ==
  /\ Bit(0) = 0
  /\ \A i \in Nat : Bit(i) \in Nat /\ Bit(i + 1) = Bit(i) + TICKS
<1>1. PICK k \in Nat : k = TICKS
  BY Constants
<1>2. 0 * k = 0 /\ \A i \in Nat : i * k \in Nat /\ (i + 1) * k = i * k + k
  BY <1>1, SMT
<1> QED BY <1>1, <1>2 DEF Bit

(* A bit ends before a later one begins.                                       *)
LEMMA BitsInOrder ==
  \A i, j \in Nat : i < j => Bit(i) + TICKS <= Bit(j)
<1> SUFFICES ASSUME NEW i \in Nat, NEW j \in Nat, i < j PROVE Bit(i) + TICKS <= Bit(j)
  OBVIOUS
<1>1. PICK k \in Nat : k = TICKS
  BY Constants
<1>2. PICK d \in Nat : j = i + 1 + d
  <2>1. j - i - 1 \in Nat /\ j = i + 1 + (j - i - 1)
    OBVIOUS
  <2> QED BY <2>1
<1>3. (i + 1 + d) * k = i * k + k + d * k /\ d * k \in Nat /\ i * k \in Nat
  BY SMT
<1>4. i * k + k <= j * k
  BY <1>2, <1>3
<1> QED BY <1>1, <1>4 DEF Bit

(* So with bytes.                                                              *)
LEMMA ManyBytes ==
  /\ Bytes(0) = 0
  /\ \A n \in Nat : Bytes(n) \in Nat /\ Bytes(n + 1) = Bytes(n) + Bit(10)
<1>1. PICK k \in Nat : k = Bit(10)
  BY Bits
<1>2. 0 * k = 0 /\ \A n \in Nat : n * k \in Nat /\ (n + 1) * k = n * k + k
  BY SMT
<1> QED BY <1>1, <1>2 DEF Bytes

(* More bytes take no less time.                                               *)
LEMMA BytesInOrder ==
  \A m, n \in Nat : m <= n => Bytes(m) <= Bytes(n)
<1> SUFFICES ASSUME NEW m \in Nat, NEW n \in Nat, m <= n PROVE Bytes(m) <= Bytes(n)
  OBVIOUS
<1>1. PICK k \in Nat : k = Bit(10)
  BY Bits
<1>2. PICK d \in Nat : n = m + d
  <2>1. n - m \in Nat /\ n = m + (n - m)
    OBVIOUS
  <2> QED BY <2>1
<1>3. (m + d) * k = m * k + d * k /\ d * k \in Nat /\ m * k \in Nat
  BY SMT
<1>4. m * k <= n * k
  BY <1>2, <1>3
<1> QED BY <1>1, <1>4 DEF Bytes

(* Every byte of an answer is one.                                             *)
LEMMA ByteRange ==
  ASSUME NEW w \in Answers, NEW k \in Nat
  PROVE  Byte(w, k) \in 0 .. 255
<1>1. w \in 0 .. 8191
  BY UartAssumption
<1>2. PICK d \in Nat : d > 8191 /\ d = 16777216
  BY SMT
<1>3. w % 256 \in 0 .. 255 /\ (w \div 256) % 256 \in 0 .. 255
  BY <1>1, SMT
<1>4. (w \div 65536) % 256 \in 0 .. 255
  BY <1>1, SMT
<1>5. w \div d \in 0 .. 255
  <2>1. \A e \in Nat : e > 8191 => w \div e = 0
    BY <1>1, SMT
  <2>2. d \in Nat /\ d > 8191
    BY <1>2, SMT
  <2>3. w \div d = 0
    BY <2>1, <2>2
  <2> QED BY <2>3, SMT
<1>6. CASE k = 0
  BY <1>3, <1>6, SMT DEF Byte
<1>7. CASE k = 1
  BY <1>3, <1>7, SMT DEF Byte
<1>8. CASE k = 2
  BY <1>4, <1>8, SMT DEF Byte
<1>9. CASE k \notin {0, 1, 2}
  BY <1>2, <1>5, <1>9, SMT DEF Byte
<1> QED BY <1>6, <1>7, <1>8, <1>9, SMT

(* The transmitter shifts its byte out bit by bit, the receiver shifts it in.  *)
LEMMA ShiftOut ==
  ASSUME NEW b \in 0 .. 255, NEW i \in 0 .. 6
  PROVE  Shifted(b, i) \div 2 = Shifted(b, i + 1)
<1>1. CASE i = 0
  BY <1>1, SMT DEF Shifted
<1>2. CASE i = 1
  BY <1>2, SMT DEF Shifted
<1>3. CASE i = 2
  BY <1>3, SMT DEF Shifted
<1>4. CASE i = 3
  BY <1>4, SMT DEF Shifted
<1>5. CASE i = 4
  BY <1>5, SMT DEF Shifted
<1>6. CASE i = 5
  BY <1>6, SMT DEF Shifted
<1>7. CASE i = 6
  BY <1>7, SMT DEF Shifted
<1> QED BY <1>1, <1>2, <1>3, <1>4, <1>5, <1>6, <1>7

(* A sampled level becomes the highest bit, and what was sampled before        *)
(* moves down.                                                                 *)
LEMMA ShiftIn ==
  ASSUME NEW b \in 0 .. 255, NEW d \in 0 .. 255, NEW i \in 0 .. 7, Holds(d, b, i),
         NEW e, e = (IF Shifted(b, i) % 2 = 1 THEN 128 ELSE 0) + d \div 2
  PROVE  e \in 0 .. 255 /\ Holds(e, b, i + 1)
<1>0. e \in 0 .. 255
  <2>1. d \div 2 \in 0 .. 127
    BY SMT
  <2> QED BY <2>1
<1>1. CASE i = 0
  BY <1>0, <1>1, SMT DEF Shifted, Holds
<1>2. CASE i = 1
  BY <1>0, <1>2, SMT DEF Shifted, Holds
<1>3. CASE i = 2
  BY <1>0, <1>3, SMT DEF Shifted, Holds
<1>4. CASE i = 3
  BY <1>0, <1>4, SMT DEF Shifted, Holds
<1>5. CASE i = 4
  BY <1>0, <1>5, SMT DEF Shifted, Holds
<1>6. CASE i = 5
  BY <1>0, <1>6, SMT DEF Shifted, Holds
<1>7. CASE i = 6
  BY <1>0, <1>7, SMT DEF Shifted, Holds
<1>8. CASE i = 7
  BY <1>0, <1>8, SMT DEF Shifted, Holds
<1> QED BY <1>1, <1>2, <1>3, <1>4, <1>5, <1>6, <1>7, <1>8

(* When the receiver samples, the level it sees is that of the bit it wants.   *)
LEMMA InTheMiddle ==
  ASSUME NEW i \in 0 .. 8, NEW s \in 0 .. 9, NEW t \in 0 .. TICKS - 1,
         Bit(s) + t = Half + 3 + Bit(i)
  PROVE  (IF t >= 3 THEN s ELSE s - 1) = i + 1
<1>1. Bit(i + 1) = Bit(i) + TICKS /\ Bit(i + 2) = Bit(i + 1) + TICKS
  <2>1. i \in Nat /\ i + 1 \in Nat /\ i + 2 = (i + 1) + 1
    OBVIOUS
  <2> QED BY <2>1, Bits
<1>2. /\ Bit(i) \in Nat /\ Bit(i + 1) \in Nat /\ Bit(i + 2) \in Nat
      /\ Bit(s) \in Nat
  BY Bits
<1>3. /\ s <= i => Bit(s) <= Bit(i)
      /\ s < i + 1 => Bit(s) + TICKS <= Bit(i + 1)
      /\ s > i + 2 => Bit(i + 2) + TICKS <= Bit(s)
      /\ s > i + 1 => Bit(i + 1) + TICKS <= Bit(s)
  BY <1>2, BitsInOrder, Constants
<1>4. CASE t >= 3
  <2>1. Bit(s) <= Half + Bit(i) /\ Half + Bit(i) < Bit(s) + TICKS
    BY <1>2, <1>4, Constants
  <2>2. ~(s < i + 1)
    BY <1>1, <1>2, <1>3, <2>1, Constants
  <2>3. ~(s > i + 1)
    BY <1>1, <1>2, <1>3, <2>1, Constants
  <2> QED BY <1>4, <2>2, <2>3
<1>5. CASE t < 3
  <2>1. Bit(s) <= Half + 3 + Bit(i) /\ Half + Bit(i) < Bit(s)
    BY <1>2, <1>5, Constants
  <2>2. ~(s > i + 2)
    BY <1>1, <1>2, <1>3, <2>1, Constants
  <2>3. ~(s < i + 1)
    BY <1>1, <1>2, <1>3, <2>1, Constants
  <2>4. s # i + 1
    BY <1>1, <1>2, <1>3, <2>1, Constants
  <2> QED BY <1>5, <2>2, <2>3, <2>4
<1> QED BY <1>4, <1>5

-----------------------------------------------------------------------------
(* The transmitter.                                                            *)

TxInv == TxTypes /\ InStep /\ Buffered /\ Levels

(* What an edge does to the byte on the line.                                  *)
SameByte == /\ txState' # "Idle" /\ Onto' = Onto
            /\ Elapsed' = Elapsed + 1 /\ Elapsed + 1 < Bit(10)
NextByte == /\ txState' # "Idle" /\ Onto' = Onto + 1 /\ Onto + 1 < N
            /\ Elapsed' = 0 /\ Elapsed + 1 = Bit(10)
LastByte == /\ txState' = "Idle" /\ Onto = N - 1 /\ Elapsed + 1 = Bit(10)
            /\ cReady' /\ oTxd' /\ cRxdSyncPipe' /\ cRxd'

(* The position on the line is within a byte, the byte within the word.        *)
LEMMA Positions ==
  ASSUME TxTypes, InStep, txState # "Idle"
  PROVE  /\ Sent \in 0 .. 9 /\ cBitTimer \in 0 .. TICKS - 1 /\ Queued \in 1 .. N
         /\ Onto \in 0 .. N - 1 /\ Elapsed \in Nat /\ Elapsed < Bit(10)
         /\ Bit(Sent) \in Nat /\ Bit(Sent + 1) = Bit(Sent) + TICKS
         /\ Elapsed = Bit(Sent) + cBitTimer
<1>1. Sent \in 0 .. 9 /\ cBitTimer \in 0 .. TICKS - 1
  BY DEF TxTypes, Sent
<1>2. Queued \in 1 .. N
  BY Constants DEF TxTypes, Queued
<1>3. Onto \in 0 .. N - 1
  BY <1>2, Constants DEF TxTypes, InStep, Onto
<1>4. Bit(Sent) \in Nat /\ Bit(Sent + 1) = Bit(Sent) + TICKS
  BY <1>1, Bits
<1>5. Bit(Sent) + TICKS <= Bit(10)
  BY <1>1, BitsInOrder
<1>6. Elapsed = Bit(Sent) + cBitTimer
  BY DEF Elapsed
<1>7. Elapsed \in Nat /\ Elapsed < Bit(10)
  <2>1. Bit(10) \in Nat /\ TICKS \in Nat
    BY Bits, Constants
  <2> QED BY <1>1, <1>4, <1>5, <1>6, <2>1
<1> QED BY <1>1, <1>2, <1>3, <1>4, <1>6, <1>7

(* A number less than the modulus is its own remainder.                        *)
LEMMA Small ==
  ASSUME NEW m \in Nat \ {0}, NEW w \in 0 .. m - 1
  PROVE  w % m = w
BY SMT

(* The timer counts the edges of a bit; the pulse comes at the last of         *)
(* them.                                                                       *)
LEMMA Timer ==
  ASSUME TxTypes, BitTimer, txState # "Idle"
  PROVE  /\ cBitTimer' \in 0 .. TICKS - 1 /\ (cBitSent' <=> cBitTimer' = TICKS - 1)
         /\ cBitSent  => cBitTimer = TICKS - 1 /\ cBitTimer' = 0
         /\ ~cBitSent => cBitTimer < TICKS - 1 /\ cBitTimer' = cBitTimer + 1
<1>1. TICKS \in Nat /\ TICKS >= 4 /\ cBitTimer \in 0 .. TICKS - 1
      /\ (cBitSent <=> cBitTimer = TICKS - 1)
  BY Constants DEF TxTypes
<1>2. CASE cBitSent
  <2>1. cBitTimer' = 0 /\ cBitTimer = TICKS - 1
    BY <1>1, <1>2 DEF BitTimer
  <2>2. ~(cBitTimer = TICKS - 2) /\ ~(0 = TICKS - 1) /\ 0 \in 0 .. TICKS - 1
    BY <1>1, <2>1
  <2>3. ~cBitSent'
    BY <2>2 DEF BitTimer
  <2> QED BY <1>2, <2>1, <2>2, <2>3
<1>3. CASE ~cBitSent
  <2>1. cBitTimer + 1 \in 0 .. TICKS - 1 /\ TICKS \in Nat \ {0}
    BY <1>1, <1>3
  <2>2. (cBitTimer + 1) % TICKS = cBitTimer + 1
    BY <2>1, Small
  <2>3. cBitTimer' = cBitTimer + 1
    BY <1>3, <2>2 DEF BitTimer
  <2>4. cBitSent' <=> cBitTimer = TICKS - 2
    BY DEF BitTimer
  <2>5. cBitTimer < TICKS - 1 /\ (cBitTimer = TICKS - 2 <=> cBitTimer + 1 = TICKS - 1)
    BY <1>1, <1>3
  <2> QED BY <1>3, <2>1, <2>3, <2>4, <2>5
<1> QED BY <1>2, <1>3

(* The line gets the level of the bit that is being sent.                      *)
LEMMA LevelSent ==
  ASSUME TxInv, TxEdge, txState # "Idle"
  PROVE  oTxd' \in BOOLEAN /\ (oTxd' <=> Level(Byte(answer, Onto), Sent))
<1>1. oTxd' = (\/ txState \in {"Idle", "StopBit"}
               \/ txState = "DataBit" /\ cBuffer % 2 = 1)
  BY DEF TxEdge
<1>2. CASE txState = "StartBit"
  BY <1>1, <1>2 DEF Sent, Level
<1>3. CASE txState = "DataBit"
  <2>1. cBitIndex \in 0 .. 7 /\ cBuffer = Shifted(Byte(answer, Onto), cBitIndex)
    BY <1>3 DEF TxInv, TxTypes, Buffered
  <2>2. Sent = cBitIndex + 1 /\ Sent \in 0 .. 8 /\ Sent > 0 /\ Sent - 1 = cBitIndex
    BY <1>3, <2>1 DEF Sent
  <2> QED BY <1>1, <1>3, <2>1, <2>2 DEF Level
<1>4. CASE txState = "StopBit"
  BY <1>1, <1>4 DEF Sent, Level
<1> QED BY <1>2, <1>3, <1>4 DEF TxInv, TxTypes

(* The levels on their way to the receiver remain those of the last edges,     *)
(* across the border of two bits or two bytes.                                 *)
LEMMA LevelsStep ==
  ASSUME TxInv, TxEdge, txState # "Idle", txState' # "Idle", answer' = answer,
         cRxdSyncPipe' = oTxd, cRxd' = cRxdSyncPipe,
         cBitTimer' \in 0 .. TICKS - 1,
         \/ cBitTimer' = cBitTimer + 1 /\ Sent' = Sent /\ Onto' = Onto
         \/ cBitTimer = TICKS - 1 /\ cBitTimer' = 0 /\ Sent' = Sent + 1 /\ Onto' = Onto
         \/ cBitTimer = TICKS - 1 /\ cBitTimer' = 0 /\ Sent = 9 /\ Sent' = 0
  PROVE  Levels'
<1>1. cBitTimer \in 0 .. TICKS - 1 /\ Sent \in 0 .. 9 /\ TICKS \in Nat /\ TICKS >= 4
  BY Positions, Constants DEF TxInv
<1>2. /\ oTxd <=> Level(Byte(answer, Onto), IF cBitTimer >= 1 THEN Sent ELSE Sent - 1)
      /\ cRxdSyncPipe <=> Level(Byte(answer, Onto), IF cBitTimer >= 2 THEN Sent ELSE Sent - 1)
      /\ oTxd' <=> Level(Byte(answer, Onto), Sent)
  BY LevelSent DEF TxInv, Levels, Delayed
<1>3. \A b : Level(b, 9) /\ Level(b, 0 - 1)
  BY DEF Level
<1>4. SUFFICES
        /\ oTxd' <=> Level(Byte(answer, Onto'), IF cBitTimer' >= 1 THEN Sent' ELSE Sent' - 1)
        /\ oTxd <=> Level(Byte(answer, Onto'), IF cBitTimer' >= 2 THEN Sent' ELSE Sent' - 1)
        /\ cRxdSyncPipe <=> Level(Byte(answer, Onto'), IF cBitTimer' >= 3 THEN Sent' ELSE Sent' - 1)
  BY DEF Levels, Delayed
<1>5. CASE cBitTimer' = cBitTimer + 1 /\ Sent' = Sent /\ Onto' = Onto
  <2>1. /\ cBitTimer' >= 1
        /\ cBitTimer' >= 2 <=> cBitTimer >= 1
        /\ cBitTimer' >= 3 <=> cBitTimer >= 2
    BY <1>1, <1>5
  <2> QED BY <1>2, <1>5, <2>1
<1>6. CASE cBitTimer = TICKS - 1 /\ cBitTimer' = 0 /\ Sent' = Sent + 1 /\ Onto' = Onto
  <2>1. /\ ~(cBitTimer' >= 1) /\ ~(cBitTimer' >= 2) /\ ~(cBitTimer' >= 3)
        /\ cBitTimer >= 1 /\ cBitTimer >= 2 /\ Sent' - 1 = Sent
    BY <1>1, <1>6
  <2> QED BY <1>2, <1>6, <2>1
<1>7. CASE cBitTimer = TICKS - 1 /\ cBitTimer' = 0 /\ Sent = 9 /\ Sent' = 0
  <2>1. /\ ~(cBitTimer' >= 1) /\ ~(cBitTimer' >= 2) /\ ~(cBitTimer' >= 3)
        /\ cBitTimer >= 1 /\ cBitTimer >= 2 /\ Sent' - 1 = 0 - 1
    BY <1>1, <1>7
  <2> QED BY <1>2, <1>3, <1>7, <2>1
<1> QED BY <1>5, <1>6, <1>7

(* An edge while a byte is on the line.                                        *)
LEMMA SendingEdge ==
  ASSUME TxInv, TxEdge, QueueEdge, txState # "Idle", ~uart_wren, result = answer,
         answer \in Answers, answer' = answer, cRxdSyncPipe' = oTxd, cRxd' = cRxdSyncPipe
  PROVE  TxInv' /\ (SameByte \/ NextByte \/ LastByte)
<1>0. TxTypes /\ InStep /\ Buffered
  BY DEF TxInv
<1>1. /\ cBitTimer' \in 0 .. TICKS - 1 /\ (cBitSent' <=> cBitTimer' = TICKS - 1)
      /\ cBitSent  => cBitTimer = TICKS - 1 /\ cBitTimer' = 0
      /\ ~cBitSent => cBitTimer < TICKS - 1 /\ cBitTimer' = cBitTimer + 1
  BY <1>0, Timer DEF TxEdge
<1>2. /\ Sent \in 0 .. 9 /\ cBitTimer \in 0 .. TICKS - 1 /\ Queued \in 1 .. N
      /\ Onto \in 0 .. N - 1 /\ Elapsed \in Nat /\ Elapsed < Bit(10)
      /\ Bit(Sent) \in Nat /\ Bit(Sent + 1) = Bit(Sent) + TICKS
      /\ Elapsed = Bit(Sent) + cBitTimer
  BY <1>0, Positions
<1>3. TICKS \in Nat /\ TICKS >= 4 /\ N \in Nat \ {0} /\ Bit(0) = 0
  BY Constants, Bits
<1>4. /\ oTxd' \in BOOLEAN /\ (oTxd' <=> Level(Byte(answer, Onto), Sent))
      /\ cRxdSyncPipe' \in BOOLEAN /\ cRxd' \in BOOLEAN
  BY <1>0, LevelSent DEF TxTypes
\* The states of the transmitter.
<1>5. CASE txState = "StartBit"
  <2>1. /\ txState' = IF cBitSent THEN "DataBit" ELSE "StartBit"
        /\ cBuffer' = cBuffer /\ cBitIndex' = cBitIndex /\ cReady' = cReady
    BY <1>5 DEF TxEdge, TxIdle, TxStartBit, TxDataBit, TxStopBit
  <2>2. /\ ~cReady /\ cBitIndex = 0 /\ Sent = 0 /\ Onto = Queued - 1
        /\ cBuffer = Byte(answer, Onto)
    BY <1>0, <1>5 DEF TxTypes, InStep, Buffered, Sent, Onto
  <2>3. cnt' \in 0 .. N - 1 /\ Queued' = Queued
    BY <1>0, <1>3, <2>2 DEF QueueEdge, NextCnt, TxTypes, Queued
  <2>4. Onto' = Onto /\ Sent' = IF cBitSent THEN 1 ELSE 0
    BY <2>1, <2>2, <2>3 DEF Onto, Sent
  <2>5. SameByte
    <3>1. Elapsed' = Elapsed + 1
      BY <1>1, <1>2, <1>3, <2>2, <2>4 DEF Elapsed
    <3>2. Elapsed + 1 < Bit(10)
      <4>1. Bit(1) + TICKS <= Bit(10) /\ Bit(0 + 1) = Bit(0) + TICKS /\ Bit(10) \in Nat
        BY BitsInOrder, Bits
      <4> QED BY <1>2, <1>3, <2>2, <4>1
    <3> QED BY <2>1, <2>4, <3>1, <3>2 DEF SameByte
  <2>6. Levels'
    BY <1>1, <2>1, <2>2, <2>4, LevelsStep
  <2>7. TxTypes'
    BY <1>0, <1>1, <1>3, <1>4, <2>1, <2>2, <2>3 DEF TxTypes
  <2>8. InStep'
    BY <1>0, <1>3, <2>1, <2>2, <2>3 DEF InStep
  <2>9. Buffered'
    BY <2>1, <2>2, <2>4 DEF Buffered, Shifted
  <2> QED BY <2>5, <2>6, <2>7, <2>8, <2>9 DEF TxInv
<1>6. CASE txState = "DataBit"
  <2>1. /\ ~cReady /\ cBitIndex \in 0 .. 7 /\ Sent = cBitIndex + 1 /\ Onto = Queued - 1
        /\ cBuffer = Shifted(Byte(answer, Onto), cBitIndex)
    BY <1>0, <1>6 DEF TxTypes, InStep, Buffered, Sent, Onto
  <2>2. cnt' \in 0 .. N - 1 /\ Queued' = Queued
    BY <1>0, <1>3, <2>1 DEF QueueEdge, NextCnt, TxTypes, Queued
  <2>3. Byte(answer, Onto) \in 0 .. 255
    BY <1>2, <1>3, ByteRange
  <2>4. CASE ~cBitSent
    <3>1. txState' = "DataBit" /\ cBuffer' = cBuffer /\ cBitIndex' = cBitIndex /\ cReady' = cReady
      BY <1>6, <2>4 DEF TxEdge, TxIdle, TxStartBit, TxDataBit, TxStopBit
    <3>2. Onto' = Onto /\ Sent' = Sent
      BY <2>1, <2>2, <3>1 DEF Onto, Sent
    <3>3. SameByte
      <4>1. Elapsed' = Elapsed + 1
        BY <1>1, <1>2, <2>4, <3>2 DEF Elapsed
      <4>2. Elapsed + 1 < Bit(10)
        <5>1. Sent < 10 /\ Sent \in Nat
          BY <2>1
        <5>2. Bit(Sent) + TICKS <= Bit(10) /\ Bit(10) \in Nat
          BY <5>1, BitsInOrder, Bits
        <5> QED BY <1>1, <1>2, <1>3, <2>4, <5>2
      <4> QED BY <3>1, <3>2, <4>1, <4>2 DEF SameByte
    <3>4. Levels'
      BY <1>1, <1>6, <2>4, <3>1, <3>2, LevelsStep
    <3>5. TxTypes'
      BY <1>0, <1>1, <1>3, <1>4, <2>1, <2>2, <3>1 DEF TxTypes
    <3>6. InStep' /\ Buffered'
      BY <1>0, <1>3, <2>1, <2>2, <3>1, <3>2 DEF InStep, Buffered
    <3> QED BY <3>3, <3>4, <3>5, <3>6 DEF TxInv
  <2>5. CASE cBitSent /\ cBitIndex < 7
    <3>1. /\ txState' = "DataBit" /\ cBuffer' = cBuffer \div 2
          /\ cBitIndex' = cBitIndex + 1 /\ cReady' = FALSE
      <4>1. /\ cBuffer' = cBuffer \div 2 /\ cBitIndex' = (cBitIndex + 1) % 8
            /\ cReady' = (cReady \/ ReadyAfter(cBitIndex))
            /\ txState' = IF cBitIndex = 7 THEN "StopBit" ELSE "DataBit"
        BY <1>6, <2>5 DEF TxEdge, TxIdle, TxStartBit, TxDataBit, TxStopBit
      <4>2. (cBitIndex + 1) % 8 = cBitIndex + 1 /\ cBitIndex # 7
        BY <2>1, <2>5, SMT
      <4>3. cReady' = FALSE
        BY <2>1, <4>1, <4>2 DEF ReadyAfter
      <4> QED BY <4>1, <4>2, <4>3
    <3>2. Onto' = Onto /\ Sent' = Sent + 1
      BY <2>1, <2>2, <3>1 DEF Onto, Sent
    <3>3. SameByte
      <4>1. Elapsed' = Elapsed + 1
        <5>1. Elapsed' = Bit(Sent + 1) + 0 /\ cBitTimer = TICKS - 1
          BY <1>1, <2>5, <3>2 DEF Elapsed
        <5> QED BY <1>2, <1>3, <5>1
      <4>2. Elapsed + 1 < Bit(10)
        <5>1. Sent + 1 < 10 /\ Sent + 1 \in Nat
          BY <2>1, <2>5
        <5>2. Bit(Sent + 1) + TICKS <= Bit(10) /\ Bit(10) \in Nat
          BY <5>1, BitsInOrder, Bits
        <5> QED BY <1>2, <1>3, <5>2
      <4> QED BY <3>1, <3>2, <4>1, <4>2 DEF SameByte
    <3>4. Levels'
      BY <1>1, <1>6, <2>5, <3>1, <3>2, LevelsStep
    <3>5. TxTypes'
      <4>1. cBitIndex + 1 \in 0 .. 7 /\ cnt' \in 0 .. N
        BY <1>3, <2>1, <2>2, <2>5
      <4> QED BY <1>1, <1>4, <3>1, <4>1 DEF TxTypes
    <3>6. InStep'
      BY <1>0, <1>3, <2>1, <2>2, <3>1, <3>2 DEF InStep
    <3>7. Buffered'
      <4>1. cBuffer' = Shifted(Byte(answer, Onto), cBitIndex + 1)
        BY <2>1, <2>3, <2>5, <3>1, ShiftOut
      <4> QED BY <3>1, <3>2, <4>1 DEF Buffered
    <3> QED BY <3>3, <3>4, <3>5, <3>6, <3>7 DEF TxInv
  <2>6. CASE cBitSent /\ cBitIndex = 7
    <3>1. /\ txState' = "StopBit" /\ cBitIndex' = 0 /\ cReady' = TRUE
      <4>1. /\ cBitIndex' = (cBitIndex + 1) % 8
            /\ cReady' = (cReady \/ ReadyAfter(cBitIndex))
            /\ txState' = IF cBitIndex = 7 THEN "StopBit" ELSE "DataBit"
        BY <1>6, <2>6 DEF TxEdge, TxIdle, TxStartBit, TxDataBit, TxStopBit
      <4>2. cBitIndex' = 0
        BY <2>6, <4>1, SMT
      <4>3. cReady' = TRUE
        BY <2>6, <4>1 DEF ReadyAfter
      <4> QED BY <2>6, <4>1, <4>2, <4>3
    <3>2. Onto' = Onto /\ Sent' = 9 /\ Sent = 8
      BY <2>1, <2>2, <2>6, <3>1 DEF Onto, Sent
    <3>3. SameByte
      <4>1. Elapsed' = Elapsed + 1
        <5>1. Elapsed' = Bit(9) + 0 /\ cBitTimer = TICKS - 1
          BY <1>1, <2>6, <3>2 DEF Elapsed
        <5>2. Bit(9) = Bit(8) + TICKS /\ Bit(8) \in Nat /\ Elapsed = Bit(8) + cBitTimer
          BY <1>2, <3>2
        <5> QED BY <1>2, <1>3, <5>1, <5>2
      <4>2. Elapsed + 1 < Bit(10)
        <5>1. Bit(9) + TICKS <= Bit(10) /\ Bit(10) \in Nat
          BY BitsInOrder, Bits
        <5> QED BY <1>2, <1>3, <3>2, <5>1
      <4> QED BY <3>1, <3>2, <4>1, <4>2 DEF SameByte
    <3>4. Levels'
      BY <1>1, <1>6, <2>6, <3>1, <3>2, LevelsStep
    <3>5. TxTypes'
      BY <1>0, <1>1, <1>3, <1>4, <2>1, <2>2, <3>1 DEF TxTypes
    <3>6. InStep' /\ Buffered'
      BY <1>0, <1>1, <1>3, <2>1, <2>2, <2>6, <3>1, <3>2 DEF InStep, Buffered
    <3> QED BY <3>3, <3>4, <3>5, <3>6 DEF TxInv
  <2> QED BY <2>1, <2>4, <2>5, <2>6
<1>7. CASE txState = "StopBit"
  <2>1. /\ cReady' = (cReady /\ ~uart_tx_go)
        /\ cBuffer' = IF uart_tx_go THEN Byte(result, sel) ELSE cBuffer
        /\ txState' = IF ~cBitSent THEN "StopBit"
                      ELSE IF cReady' THEN "Idle" ELSE "StartBit"
        /\ cBitIndex' = cBitIndex /\ cBitIndex = 0 /\ Sent = 9 /\ cReady \in BOOLEAN
    BY <1>0, <1>7 DEF TxEdge, TxIdle, TxStartBit, TxDataBit, TxStopBit, TxTypes, Sent
  <2>2. Bit(10) = Bit(9) + TICKS /\ Bit(9) \in Nat
    BY <1>2, <2>1
  <2>3. oTxd' /\ (cBitTimer >= 2 => oTxd /\ cRxdSyncPipe)
    <3>1. Levels
      BY DEF TxInv
    <3>2. Level(Byte(answer, Onto), 9)
      BY DEF Level
    <3> QED BY <1>2, <1>4, <1>7, <2>1, <3>1, <3>2 DEF Levels, Delayed
  <2>4. CASE ~cBitSent /\ cReady /\ cnt # 0
    <3>1. cBitTimer = 0 /\ cnt \in 1 .. N - 1 /\ uart_tx_go
      BY <1>0, <1>3, <1>7, <2>4 DEF InStep, TxTypes, uart_tx_go
    <3>2. cnt' = cnt + 1 /\ cReady' = FALSE /\ txState' = "StopBit" /\ cBuffer' = Byte(answer, cnt)
      <4>1. cnt' = cnt + 1
        BY <1>3, <2>4, <3>1 DEF QueueEdge, NextCnt
      <4>2. cReady' = FALSE /\ txState' = "StopBit"
        BY <2>1, <2>4, <3>1
      <4>3. cBuffer' = Byte(answer, cnt)
        BY <2>1, <3>1 DEF sel
      <4> QED BY <4>1, <4>2, <4>3
    <3>3. Onto = cnt - 1 /\ Onto' = Onto /\ Sent' = Sent /\ Queued' = cnt + 1
      BY <1>3, <1>7, <2>1, <2>4, <3>1, <3>2 DEF Onto, Queued, Sent
    <3>4. SameByte
      BY <1>1, <1>2, <1>3, <2>1, <2>2, <2>4, <3>2, <3>3 DEF SameByte, Elapsed
    <3>5. Levels'
      BY <1>1, <1>7, <2>4, <3>2, <3>3, LevelsStep
    <3>6. TxTypes'
      BY <1>0, <1>1, <1>3, <1>4, <2>1, <3>1, <3>2 DEF TxTypes
    <3>7. InStep'
      BY <1>1, <1>3, <2>4, <3>1, <3>2, <3>3 DEF InStep
    <3>8. Onto' + 1 = cnt
      BY <3>1, <3>3
    <3>9. Buffered'
      BY <3>2, <3>8 DEF Buffered
    <3> QED BY <3>4, <3>5, <3>6, <3>7, <3>9 DEF TxInv
  <2>5. CASE ~cBitSent /\ cReady /\ cnt = 0
    <3>1. ~uart_tx_go /\ cnt' = 0 /\ cReady' = TRUE /\ txState' = "StopBit"
      BY <1>3, <2>1, <2>5 DEF uart_tx_go, QueueEdge, NextCnt
    <3>2. Onto' = Onto /\ Sent' = Sent
      BY <1>7, <2>1, <2>5, <3>1 DEF Onto, Queued, Sent
    <3>3. SameByte
      BY <1>1, <1>2, <1>3, <2>1, <2>2, <2>5, <3>1, <3>2 DEF SameByte, Elapsed
    <3>4. Levels'
      BY <1>1, <1>7, <2>5, <3>1, <3>2, LevelsStep
    <3>5. TxTypes' /\ InStep' /\ Buffered'
      BY <1>0, <1>1, <1>3, <1>4, <2>1, <3>1 DEF TxTypes, InStep, Buffered
    <3> QED BY <3>3, <3>4, <3>5 DEF TxInv
  <2>6. CASE ~cBitSent /\ ~cReady
    <3>1. ~uart_tx_go /\ cReady' = FALSE /\ txState' = "StopBit" /\ cBuffer' = cBuffer
      BY <2>1, <2>6 DEF uart_tx_go
    <3>2. cnt' \in 0 .. N - 1 /\ Queued' = Queued
      BY <1>0, <1>3, <2>6 DEF QueueEdge, NextCnt, TxTypes, Queued
    <3>3. Onto' = Onto /\ Sent' = Sent
      BY <1>7, <2>1, <2>6, <3>1, <3>2 DEF Onto, Sent
    <3>4. SameByte
      BY <1>1, <1>2, <1>3, <2>1, <2>2, <2>6, <3>1, <3>3 DEF SameByte, Elapsed
    <3>5. Levels'
      BY <1>1, <1>7, <2>6, <3>1, <3>3, LevelsStep
    <3>6. TxTypes'
      BY <1>0, <1>1, <1>3, <1>4, <2>1, <3>1, <3>2 DEF TxTypes
    <3>7. InStep'
      BY <1>0, <1>1, <1>2, <1>3, <1>7, <2>6, <3>1, <3>2 DEF InStep
    <3>8. Buffered'
      BY <1>0, <1>7, <2>6, <3>1, <3>3 DEF Buffered
    <3> QED BY <3>4, <3>5, <3>6, <3>7, <3>8 DEF TxInv
  <2>7. CASE cBitSent /\ cReady
    <3>1. cnt = 0 /\ ~uart_tx_go
      BY <1>0, <1>1, <1>3, <1>7, <2>7 DEF InStep, uart_tx_go
    <3>2. cnt' = 0 /\ cReady' = TRUE /\ txState' = "Idle"
      BY <1>3, <2>1, <2>7, <3>1 DEF QueueEdge, NextCnt
    <3>3. Onto = N - 1
      BY <1>7, <2>7, <3>1 DEF Onto, Queued
    <3>4. Elapsed + 1 = Bit(10)
      BY <1>1, <1>2, <1>3, <2>1, <2>2, <2>7
    <3>5. LastByte
      BY <1>1, <1>3, <2>3, <2>7, <3>2, <3>3, <3>4 DEF LastByte
    <3>6. TxTypes' /\ InStep' /\ Buffered' /\ Levels'
      BY <1>0, <1>1, <1>3, <1>4, <2>1, <2>7, <3>2 DEF TxTypes, InStep, Buffered, Levels
    <3> QED BY <3>5, <3>6 DEF TxInv
  <2>8. CASE cBitSent /\ ~cReady
    <3>1. ~uart_tx_go /\ cReady' = FALSE /\ txState' = "StartBit" /\ cBuffer' = cBuffer
      BY <2>1, <2>8 DEF uart_tx_go
    <3>2. cnt' \in 0 .. N - 1 /\ Queued' = Queued
      BY <1>0, <1>3, <2>8 DEF QueueEdge, NextCnt, TxTypes, Queued
    <3>3. Onto = Queued - 2 /\ Onto' = Onto + 1 /\ Sent' = 0
      BY <1>2, <1>7, <2>8, <3>1, <3>2 DEF Onto, Sent
    <3>4. Elapsed + 1 = Bit(10)
      BY <1>1, <1>2, <1>3, <2>1, <2>2, <2>8
    <3>5. NextByte
      BY <1>1, <1>2, <1>3, <2>8, <3>1, <3>3, <3>4 DEF NextByte, Elapsed
    <3>6. Levels'
      BY <1>1, <1>7, <2>1, <2>8, <3>1, <3>3, LevelsStep
    <3>7. TxTypes'
      BY <1>0, <1>1, <1>3, <1>4, <2>1, <3>1, <3>2 DEF TxTypes
    <3>8. InStep'
      BY <1>3, <3>1, <3>2 DEF InStep
    <3>9. Buffered'
      BY <1>0, <1>7, <2>8, <3>1, <3>3 DEF Buffered
    <3> QED BY <3>5, <3>6, <3>7, <3>8, <3>9 DEF TxInv
  <2> QED BY <2>1, <2>4, <2>5, <2>6, <2>7, <2>8
<1> QED BY <1>0, <1>5, <1>6, <1>7 DEF TxTypes

-----------------------------------------------------------------------------
(* The receiver.                                                               *)

(* It reports a byte.                                                          *)
Reports(p, n) ==
    /\ rxState = "CheckStopBit" /\ p = Half + 3 + Bit(8)
    /\ Between(n + 1)' /\ Arrived /\ cData' = Byte(answer, n)

(* The level of the line in a data bit is the lowest bit of what is left to    *)
(* send.                                                                       *)
LEMMA LevelOfBit ==
  \A b : \A i \in 0 .. 7 : Level(b, i + 1) <=> Shifted(b, i) % 2 = 1
<1> SUFFICES ASSUME NEW b, NEW i \in 0 .. 7, NEW j, j = i + 1
             PROVE  Level(b, j) <=> Shifted(b, i) % 2 = 1
  OBVIOUS
<1>1. j \in 0 .. 8 /\ j > 0 /\ j - 1 = i
  OBVIOUS
<1> QED BY <1>1 DEF Level

(* An edge of the receiver within a byte: the timer runs, or it samples the    *)
(* bit that the line carries, or, its last, it reports the byte.               *)
LEMMA ReceivingEdge ==
  ASSUME NEW CONSTANT p, NEW CONSTANT n \in 0 .. N - 1,
         RxTypes, Receiving(p, n), RxEdge, Observe, ~uart_wren,
         answer \in Answers, answer' = answer, cRxd \in BOOLEAN,
         rxState = "ReadDataBit" => (cRxd <=> Level(Byte(answer, n), Read + 1)),
         rxState = "CheckStopBit" => cRxd
  PROVE  /\ RxTypes'
         /\ rxState = "CheckStopBit" => Reports(p, n)
         /\ rxState # "CheckStopBit" => Receiving(p + 1, n)' /\ ~Arrived
<1>1. TICKS \in Nat /\ TICKS >= 4 /\ N \in Nat \ {0} /\ Half \in Nat
  BY Constants
<1>2. /\ rxState \in {"WaitToDataBit", "ReadDataBit", "WaitToStopBit", "CheckStopBit"}
      /\ cTimer \in Nat /\ cBitCounter \in 0 .. 7 /\ cData \in 0 .. 255
      /\ p = Heard /\ got = n /\ ~cReceived
      /\ Holds(cData, Byte(answer, n), Read)
  BY DEF RxTypes, Receiving
<1>3. Byte(answer, n) \in 0 .. 255
  BY <1>1, ByteRange
<1>4. cTimerIsZero' \in BOOLEAN /\ (cTimerIsZero' <=> cTimer = 1)
  BY DEF RxEdge
<1>5. CASE rxState \in {"WaitToDataBit", "WaitToStopBit"}
  <2>1. PICK to \in {"ReadDataBit", "CheckStopBit"} :
          /\ RxWait(rxState, to)
          /\ to = IF rxState = "WaitToDataBit" THEN "ReadDataBit" ELSE "CheckStopBit"
    <3>1. CASE rxState = "WaitToDataBit"
      <4>1. RxWait("WaitToDataBit", "ReadDataBit")
        BY <3>1 DEF RxEdge, RxErrorRecovery, RxIdle, RxReadDataBit, RxCheckStopBit, RxWait
      <4> QED BY <3>1, <4>1
    <3>2. CASE rxState = "WaitToStopBit"
      <4>1. RxWait("WaitToStopBit", "CheckStopBit")
        BY <3>2 DEF RxEdge, RxErrorRecovery, RxIdle, RxReadDataBit, RxCheckStopBit, RxWait
      <4> QED BY <3>2, <4>1
    <3> QED BY <1>5, <3>1, <3>2
  <2>2. /\ cBitCounter' = cBitCounter /\ cData' = cData /\ cReceived' = cReceived
        /\ cTimerIsZero  => rxState' = to /\ cTimer' = cTimer
        /\ ~cTimerIsZero => rxState' = rxState /\ cTimer' = cTimer - 1
    BY <2>1 DEF RxWait
  <2>3. ~Arrived /\ got' = n
    BY <1>2, <2>2 DEF Arrived, Observe
  <2>4. (cTimerIsZero <=> cTimer = 0) /\ Waiting
        /\ (rxState = "WaitToStopBit" => cBitCounter = 0)
    BY <1>5 DEF Receiving, Waiting
  <2>5. Read \in 0 .. 8 /\ Bit(Read) \in Nat
    BY <1>2, Bits DEF Read
  <2>6. CASE cTimerIsZero
    <3>1. rxState' = to /\ cTimer' = 0 /\ Read' = Read /\ ~Waiting'
      BY <1>5, <2>1, <2>2, <2>4, <2>6 DEF Read, Waiting
    <3>2. Heard' = p + 1
      BY <1>1, <1>2, <2>4, <2>5, <2>6, <3>1 DEF Heard
    <3>3. Receiving(p + 1, n)'
      <4>1. rxState' \notin {"Idle", "ErrorRecovery"} /\ ~cReceived' /\ cBitCounter' = cBitCounter
        BY <1>2, <2>2, <3>1
      <4>2. Holds(cData', Byte(answer', n), Read')
        BY <1>2, <2>2, <3>1
      <4>3. rxState' \in {"WaitToStopBit", "CheckStopBit"} => cBitCounter' = 0
        BY <1>5, <2>1, <2>2, <2>4, <3>1
      <4> QED BY <2>3, <3>1, <3>2, <4>1, <4>2, <4>3 DEF Receiving
    <3>4. RxTypes'
      BY <1>1, <1>2, <1>4, <2>1, <2>2, <2>3, <3>1 DEF RxTypes
    <3> QED BY <1>5, <2>3, <3>3, <3>4
  <2>7. CASE ~cTimerIsZero
    <3>1. rxState' = rxState /\ cTimer' = cTimer - 1 /\ cTimer # 0 /\ Read' = Read /\ Waiting'
      BY <1>5, <2>2, <2>4, <2>7 DEF Read, Waiting
    <3>2. Heard' = p + 1
      BY <1>1, <1>2, <2>4, <2>5, <3>1 DEF Heard
    <3>3. cTimer' \in Nat /\ (cTimerIsZero' <=> cTimer' = 0)
      BY <1>2, <1>4, <3>1
    <3>4. Receiving(p + 1, n)'
      <4>1. rxState' \notin {"Idle", "ErrorRecovery"} /\ ~cReceived' /\ cBitCounter' = cBitCounter
        BY <1>2, <1>5, <2>2, <3>1
      <4>2. Holds(cData', Byte(answer', n), Read')
        BY <1>2, <2>2, <3>1
      <4>3. rxState' \in {"WaitToStopBit", "CheckStopBit"} => cBitCounter' = 0
        BY <1>5, <2>2, <2>4, <3>1
      <4> QED BY <2>3, <3>1, <3>2, <3>3, <4>1, <4>2, <4>3 DEF Receiving
    <3>5. RxTypes'
      BY <1>1, <1>2, <1>4, <1>5, <2>2, <2>3, <3>1, <3>3 DEF RxTypes
    <3> QED BY <1>5, <2>3, <3>4, <3>5
  <2> QED BY <2>6, <2>7
<1>6. CASE rxState = "ReadDataBit"
  <2>1. /\ cData' = (IF cRxd THEN 128 ELSE 0) + cData \div 2
        /\ cBitCounter' = (cBitCounter + 1) % 8
        /\ rxState' = IF cBitCounter # 7 THEN "WaitToDataBit" ELSE "WaitToStopBit"
        /\ cTimer' = TICKS - 2 /\ cReceived' = cReceived
    BY <1>6 DEF RxEdge, RxErrorRecovery, RxIdle, RxReadDataBit, RxCheckStopBit, RxWait,
       DelayToNextBit
  <2>2. ~Arrived /\ got' = n
    BY <1>2, <2>1 DEF Arrived, Observe
  <2>3. Read = cBitCounter /\ ~Waiting /\ cTimer = 0
    BY <1>6 DEF Read, Waiting, Receiving
  <2>4. cRxd <=> Shifted(Byte(answer, n), cBitCounter) % 2 = 1
    <3>2. cRxd <=> Level(Byte(answer, n), cBitCounter + 1)
      BY <1>6, <2>3
    <3>3. Level(Byte(answer, n), cBitCounter + 1) <=> Shifted(Byte(answer, n), cBitCounter) % 2 = 1
      BY <1>2, LevelOfBit
    <3> QED BY <3>2, <3>3
  <2>5. cData' \in 0 .. 255 /\ Holds(cData', Byte(answer, n), cBitCounter + 1)
    <3>1. cData' = (IF Shifted(Byte(answer, n), cBitCounter) % 2 = 1 THEN 128 ELSE 0) + cData \div 2
      BY <2>1, <2>4
    <3> QED BY <1>2, <1>3, <2>3, <3>1, ShiftIn
  <2>6. ~cTimerIsZero' /\ cTimer' # 0 /\ cTimer' \in Nat
    BY <1>1, <1>4, <2>1, <2>3
  <2>7. Bit(cBitCounter + 1) = Bit(cBitCounter) + TICKS /\ Bit(cBitCounter) \in Nat
    BY <1>2, Bits
  <2>8. CASE cBitCounter < 7
    <3>1. cBitCounter' = cBitCounter + 1 /\ rxState' = "WaitToDataBit"
      <4>1. (cBitCounter + 1) % 8 = cBitCounter + 1
        BY <1>2, <2>8, SMT
      <4> QED BY <1>2, <2>1, <2>8, <4>1
    <3>2. Read' = cBitCounter + 1 /\ Waiting'
      BY <3>1 DEF Read, Waiting
    <3>3. Heard' = p + 1
      BY <1>1, <1>2, <2>1, <2>3, <2>7, <3>2 DEF Heard
    <3>4. Receiving(p + 1, n)'
      BY <1>2, <2>1, <2>2, <2>5, <2>6, <3>1, <3>2, <3>3 DEF Receiving
    <3>5. RxTypes'
      <4>1. cBitCounter + 1 \in 0 .. 7
        BY <1>2, <2>8
      <4> QED BY <1>1, <1>2, <1>4, <2>1, <2>2, <2>5, <2>6, <3>1, <4>1 DEF RxTypes
    <3> QED BY <1>6, <2>2, <3>4, <3>5
  <2>9. CASE cBitCounter = 7
    <3>1. cBitCounter' = 0 /\ rxState' = "WaitToStopBit"
      <4>1. (7 + 1) % 8 = 0
        BY SMT
      <4> QED BY <2>1, <2>9, <4>1
    <3>2. Read' = cBitCounter + 1 /\ Waiting'
      BY <2>9, <3>1 DEF Read, Waiting
    <3>3. Heard' = p + 1
      BY <1>1, <1>2, <2>1, <2>3, <2>7, <3>2 DEF Heard
    <3>4. Receiving(p + 1, n)'
      BY <1>2, <2>1, <2>2, <2>5, <2>6, <3>1, <3>2, <3>3 DEF Receiving
    <3>5. RxTypes'
      BY <1>1, <1>2, <1>4, <2>1, <2>2, <2>5, <2>6, <3>1 DEF RxTypes
    <3> QED BY <1>6, <2>2, <3>4, <3>5
  <2> QED BY <1>2, <2>8, <2>9
<1>7. CASE rxState = "CheckStopBit"
  <2>1. /\ cReceived' = TRUE /\ rxState' = "Idle"
        /\ cTimer' = cTimer /\ cBitCounter' = cBitCounter /\ cData' = cData
    BY <1>7 DEF RxEdge, RxErrorRecovery, RxIdle, RxReadDataBit, RxCheckStopBit, RxWait
  <2>2. Read = 8 /\ ~Waiting /\ cBitCounter = 0
    BY <1>7 DEF Read, Waiting, Receiving
  <2>3. cData' = Byte(answer, n)
    BY <1>2, <2>1, <2>2 DEF Holds
  <2>4. Arrived /\ got' = n + 1
    BY <1>2, <2>1 DEF Arrived, Observe
  <2>5. p = Half + 3 + Bit(8)
    BY <1>1, <1>2, <2>2, Bits DEF Heard
  <2>6. Between(n + 1)'
    BY <2>1, <2>2, <2>4 DEF Between
  <2>7. RxTypes'
    BY <1>1, <1>2, <1>4, <2>1, <2>2, <2>4 DEF RxTypes
  <2> QED BY <1>7, <2>3, <2>4, <2>5, <2>6, <2>7 DEF Reports
<1> QED BY <1>2, <1>5, <1>6, <1>7

(* Between two bytes it starts its timer at every edge, and leaves for the     *)
(* next byte at the first low level it sees.                                   *)
LEMMA BetweenEdge ==
  ASSUME NEW CONSTANT n \in 0 .. N,
         RxTypes, Between(n), RxEdge, Observe, ~uart_wren, answer' = answer, cRxd \in BOOLEAN
  PROVE  /\ RxTypes' /\ ~Arrived
         /\ cRxd => Between(n)' /\ cTimer' = Half - 2
         /\ ~cRxd /\ cTimer # 1 => Receiving(4, n)'
<1>1. TICKS \in Nat /\ TICKS >= 4 /\ N \in Nat \ {0} /\ Half \in Nat /\ Half >= TICKS + 2
  BY Constants
<1>2. /\ cReceived' = FALSE /\ cTimer' = Half - 2
      /\ rxState' = IF cRxd THEN "Idle" ELSE "WaitToDataBit"
      /\ cBitCounter' = cBitCounter /\ cData' = cData
  BY DEF Between, RxEdge, RxErrorRecovery, RxIdle, RxReadDataBit, RxCheckStopBit, RxWait,
     DelayToFirstBit, Half
<1>3. cTimerIsZero' \in BOOLEAN /\ (cTimerIsZero' <=> cTimer = 1)
  BY DEF RxEdge
<1>4. ~Arrived /\ got' = n /\ cBitCounter = 0 /\ got = n
  BY <1>2 DEF Arrived, Observe, Between
<1>5. cTimer' \in Nat /\ cTimer' # 0
  BY <1>1, <1>2
<1>6. RxTypes'
  BY <1>1, <1>2, <1>3, <1>4, <1>5 DEF RxTypes
<1>7. ASSUME ~cRxd, cTimer # 1 PROVE Receiving(4, n)'
  <2>1. rxState' = "WaitToDataBit" /\ cBitCounter' = 0 /\ ~cTimerIsZero'
    BY <1>2, <1>3, <1>4, <1>7
  <2>2. Read' = 0 /\ Waiting'
    BY <2>1 DEF Read, Waiting
  <2>3. Heard' = 4
    BY <1>1, <1>2, <2>2, Bits DEF Heard
  <2> QED BY <1>2, <1>4, <1>5, <2>1, <2>2, <2>3 DEF Receiving, Holds
<1> QED BY <1>2, <1>4, <1>6, <1>7 DEF Between

-----------------------------------------------------------------------------
(* The link: transmitter, line and receiver.                                   *)

Edge == /\ TxEdge /\ QueueEdge /\ RxEdge /\ Observe
        /\ cRxdSyncPipe' = oTxd /\ cRxd' = cRxdSyncPipe

Link == TxInv /\ RxTypes /\ Following /\ Resting

(* A byte that is reported is the next one of the word.                        *)
Reported == Arrived => got < N /\ cData' = Byte(answer, got) /\ got' = got + 1

(* A position after the last edge of a byte is in its stop bit.                *)
LEMMA AfterTheByte ==
  ASSUME NEW r \in 0 .. 8, NEW t \in Nat, NEW w \in BOOLEAN, NEW q,
         q = Half + Bit(r) + (IF w THEN 2 - t ELSE 3), q >= Bit(10)
  PROVE  r = 8 /\ (w => t = 0) /\ q <= Bit(10) + 1
<1>1. /\ TICKS \in Nat /\ TICKS >= 4 /\ Half \in Nat /\ 2 * Half <= 3 * TICKS
      /\ Bit(r) \in Nat /\ Bit(8) \in Nat
  BY Constants, Bits
<1>2. Bit(10) = Bit(8) + 2 * TICKS
  <2>1. Bit(8 + 1) = Bit(8) + TICKS /\ Bit(9 + 1) = Bit(9) + TICKS
    BY Bits
  <2> QED BY <1>1, <2>1
<1>3. r < 8 => Bit(r) + TICKS <= Bit(8)
  BY BitsInOrder
<1>4. r = 8
  BY <1>1, <1>2, <1>3
<1> QED BY <1>1, <1>2, <1>4

(* So a receiver that is late has only the stop bit to check.                  *)
LEMMA HeardAfter ==
  ASSUME NEW CONSTANT p, NEW CONSTANT n, RxTypes, Receiving(p, n), p >= Bit(10)
  PROVE  /\ rxState \in {"WaitToStopBit", "CheckStopBit"} /\ p <= Bit(10) + 1
         /\ rxState = "WaitToStopBit" => cTimer = 0
<1>1. /\ Read \in 0 .. 8 /\ cTimer \in Nat /\ Waiting \in BOOLEAN
      /\ p = Half + Bit(Read) + (IF Waiting THEN 2 - cTimer ELSE 3)
  BY DEF RxTypes, Receiving, Read, Waiting, Heard
<1>2. Read = 8 /\ (Waiting => cTimer = 0) /\ p <= Bit(10) + 1
  BY <1>1, AfterTheByte
<1>3. rxState \in {"WaitToStopBit", "CheckStopBit"}
  BY <1>2 DEF Read, RxTypes
<1> QED BY <1>2, <1>3 DEF Waiting

(* The same of the next state.                                                 *)
LEMMA HeardAfterStep ==
  ASSUME NEW CONSTANT p, NEW CONSTANT n, RxTypes', Receiving(p, n)', p >= Bit(10)
  PROVE  /\ rxState' \in {"WaitToStopBit", "CheckStopBit"} /\ p <= Bit(10) + 1
         /\ rxState' = "WaitToStopBit" => cTimer' = 0
<1>1. /\ Read' \in 0 .. 8 /\ cTimer' \in Nat /\ Waiting' \in BOOLEAN
      /\ p = Half + Bit(Read') + (IF Waiting' THEN 2 - cTimer' ELSE 3)
  BY DEF RxTypes, Receiving, Read, Waiting, Heard
<1>2. Read' = 8 /\ (Waiting' => cTimer' = 0) /\ p <= Bit(10) + 1
  BY <1>1, AfterTheByte
<1>3. rxState' \in {"WaitToStopBit", "CheckStopBit"}
  BY <1>2 DEF Read, RxTypes
<1> QED BY <1>2, <1>3 DEF Waiting

(* What the receiver sees of the byte on the line.                             *)
LEMMA Seen ==
  ASSUME TxInv, txState # "Idle"
  PROVE  /\ \A i \in 0 .. 8 : Elapsed = Half + 3 + Bit(i) =>
                                  (cRxd <=> Level(Byte(answer, Onto), i + 1))
         /\ Elapsed < 3 => cRxd
         /\ Elapsed = 3 => ~cRxd
         /\ Elapsed >= Half + 4 + Bit(8) => cRxd
<1>1. /\ Sent \in 0 .. 9 /\ cBitTimer \in 0 .. TICKS - 1 /\ Elapsed = Bit(Sent) + cBitTimer
      /\ Bit(Sent) \in Nat /\ Elapsed \in Nat
  BY Positions DEF TxInv
<1>2. cRxd <=> Level(Byte(answer, Onto), IF cBitTimer >= 3 THEN Sent ELSE Sent - 1)
  BY DEF TxInv, Levels, Delayed
<1>3. /\ TICKS \in Nat /\ TICKS >= 4 /\ Half \in Nat /\ Half >= TICKS + 2 /\ Bit(0) = 0
      /\ Bit(8) \in Nat
  BY Constants, Bits
<1>4. ASSUME NEW i \in 0 .. 8, Elapsed = Half + 3 + Bit(i)
      PROVE  cRxd <=> Level(Byte(answer, Onto), i + 1)
  <2>1. (IF cBitTimer >= 3 THEN Sent ELSE Sent - 1) = i + 1
    BY <1>1, <1>4, InTheMiddle
  <2> QED BY <1>2, <2>1
<1>5. ASSUME Elapsed <= 3 PROVE Sent = 0 /\ cBitTimer = Elapsed
  <2>1. Sent > 0 => Bit(0) + TICKS <= Bit(Sent)
    BY <1>1, BitsInOrder
  <2> QED BY <1>1, <1>3, <1>5, <2>1
<1>6. Elapsed < 3 => cRxd
  <2> SUFFICES ASSUME Elapsed < 3 PROVE cRxd
    OBVIOUS
  <2>1. Sent = 0 /\ ~(cBitTimer >= 3)
    BY <1>1, <1>5
  <2>2. cRxd <=> Level(Byte(answer, Onto), 0 - 1)
    BY <1>2, <2>1
  <2> QED BY <2>2 DEF Level
<1>7. Elapsed = 3 => ~cRxd
  <2> SUFFICES ASSUME Elapsed = 3 PROVE ~cRxd
    OBVIOUS
  <2>1. Sent = 0 /\ cBitTimer >= 3
    BY <1>1, <1>5
  <2>2. cRxd <=> Level(Byte(answer, Onto), 0)
    BY <1>2, <2>1
  <2> QED BY <2>2 DEF Level
<1>8. Elapsed >= Half + 4 + Bit(8) => cRxd
  <2> SUFFICES ASSUME Elapsed >= Half + 4 + Bit(8) PROVE cRxd
    OBVIOUS
  <2>1. Sent < 9 => Bit(Sent) <= Bit(8)
    <3>1. Sent < 8 => Bit(Sent) + TICKS <= Bit(8)
      BY <1>1, BitsInOrder
    <3> QED BY <1>1, <1>3, <3>1
  <2>2. Sent = 9
    BY <1>1, <1>3, <2>1
  <2>3. Bit(9) = Bit(8) + TICKS
    <3>1. Bit(8 + 1) = Bit(8) + TICKS
      BY Bits
    <3> QED BY <3>1
  <2>4. cBitTimer >= 3
    BY <1>1, <1>3, <2>2, <2>3
  <2>5. cRxd <=> Level(Byte(answer, Onto), 9)
    BY <1>2, <2>2, <2>4
  <2> QED BY <2>5 DEF Level
<1> QED BY <1>4, <1>6, <1>7, <1>8

(* An edge while a byte is on the line: transmitter and receiver stay in       *)
(* step, and a byte that is reported is the next one of the word.              *)
LEMMA SendingStep ==
  ASSUME Link, Edge, txState # "Idle", ~uart_wren, result = answer, answer \in Answers
  PROVE  /\ Link' /\ Reported
         /\ SameByte \/ NextByte \/ LastByte
<1>1. answer' = answer
  BY DEF Edge, Observe
<1>2. TxInv' /\ (SameByte \/ NextByte \/ LastByte)
  BY <1>1, SendingEdge DEF Link, Edge
<1>3. /\ Onto \in 0 .. N - 1 /\ Elapsed \in Nat /\ Elapsed < Bit(10) /\ cRxd \in BOOLEAN
  BY Positions DEF Link, TxInv, TxTypes
<1>4. PICK k \in 0 .. N - 1 : k = Onto
  BY <1>3
<1>5. PICK e \in Nat : e = Elapsed
  BY <1>3
<1>6. /\ \A i \in 0 .. 8 : e = Half + 3 + Bit(i) => (cRxd <=> Level(Byte(answer, k), i + 1))
      /\ e < 3 => cRxd
      /\ e = 3 => ~cRxd
      /\ e >= Half + 4 + Bit(8) => cRxd
  BY <1>4, <1>5, Seen DEF Link
<1>7. /\ TICKS \in Nat /\ TICKS >= 4 /\ Half \in Nat /\ Half >= TICKS + 2 /\ N \in Nat \ {0}
      /\ Bit(10) \in Nat /\ Bit(8) \in Nat /\ 2 * Half <= 3 * TICKS /\ Bit(10) > 10
  <2>1. Bit(0) + TICKS <= Bit(1) /\ Bit(1) + TICKS <= Bit(2) /\ Bit(2) + TICKS <= Bit(10)
    BY BitsInOrder
  <2> QED BY <2>1, Constants, Bits
<1>8. /\ SameByte => txState' # "Idle" /\ Onto' = k /\ Elapsed' = e + 1 /\ e + 1 < Bit(10)
      /\ NextByte => txState' # "Idle" /\ Onto' = k + 1 /\ Elapsed' = 0 /\ e + 1 = Bit(10)
      /\ LastByte => txState' = "Idle" /\ k = N - 1 /\ e + 1 = Bit(10)
                     /\ cReady' /\ oTxd' /\ cRxdSyncPipe' /\ cRxd'
  BY <1>4, <1>5 DEF SameByte, NextByte, LastByte
<1>9. RxTypes /\ RxEdge /\ Observe
  BY DEF Link, Edge
<1>10. \/ Receiving(e, k)
       \/ Between(k) /\ e <= 3 /\ (e = 3 => cTimer = Half - 2)
       \/ Between(k + 1) /\ e >= Half + 4 + Bit(8)
       \/ Receiving(Bit(10) + e, k - 1)
  BY <1>4, <1>5 DEF Link, Following
<1>11. CASE Receiving(e, k)
  <2>1. rxState = "ReadDataBit" => (cRxd <=> Level(Byte(answer, k), Read + 1))
    <3> SUFFICES ASSUME rxState = "ReadDataBit" PROVE cRxd <=> Level(Byte(answer, k), Read + 1)
      OBVIOUS
    <3>1. Read \in 0 .. 8 /\ ~Waiting
      BY <1>9 DEF RxTypes, Read, Waiting
    <3>2. e = Half + 3 + Bit(Read)
      BY <1>7, <1>11, <3>1, Bits DEF Receiving, Heard
    <3> QED BY <1>6, <3>1, <3>2
  <2>2. rxState = "CheckStopBit" => cRxd
    <3> SUFFICES ASSUME rxState = "CheckStopBit" PROVE cRxd
      OBVIOUS
    <3>1. Read = 8 /\ ~Waiting
      BY DEF Read, Waiting
    <3>2. e = Half + 3 + Bit(8)
      BY <1>7, <1>11, <3>1 DEF Receiving, Heard
    <3>3. cRxd <=> Level(Byte(answer, k), 8 + 1)
      BY <1>6, <3>2
    <3> QED BY <3>3 DEF Level
  <2>3. /\ RxTypes'
        /\ rxState = "CheckStopBit" => Reports(e, k)
        /\ rxState # "CheckStopBit" => Receiving(e + 1, k)' /\ ~Arrived
    BY <1>1, <1>3, <1>9, <1>11, <2>1, <2>2, ReceivingEdge
  <2>4. got = k
    BY <1>11 DEF Receiving
  <2>5. CASE rxState = "CheckStopBit"
    <3>1. e = Half + 3 + Bit(8) /\ Between(k + 1)' /\ cData' = Byte(answer, k)
      BY <2>3, <2>5 DEF Reports
    <3>2. Reported
      BY <1>7, <2>4, <3>1 DEF Reported, Between
    <3>3. CASE SameByte
      <4>1. Between(Onto + 1)' /\ Elapsed' >= Half + 4 + Bit(8)
        BY <1>7, <1>8, <3>1, <3>3 DEF Between
      <4> QED BY <1>2, <1>8, <2>3, <3>2, <3>3, <4>1 DEF Link, Following, Resting
    <3>4. CASE NextByte
      <4>1. Between(Onto)' /\ Elapsed' <= 3 /\ Elapsed' # 3
        BY <1>8, <3>1, <3>4 DEF Between
      <4> QED BY <1>2, <1>8, <2>3, <3>2, <3>4, <4>1 DEF Link, Following, Resting
    <3>5. CASE LastByte
      <4>1. Between(N)'
        BY <1>7, <1>8, <3>1, <3>5 DEF Between
      <4> QED BY <1>2, <1>8, <2>3, <3>2, <3>5, <4>1 DEF Link, Following, Resting, Quiet
    <3> QED BY <1>2, <3>3, <3>4, <3>5
  <2>6. CASE rxState # "CheckStopBit"
    <3>1. Receiving(e + 1, k)' /\ Reported
      BY <2>3, <2>6 DEF Reported
    <3>2. CASE SameByte
      <4>1. Receiving(Elapsed, Onto)'
        BY <1>8, <3>1, <3>2 DEF Receiving
      <4> QED BY <1>2, <1>8, <2>3, <3>1, <3>2, <4>1 DEF Link, Following, Resting
    <3>3. CASE NextByte
      <4>1. Onto' - 1 = k /\ Bit(10) + Elapsed' = e + 1
        BY <1>7, <1>8, <3>3
      <4>2. Receiving(Bit(10) + Elapsed, Onto - 1)'
        BY <3>1, <4>1 DEF Receiving
      <4> QED BY <1>2, <1>8, <2>3, <3>1, <3>3, <4>2 DEF Link, Following, Resting
    <3>4. CASE LastByte
      <4>1. /\ rxState' \in {"WaitToStopBit", "CheckStopBit"}
            /\ rxState' = "WaitToStopBit" => cTimer' = 0
        BY <1>7, <1>8, <2>3, <3>1, <3>4, HeardAfterStep
      <4>2. Receiving(Heard, N - 1)'
        BY <1>8, <3>1, <3>4 DEF Receiving
      <4> QED BY <1>2, <1>8, <2>3, <3>1, <3>4, <4>1, <4>2
           DEF Link, Following, Resting, LastStopBit
    <3> QED BY <1>2, <3>2, <3>3, <3>4
  <2> QED BY <2>5, <2>6
<1>12. CASE Between(k) /\ e <= 3 /\ (e = 3 => cTimer = Half - 2)
  <2>1. /\ RxTypes' /\ ~Arrived
        /\ cRxd => Between(k)' /\ cTimer' = Half - 2
        /\ ~cRxd /\ cTimer # 1 => Receiving(4, k)'
    BY <1>1, <1>3, <1>7, <1>9, <1>12, BetweenEdge
  <2>2. SameByte /\ Reported
    BY <1>2, <1>7, <1>8, <1>12, <2>1 DEF Reported
  <2>3. CASE e = 3
    <3>1. Receiving(4, k)'
      BY <1>6, <1>7, <1>12, <2>1, <2>3
    <3>2. Elapsed' = 4 /\ Onto' = k
      BY <1>8, <2>2, <2>3
    <3>3. Receiving(Elapsed, Onto)'
      BY <3>1, <3>2 DEF Receiving
    <3> QED BY <1>2, <1>8, <2>1, <2>2, <3>3 DEF Link, Following, Resting
  <2>4. CASE e < 3
    <3>1. Between(k)' /\ cTimer' = Half - 2
      BY <1>6, <2>1, <2>4
    <3>2. Between(Onto)' /\ Elapsed' <= 3
      BY <1>8, <2>2, <2>4, <3>1 DEF Between
    <3> QED BY <1>2, <1>8, <2>1, <2>2, <3>1, <3>2 DEF Link, Following, Resting
  <2> QED BY <1>12, <2>3, <2>4
<1>13. CASE Between(k + 1) /\ e >= Half + 4 + Bit(8)
  <2>0. k + 1 \in 0 .. N
    BY <1>7
  <2>1. RxTypes' /\ ~Arrived /\ (cRxd => Between(k + 1)')
    BY <1>1, <1>3, <1>7, <1>9, <1>13, <2>0, BetweenEdge
  <2>2. Between(k + 1)' /\ Reported
    BY <1>6, <1>13, <2>1 DEF Reported
  <2>3. CASE SameByte
    <3>1. Between(Onto + 1)' /\ Elapsed' >= Half + 4 + Bit(8)
      BY <1>7, <1>8, <1>13, <2>2, <2>3 DEF Between
    <3> QED BY <1>2, <1>8, <2>1, <2>2, <2>3, <3>1 DEF Link, Following, Resting
  <2>4. CASE NextByte
    <3>1. Between(Onto)' /\ Elapsed' <= 3 /\ Elapsed' # 3
      BY <1>8, <2>2, <2>4 DEF Between
    <3> QED BY <1>2, <1>8, <2>1, <2>2, <2>4, <3>1 DEF Link, Following, Resting
  <2>5. CASE LastByte
    <3>1. Between(N)'
      BY <1>7, <1>8, <2>2, <2>5 DEF Between
    <3> QED BY <1>2, <1>8, <2>1, <2>2, <2>5, <3>1 DEF Link, Following, Resting, Quiet
  <2> QED BY <1>2, <2>3, <2>4, <2>5
<1>14. CASE Receiving(Bit(10) + e, k - 1)
  <2>1. got = k - 1 /\ k - 1 \in 0 .. N - 1
    <3>1. got = k - 1 /\ got \in 0 .. N
      BY <1>9, <1>14 DEF RxTypes, Receiving
    <3> QED BY <1>7, <3>1
  <2>2. PICK p \in Nat : p = Bit(10) + e
    BY <1>7
  <2>3. PICK n \in 0 .. N - 1 : n = k - 1
    BY <2>1
  <2>4. Receiving(p, n) /\ p >= Bit(10)
    BY <1>7, <1>14, <2>2, <2>3
  <2>5. rxState \in {"WaitToStopBit", "CheckStopBit"} /\ p <= Bit(10) + 1
    BY <1>9, <2>4, HeardAfter
  <2>6. e <= 1 /\ cRxd
    BY <1>6, <1>7, <2>2, <2>5
  <2>7. SameByte
    BY <1>2, <1>7, <1>8, <2>6
  <2>8. /\ RxTypes'
        /\ rxState = "CheckStopBit" => Reports(p, n)
        /\ rxState # "CheckStopBit" => Receiving(p + 1, n)' /\ ~Arrived
    BY <1>1, <1>3, <1>9, <2>4, <2>5, <2>6, ReceivingEdge
  <2>9. CASE rxState = "CheckStopBit"
    <3>1. Between(n + 1)' /\ cData' = Byte(answer, n) /\ n + 1 = k
      BY <2>3, <2>8, <2>9 DEF Reports
    <3>2. Reported
      BY <1>7, <2>1, <2>3, <3>1 DEF Reported, Between
    <3>3. Between(Onto)' /\ Elapsed' <= 3 /\ Elapsed' # 3
      BY <1>8, <2>6, <2>7, <3>1 DEF Between
    <3> QED BY <1>2, <1>8, <2>7, <2>8, <3>2, <3>3 DEF Link, Following, Resting
  <2>10. CASE rxState # "CheckStopBit"
    <3>1. Receiving(p + 1, n)' /\ Reported
      BY <2>8, <2>10 DEF Reported
    <3>2. Bit(10) + Elapsed' = p + 1 /\ Onto' - 1 = n
      BY <1>7, <1>8, <2>2, <2>3, <2>7
    <3>3. Receiving(Bit(10) + Elapsed, Onto - 1)'
      BY <3>1, <3>2 DEF Receiving
    <3> QED BY <1>2, <1>8, <2>7, <2>8, <3>1, <3>3 DEF Link, Following, Resting
  <2> QED BY <2>9, <2>10
<1> QED BY <1>2, <1>10, <1>11, <1>12, <1>13, <1>14

(* The transmitter rests on.                                                   *)
LEMMA RestingEdge ==
  ASSUME TxInv, Edge, txState = "Idle", ~uart_wren
  PROVE  /\ TxInv' /\ txState' = "Idle" /\ cReady' /\ oTxd'
         /\ cRxdSyncPipe' = oTxd /\ cRxd' = cRxdSyncPipe
<1>1. /\ TxTypes /\ InStep /\ cnt = 0 /\ cBitTimer = 0 /\ ~uart_tx_go
      /\ TICKS \in Nat /\ TICKS >= 4 /\ N \in Nat \ {0}
  BY Constants DEF TxInv, InStep, uart_tx_go
<1>2. /\ cReady' = TRUE /\ txState' = "Idle" /\ cBuffer' = cBuffer /\ cBitIndex' = cBitIndex
      /\ oTxd' = TRUE
  BY <1>1 DEF Edge, TxEdge, TxIdle, TxStartBit, TxDataBit, TxStopBit
<1>3. cnt' = 0
  BY <1>1 DEF Edge, QueueEdge, NextCnt
<1>4. cBitTimer' = 0 /\ ~cBitSent' /\ cBitSent' \in BOOLEAN
  <2>1. 0 # TICKS - 2
    BY <1>1
  <2>2. cBitTimer' = 0 /\ cBitSent' = FALSE
    BY <1>1, <2>1 DEF Edge, TxEdge, BitTimer
  <2> QED BY <2>2
<1>5. cRxdSyncPipe' = oTxd /\ cRxd' = cRxdSyncPipe
  BY DEF Edge
<1>6. TxTypes'
  BY <1>1, <1>2, <1>3, <1>4, <1>5 DEF TxTypes
<1>7. InStep' /\ Buffered' /\ Levels'
  BY <1>1, <1>2, <1>3, <1>4 DEF InStep, Buffered, Levels
<1> QED BY <1>2, <1>5, <1>6, <1>7 DEF TxInv

(* While the transmitter rests the receiver comes to rest.                     *)
LEMMA RestingStep ==
  ASSUME Link, Edge, txState = "Idle", ~uart_wren, answer \in Answers
  PROVE  /\ Link' /\ Reported /\ txState' = "Idle"
         /\ IF Quiet THEN Quiet' ELSE Left' <= Left - 1
<1>1. answer' = answer /\ RxEdge /\ Observe
  BY DEF Edge, Observe
<1>2. /\ TxInv' /\ txState' = "Idle" /\ cReady' /\ oTxd'
      /\ cRxdSyncPipe' = oTxd /\ cRxd' = cRxdSyncPipe
  BY RestingEdge DEF Link
<1>3. /\ RxTypes /\ oTxd \in BOOLEAN /\ cRxdSyncPipe \in BOOLEAN /\ cRxd \in BOOLEAN
      /\ N \in Nat \ {0} /\ TICKS \in Nat /\ TICKS >= 4
  BY Constants DEF Link, TxInv, TxTypes
<1>4. Following'
  BY <1>2 DEF Following
<1>5. CASE Quiet
  <2>1. Between(N) /\ N \in 0 .. N
    BY <1>3, <1>5 DEF Quiet
  <2>2. RxTypes' /\ ~Arrived /\ Between(N)'
    BY <1>1, <1>3, <1>5, <2>1, BetweenEdge DEF Quiet
  <2>3. Quiet'
    BY <1>2, <1>5, <2>2 DEF Quiet
  <2> QED BY <1>2, <1>4, <1>5, <2>2, <2>3 DEF Link, Resting, Reported
<1>6. CASE LastStopBit
  <2>1. PICK p : p = Heard
    OBVIOUS
  <2>2. PICK n \in 0 .. N - 1 : n = N - 1
    BY <1>3
  <2>3. Receiving(p, n) /\ rxState # "ReadDataBit" /\ cRxd
    BY <1>6, <2>1, <2>2 DEF LastStopBit
  <2>4. /\ RxTypes'
        /\ rxState = "CheckStopBit" => Reports(p, n)
        /\ rxState # "CheckStopBit" => Receiving(p + 1, n)' /\ ~Arrived
    BY <1>1, <1>3, <2>3, ReceivingEdge
  <2>5. got = n /\ got < N
    BY <1>3, <2>2, <2>3 DEF Receiving
  <2>6. oTxd /\ cRxdSyncPipe /\ ~Quiet
    BY <1>6 DEF LastStopBit, Quiet, Between
  <2>7. CASE rxState = "CheckStopBit"
    <3>1. Between(n + 1)' /\ cData' = Byte(answer, n) /\ n + 1 = N
      BY <1>3, <2>2, <2>4, <2>7 DEF Reports
    <3>2. Quiet'
      BY <1>2, <2>6, <3>1 DEF Quiet, Between
    <3>3. Reported
      BY <2>5, <3>1, <1>3, <2>2 DEF Reported, Between
    <3>4. Left = 1 /\ Left' = 0
      BY <1>2, <2>6, <2>7, <3>2 DEF Left
    <3> QED BY <1>2, <1>4, <2>4, <2>6, <3>2, <3>3, <3>4 DEF Link, Resting
  <2>8. CASE rxState = "WaitToStopBit" /\ cTimer = 0
    <3>1. cTimerIsZero
      BY <2>3, <2>8 DEF Receiving, Waiting
    <3>2. rxState' = "CheckStopBit"
      BY <1>1, <2>8, <3>1
           DEF RxEdge, RxErrorRecovery, RxIdle, RxReadDataBit, RxCheckStopBit,
         RxWait
    <3>3. Receiving(p + 1, n)' /\ Reported
      BY <2>4, <2>8 DEF Reported
    <3>4. Receiving(Heard, N - 1)'
      BY <2>2, <3>3 DEF Receiving
    <3>5. LastStopBit' /\ ~Quiet'
      BY <1>2, <2>6, <3>2, <3>4 DEF LastStopBit, Quiet, Between
    <3>6. Left = 2 /\ Left' = 1
      BY <1>2, <2>6, <2>8, <3>2, <3>5 DEF Left
    <3> QED BY <1>2, <1>4, <2>4, <2>6, <3>3, <3>5, <3>6 DEF Link, Resting
  <2> QED BY <1>6, <2>7, <2>8 DEF LastStopBit
<1>7. CASE AfterReset
  <2>1. /\ oTxd /\ (cRxd => cRxdSyncPipe) /\ (cRxdSyncPipe => cReady)
        /\ rxState = "ErrorRecovery" /\ cBitCounter = 0 /\ got = N /\ ~cReceived /\ ~Quiet
    BY <1>7 DEF AfterReset, Quiet, Between
  <2>2. /\ rxState' = IF cRxd THEN "Idle" ELSE "ErrorRecovery"
        /\ cTimer' = cTimer /\ cBitCounter' = cBitCounter /\ cData' = cData
        /\ cReceived' = cReceived
    BY <1>1, <2>1 DEF RxEdge, RxErrorRecovery, RxIdle, RxReadDataBit, RxCheckStopBit, RxWait
  <2>3. ~Arrived /\ got' = N /\ Reported
    BY <1>1, <2>1, <2>2 DEF Arrived, Observe, Reported
  <2>4. RxTypes'
    <3>1. cTimerIsZero' \in BOOLEAN
      BY <1>1 DEF RxEdge
    <3> QED BY <1>3, <2>1, <2>2, <2>3, <3>1 DEF RxTypes
  <2>5. CASE cRxd
    <3>1. Quiet'
      BY <1>2, <2>1, <2>2, <2>3, <2>5 DEF Quiet, Between
    <3>2. Left = 1 /\ Left' = 0
      BY <1>2, <2>1, <2>5, <3>1 DEF Left
    <3> QED BY <1>2, <1>4, <2>1, <2>3, <2>4, <3>1, <3>2 DEF Link, Resting
  <2>6. CASE ~cRxd
    <3>1. AfterReset' /\ ~Quiet'
      BY <1>2, <2>1, <2>2, <2>3, <2>6 DEF AfterReset, Quiet, Between
    <3>2. Left' <= Left - 1
      BY <1>2, <1>3, <2>1, <2>2, <2>6, <3>1 DEF Left
    <3> QED BY <1>2, <1>4, <2>1, <2>3, <2>4, <3>1, <3>2 DEF Link, Resting
  <2> QED BY <2>5, <2>6
<1> QED BY <1>5, <1>6, <1>7 DEF Link, Resting

(* The queue starts while the link is quiet.                                   *)
LEMMA StartingStep ==
  ASSUME Link, Edge, Quiet, uart_wren
  PROVE  /\ Link' /\ ~Arrived /\ answer' = result /\ got' = 0 /\ heard' = heard
         /\ Left' = Bytes(N) + 2 /\ Position' = 0
<1>1. /\ TxTypes /\ InStep /\ RxTypes /\ cnt = 0 /\ cBitTimer = 0 /\ uart_tx_go /\ cBitIndex = 0
      /\ TICKS \in Nat /\ TICKS >= 4 /\ N \in Nat \ {0} /\ Half \in Nat /\ Half >= TICKS + 2
      /\ oTxd /\ cRxdSyncPipe /\ cRxd /\ oTxd \in BOOLEAN /\ cRxdSyncPipe \in BOOLEAN
  BY Constants DEF Link, TxInv, InStep, TxTypes, uart_tx_go, Quiet
<1>2. /\ cReady' = FALSE /\ txState' = "StartBit" /\ cBuffer' = Byte(result, 0)
      /\ cBitIndex' = cBitIndex /\ oTxd' = TRUE
  BY <1>1 DEF Edge, TxEdge, TxIdle, TxStartBit, TxDataBit, TxStopBit, Quiet, sel
<1>3. cnt' = 1
  BY <1>1 DEF Edge, QueueEdge, NextCnt
<1>4. cBitTimer' = 0 /\ ~cBitSent' /\ cBitSent' \in BOOLEAN
  <2>1. 0 # TICKS - 2
    BY <1>1
  <2>2. cBitTimer' = 0 /\ cBitSent' = FALSE
    BY <1>1, <2>1 DEF Edge, TxEdge, BitTimer, Quiet
  <2> QED BY <2>2
<1>5. cRxdSyncPipe' = oTxd /\ cRxd' = cRxdSyncPipe
  BY DEF Edge
<1>6. /\ rxState = "Idle" /\ cReceived' = FALSE /\ cTimer' = Half - 2 /\ rxState' = "Idle"
      /\ cBitCounter' = cBitCounter /\ cData' = cData /\ cBitCounter = 0
      /\ cTimerIsZero' \in BOOLEAN
  BY <1>1 DEF Edge, RxEdge, RxErrorRecovery, RxIdle, RxReadDataBit, RxCheckStopBit, RxWait,
     DelayToFirstBit, Half, Quiet, Between
<1>7. ~Arrived /\ answer' = result /\ got' = 0 /\ heard' = heard
  BY <1>6 DEF Edge, Observe, Arrived
<1>8. Queued' = 1 /\ Onto' = 0 /\ Sent' = 0 /\ Elapsed' = 0
  <2>1. Queued' = 1 /\ Sent' = 0
    BY <1>2, <1>3 DEF Queued, Sent
  <2>2. Onto' = 0
    BY <1>2, <2>1 DEF Onto
  <2>3. Elapsed' = 0
    BY <1>4, <2>1, Bits DEF Elapsed
  <2> QED BY <2>1, <2>2, <2>3
<1>9. TxTypes'
  <2>1. 1 \in 0 .. N /\ 0 \in 0 .. TICKS - 1 /\ 0 # TICKS - 1
    BY <1>1
  <2> QED BY <1>1, <1>2, <1>3, <1>4, <1>5, <2>1 DEF TxTypes
<1>10. InStep' /\ Buffered'
  BY <1>1, <1>2, <1>7, <1>8 DEF InStep, Buffered
<1>11. Levels'
  <2>1. ~(cBitTimer' >= 1) /\ ~(cBitTimer' >= 2) /\ ~(cBitTimer' >= 3) /\ Sent' - 1 = 0 - 1
    BY <1>4, <1>8
  <2>2. \A b : Level(b, 0 - 1)
    BY DEF Level
  <2>3. oTxd' /\ cRxdSyncPipe' /\ cRxd'
    BY <1>1, <1>2, <1>5
  <2> QED BY <2>1, <2>2, <2>3 DEF Levels, Delayed
<1>12. RxTypes'
  <2>1. Half - 2 \in Nat /\ 0 \in 0 .. N
    BY <1>1
  <2> QED BY <1>1, <1>6, <1>7, <2>1 DEF RxTypes
<1>13. Following' /\ Resting'
  <2>1. Between(Onto)'
    BY <1>6, <1>7, <1>8 DEF Between
  <2> QED BY <1>2, <1>8, <2>1 DEF Following, Resting
<1>14. Left' = Bytes(N) + 2
  <2>1. Left' = Bytes(N - 0) - 0 + 2
    BY <1>2, <1>8 DEF Left
  <2>2. N - 0 = N /\ Bytes(N) \in Nat
    BY <1>1, ManyBytes
  <2> QED BY <2>1, <2>2
<1>15. Position' = 0
  <2>1. Position' = Bytes(0) + 0
    BY <1>8 DEF Position
  <2> QED BY <2>1, ManyBytes
<1> QED BY <1>7, <1>9, <1>10, <1>11, <1>12, <1>13, <1>14, <1>15 DEF Link, TxInv

-----------------------------------------------------------------------------
(* How long the link takes.                                                    *)

(* The link is quiet when nothing is left, and only then.                      *)
LEMMA LeftOf ==
  ASSUME Link
  PROVE  Left \in Nat /\ (Left = 0 <=> Quiet)
<1>1. CASE txState # "Idle"
  <2>1. Onto \in 0 .. N - 1 /\ Elapsed \in Nat /\ Elapsed < Bit(10)
    BY <1>1, Positions DEF Link, TxInv
  <2>2. N \in Nat \ {0} /\ Bit(10) \in Nat
    BY Constants, Bits
  <2>3. N - Onto \in Nat /\ 1 <= N - Onto
    BY <2>1, <2>2
  <2>4. Bytes(0 + 1) = Bytes(0) + Bit(10) /\ Bytes(0) = 0
    BY ManyBytes
  <2>5. Bytes(1) <= Bytes(N - Onto) /\ Bytes(N - Onto) \in Nat
    BY <2>3, ManyBytes, BytesInOrder
  <2>6. Left = Bytes(N - Onto) - Elapsed + 2 /\ ~Quiet
    BY <1>1 DEF Left, Quiet
  <2>7. Bytes(1) = Bit(10)
    BY <2>2, <2>4
  <2> QED BY <2>1, <2>2, <2>5, <2>6, <2>7
<1>2. CASE txState = "Idle"
  <2>1. Quiet \/ LastStopBit \/ AfterReset
    BY <1>2 DEF Link, Resting
  <2>2. CASE Quiet
    BY <1>2, <2>2 DEF Left
  <2>3. CASE LastStopBit
    <3>1. ~Quiet /\ rxState \in {"WaitToStopBit", "CheckStopBit"}
      BY <2>3 DEF LastStopBit, Quiet, Between
    <3> QED BY <1>2, <3>1 DEF Left
  <2>4. CASE AfterReset
    <3>1. ~Quiet /\ rxState = "ErrorRecovery"
      BY <2>4 DEF AfterReset, Quiet, Between
    <3> QED BY <1>2, <3>1 DEF Left
  <2> QED BY <2>1, <2>2, <2>3, <2>4
<1> QED BY <1>1, <1>2

(* The same of the next state, as far as it is needed.                         *)
LEMMA LeftOfNext ==
  (Link => Left \in Nat)'
<1>1. Link => Left \in Nat
  BY LeftOf
<1> QED BY <1>1, PTL

\* The word on the line is an edge further, or out.
Advanced == /\ Position \in Nat
            /\ IF txState' = "Idle" THEN Position + 1 = Bytes(N)
                                    ELSE /\ Position' = Position + 1
                                         /\ Position + 1 < Bytes(N)

(* So moves a byte, or the next one follows.                                   *)
LEMMA Advances ==
  ASSUME Link, txState # "Idle", SameByte \/ NextByte \/ LastByte
  PROVE  Advanced
<1>1. Onto \in 0 .. N - 1 /\ Elapsed \in Nat /\ Elapsed < Bit(10)
  BY Positions DEF Link, TxInv
<1>2. N \in Nat \ {0} /\ Bit(10) \in Nat
  BY Constants, Bits
<1>3. PICK k \in Nat : k = Onto /\ k < N
  BY <1>1, <1>2
<1>4. Bytes(k) \in Nat /\ Bytes(k + 1) = Bytes(k) + Bit(10)
  BY ManyBytes
<1>5. Position = Bytes(k) + Elapsed /\ Bytes(k + 1) <= Bytes(N) /\ Bytes(N) \in Nat
  <2>1. k + 1 \in Nat /\ k + 1 <= N
    BY <1>2, <1>3
  <2> QED BY <1>2, <1>3, <2>1, ManyBytes, BytesInOrder DEF Position
<1>6. CASE SameByte
  <2>1. Position' = Bytes(k) + (Elapsed + 1) /\ txState' # "Idle" /\ Elapsed + 1 < Bit(10)
    BY <1>3, <1>6 DEF SameByte, Position
  <2> QED BY <1>1, <1>2, <1>4, <1>5, <2>1 DEF Advanced
<1>7. CASE NextByte
  <2>1. Position' = Bytes(k + 1) + 0 /\ txState' # "Idle" /\ Elapsed + 1 = Bit(10)
    BY <1>3, <1>7 DEF NextByte, Position
  <2>2. Bytes(k + 1) + Bit(10) <= Bytes(N)
    <3>1. k + 1 < N
      BY <1>3, <1>7 DEF NextByte
    <3>2. k + 1 \in Nat /\ k + 2 \in Nat /\ k + 2 <= N /\ k + 2 = (k + 1) + 1
      BY <1>2, <3>1
    <3>3. Bytes(k + 2) = Bytes(k + 1) + Bit(10)
      BY <3>2, ManyBytes
    <3> QED BY <1>2, <3>2, <3>3, BytesInOrder
  <2>3. Bit(10) > 0
    <3>1. Bit(0) + TICKS <= Bit(10) /\ Bit(0) = 0
      BY BitsInOrder, Bits
    <3> QED BY <1>2, <3>1, Constants
  <2> QED BY <1>1, <1>2, <1>4, <1>5, <2>1, <2>2, <2>3 DEF Advanced
<1>8. CASE LastByte
  <2>1. txState' = "Idle" /\ k = N - 1 /\ Elapsed + 1 = Bit(10)
    BY <1>3, <1>8 DEF LastByte
  <2>2. k + 1 = N
    BY <1>2, <2>1
  <2> QED BY <1>1, <1>2, <1>4, <1>5, <2>1, <2>2 DEF Advanced
<1> QED BY <1>6, <1>7, <1>8

(* Without a new word the link comes an edge nearer to being quiet.            *)
LEMMA LinkStep ==
  ASSUME Link, Edge, ~uart_wren, answer \in Answers, txState # "Idle" => result = answer
  PROVE  /\ Link' /\ Reported /\ (txState = "Idle" => txState' = "Idle")
         /\ IF Quiet THEN Quiet' ELSE Left' <= Left - 1
         /\ txState # "Idle" => Advanced
<1>1. CASE txState = "Idle"
  BY <1>1, RestingStep
<1>2. CASE txState # "Idle"
  <2>1. Link' /\ Reported /\ (SameByte \/ NextByte \/ LastByte)
    BY <1>2, SendingStep
  <2>2. Onto \in 0 .. N - 1 /\ Elapsed \in Nat /\ Elapsed < Bit(10)
    BY <1>2, Positions DEF Link, TxInv
  <2>3. N \in Nat \ {0} /\ Bit(10) \in Nat
    BY Constants, Bits
  <2>4. Left = Bytes(N - Onto) - Elapsed + 2 /\ ~Quiet
    BY <1>2 DEF Left, Quiet
  <2>5. Bytes(N - Onto) = Bytes(N - (Onto + 1)) + Bit(10) /\ Bytes(N - (Onto + 1)) \in Nat
    <3>1. N - (Onto + 1) \in Nat /\ N - (Onto + 1) + 1 = N - Onto
      BY <2>2, <2>3
    <3>2. \A m, l \in Nat : l = m + 1 => Bytes(l) = Bytes(m) + Bit(10) /\ Bytes(m) \in Nat
      BY ManyBytes
    <3>3. N - Onto \in Nat
      BY <3>1
    <3> QED BY <3>1, <3>2, <3>3
  <2>0. Advanced
    BY <1>2, <2>1, Advances
  <2>6. CASE SameByte
    <3>1. Left' = Bytes(N - Onto) - (Elapsed + 1) + 2
      BY <2>6 DEF SameByte, Left
    <3> QED BY <1>2, <2>0, <2>1, <2>2, <2>3, <2>4, <2>5, <3>1
  <2>7. CASE NextByte
    <3>1. Left' = Bytes(N - (Onto + 1)) - 0 + 2 /\ Elapsed + 1 = Bit(10)
      BY <2>7 DEF NextByte, Left
    <3> QED BY <1>2, <2>0, <2>1, <2>2, <2>3, <2>4, <2>5, <3>1
  <2>8. CASE LastByte
    <3>1. /\ txState' = "Idle" /\ cRxd' /\ Elapsed + 1 = Bit(10)
      BY <2>8 DEF LastByte
    <3>2. Left' \in 0 .. 2
      BY <3>1 DEF Left
    <3> QED BY <1>2, <2>0, <2>1, <2>2, <2>3, <2>4, <2>5, <3>1, <3>2
  <2> QED BY <2>1, <2>6, <2>7, <2>8
<1> QED BY <1>1, <1>2

-----------------------------------------------------------------------------
(* The host.                                                                   *)

(* The moments begin after UART_SEND and go on with every poll.                *)
LEMMA Sampled ==
  /\ CorePolls["UART_SEND"] \subseteq Moments
  /\ \A m \in Moments, p \in CorePolls["UART_READY"] : m + p + 3 \in Moments
<1>1. CorePolls["UART_SEND"] \subseteq Nat /\ CorePolls["UART_READY"] \subseteq Nat
  BY UartAssumption
<1>2. CorePolls["UART_SEND"] \subseteq Moments
  BY <1>1 DEF Moments, Sampling
<1>3. ASSUME NEW m \in Moments, NEW p \in CorePolls["UART_READY"]
      PROVE  m + p + 3 \in Moments
  <2>1. m \in Nat /\ p \in Nat /\ m + p + 3 \in Nat
    BY <1>1, <1>3 DEF Moments
  <2>2. ASSUME NEW S \in SUBSET Nat, Sampling(S) PROVE m + p + 3 \in S
    <3>1. m \in S
      BY <1>3, <2>2 DEF Moments
    <3> QED BY <1>3, <2>2, <3>1 DEF Sampling
  <2> QED BY <2>1, <2>2 DEF Moments
<1> QED BY <1>2, <1>3

(* READY is up in the first edge of a stop bit and, when the queue is empty,   *)
(* until its end.                                                              *)
LEMMA EarlyReady ==
  ASSUME TxTypes, InStep, txState # "Idle", cReady, Position \notin ReadyTooSoon
  PROVE  Bytes(N) <= Position + 2
<1>1. /\ txState = "StopBit" /\ cnt # N /\ (cnt = 0 \/ cBitTimer = 0)
      /\ Sent = 9 /\ Onto = Queued - 1
  BY DEF TxTypes, InStep, Sent, Onto
<1>2. /\ Onto \in 0 .. N - 1 /\ Elapsed \in Nat /\ Elapsed < Bit(10) /\ Bit(9) \in Nat
      /\ Elapsed = Bit(9) + cBitTimer /\ cBitTimer \in 0 .. TICKS - 1 /\ cnt \in 0 .. N
  BY <1>1, Positions DEF TxTypes
<1>3. N \in Nat \ {0} /\ Bit(10) \in Nat /\ N - 1 \in Nat /\ (N - 1) + 1 = N
  BY Constants, Bits
<1>4. CASE cnt = 0
  <2>1. Onto = N - 1
    BY <1>1, <1>4 DEF Queued
  <2>2. Bytes(N) = Bytes(N - 1) + Bit(10) /\ Bytes(N - 1) \in Nat
    BY <1>3, ManyBytes
  <2>3. Position = Bytes(N - 1) + Bit(9) + cBitTimer
    BY <1>2, <2>1, <2>2 DEF Position
  <2>4. Position \notin Bytes(N - 1) + Bit(9) .. Bytes(N) - 3
    BY DEF ReadyTooSoon
  <2> QED BY <1>2, <1>3, <2>2, <2>3, <2>4
<1>5. CASE cnt # 0
  <2>1. Onto \in 0 .. N - 2 /\ cBitTimer = 0
    BY <1>1, <1>2, <1>3, <1>5 DEF Queued
  <2>2. Bytes(Onto) \in Nat
    BY <1>2, ManyBytes
  <2>3. Position = Bytes(Onto) + Bit(9)
    BY <1>2, <2>1, <2>2 DEF Position
  <2>4. Position \in ReadyTooSoon
    BY <2>1, <2>3 DEF ReadyTooSoon
  <2> QED BY <2>4
<1> QED BY <1>4, <1>5

(* The core samples READY at its moments only, and so does not see it before   *)
(* the end of the word.                                                        *)
LEMMA OnTimeStep ==
  ASSUME IInv, HostEdge, Registers,
         ~uart_wren => IF txState = "Idle" THEN txState' = "Idle" ELSE Advanced,
         uart_wren  => Position' = 0
  PROVE  OnTime'
<1> SUFFICES ASSUME PollsMissReady, polls' = CorePolls PROVE OnTime'
  BY DEF OnTime
<1>0. ~uart_wren => IF txState = "Idle" THEN txState' = "Idle" ELSE Advanced
  OBVIOUS
<1>1. /\ HostTypes /\ Accesses /\ Spaced /\ TxTypes /\ InStep
      /\ polls = CorePolls /\ gap \in Nat
      /\ pc = "RESULT" => txState = "Idle"
      /\ uart_wren => gap \in Moments
      /\ pc = "UART_READY" /\ txState # "Idle" =>
            /\ Position + ToSample \in Moments
            /\ cyc /\ mux_ack /\ o_cpu_rdt => Bytes(N) <= Position + 1
  BY DEF IInv, HostTypes, HostEdge, OnTime
<1>2. /\ mux_ack' = (cyc /\ ~mux_ack) /\ ack_int' = cyc
      /\ uart_wren' = (adr = "UART_SEND" /\ cyc /\ ack_int)
      /\ o_cpu_rdt' = IF adr = "UART_READY" THEN cReady ELSE o_cpu_rdt
      /\ cyc \in BOOLEAN /\ mux_ack \in BOOLEAN
  BY <1>1 DEF HostEdge, Registers, HostTypes
<1>3. uart_wren => txState = "Idle" /\ pc = "UART_READY" /\ ~cyc
  BY <1>1 DEF Accesses, Spaced, Quiet
<1>4. pc \in {"UART_DATA", "UART_SEND"} => ~uart_wren /\ txState = "Idle" /\ txState' = "Idle"
  BY <1>1, <1>3 DEF Spaced, Quiet
<1>5. pc = "RESULT" => ~uart_wren /\ txState' = "Idle"
  BY <1>1, <1>3
\* A sampling moment that lies ahead stays the same moment.
<1>6. ASSUME pc = "UART_READY", txState' # "Idle"
      PROVE  IF uart_wren THEN Position' = 0 /\ ~cyc /\ gap \in Moments
             ELSE /\ Position' = Position + 1 /\ Position + 1 < Bytes(N)
                  /\ Position \in Nat /\ Position + ToSample \in Moments
  BY <1>1, <1>3, <1>6 DEF Advanced
<1>7. CASE Compute
  <2>1. ~cyc /\ gap > 0 /\ gap' = gap - 1 /\ pc' = pc /\ ~cyc' /\ ~uart_wren'
    BY <1>2, <1>7 DEF Compute
  <2>2. ASSUME pc' = "UART_READY", txState' # "Idle"
        PROVE  Position' + ToSample' \in Moments
    <3>1. ToSample = gap + 1 /\ ToSample' = gap
      BY <1>1, <2>1 DEF ToSample
    <3>2. Position' + ToSample' = IF uart_wren THEN gap ELSE Position + ToSample
      BY <1>1, <1>6, <2>1, <2>2, <3>1
    <3> QED BY <1>6, <2>1, <2>2, <3>2
  <2> QED BY <1>5, <2>1, <2>2 DEF OnTime
<1>8. CASE Request
  <2>1. ~cyc /\ gap = 0 /\ pc' = pc /\ cyc' /\ ~mux_ack' /\ ~uart_wren'
    BY <1>2, <1>8 DEF Request
  <2>2. ASSUME pc' = "UART_READY", txState' # "Idle"
        PROVE  Position' + ToSample' \in Moments
    <3>1. ToSample = 1 /\ ToSample' = 0
      BY <2>1 DEF ToSample
    <3>2. Position' + ToSample' = IF uart_wren THEN gap ELSE Position + ToSample
      BY <1>6, <2>1, <2>2, <3>1
    <3> QED BY <1>6, <2>1, <2>2, <3>2
  <2> QED BY <1>5, <2>1, <2>2 DEF OnTime
<1>9. CASE AwaitAck
  <2>1. /\ cyc /\ ~mux_ack /\ pc' = pc /\ adr = pc /\ cyc' = cyc
        /\ ~ack_int /\ mux_ack' = TRUE /\ uart_wren' = FALSE
    <3>1. cyc /\ ~mux_ack /\ pc' = pc /\ adr = pc /\ cyc' = cyc /\ ~ack_int
      BY <1>1, <1>9 DEF AwaitAck, Accesses
    <3> QED BY <1>2, <3>1
  <2>2. ASSUME pc' = "UART_READY", txState' # "Idle"
        PROVE  /\ Position' + ToSample' \in Moments
               /\ o_cpu_rdt' => Bytes(N) <= Position' + 1
    <3>1. ToSample = 0 /\ ToSample' = 0 - 1 /\ ~uart_wren
      BY <1>3, <2>1 DEF ToSample
    <3>2. Position' = Position + 1 /\ Position \in Nat /\ Position \in Moments
      BY <1>6, <2>1, <2>2, <3>1
    <3>3. Position' + ToSample' = Position
      BY <3>1, <3>2
    <3>4. o_cpu_rdt' = cReady
      BY <1>2, <2>1, <2>2
    <3>5. Position \notin ReadyTooSoon
      BY <3>2 DEF PollsMissReady
    <3>6. cReady => Bytes(N) <= Position + 2
      BY <1>0, <1>1, <2>2, <3>1, <3>5, EarlyReady
    <3>7. o_cpu_rdt' => Bytes(N) <= Position' + 1
      <4>1. Position + 2 = Position' + 1
        BY <3>2
      <4> QED BY <3>4, <3>6, <4>1
    <3> QED BY <3>2, <3>3, <3>7
  <2> QED BY <1>5, <2>1, <2>2 DEF OnTime
<1>10. CASE Return
  <2>1. /\ cyc /\ mux_ack /\ ~cyc' /\ pc' = NextAccess(pc) /\ adr = pc /\ ~uart_wren
        /\ gap' \in IF pc' = "RESULT" THEN Waits ELSE polls[pc]
        /\ pc \in {"UART_DATA", "UART_SEND", "UART_READY"}
    BY <1>1, <1>3, <1>10 DEF Return, Accesses, HostTypes
  <2>2. CASE pc \in {"UART_DATA", "UART_SEND"}
    <3>1. txState' = "Idle" /\ pc' # "RESULT"
      BY <1>4, <2>1, <2>2 DEF NextAccess
    <3>2. uart_wren' => pc = "UART_SEND" /\ pc' = "UART_READY"
      BY <1>2, <2>1, <2>2 DEF NextAccess
    <3>3. uart_wren' => gap' \in Moments
      BY <1>1, <2>1, <3>2, Sampled
    <3> QED BY <3>1, <3>3 DEF OnTime
  <2>3. CASE pc = "UART_READY"
    <3>1. ~uart_wren' /\ pc' = (IF o_cpu_rdt THEN "RESULT" ELSE "UART_READY")
      BY <1>2, <2>1, <2>3 DEF NextAccess
    <3>2. CASE txState' = "Idle"
      BY <3>1, <3>2 DEF OnTime
    <3>3. CASE txState' # "Idle"
      <4>1. /\ Position' = Position + 1 /\ Position \in Nat /\ Position + ToSample \in Moments
            /\ ToSample = 0 - 1 /\ ToSample' = gap' + 1 /\ Position + 1 < Bytes(N)
        BY <1>6, <2>1, <2>3, <3>3 DEF ToSample
      <4>2. txState # "Idle"
        BY <1>4, <2>1, <2>3, <3>3, <1>0
      <4>3. o_cpu_rdt => Bytes(N) <= Position + 1
        BY <1>1, <2>1, <2>3, <4>2
      <4>4. ~o_cpu_rdt
        BY <4>1, <4>3, Constants, ManyBytes
      <4>5. pc' = "UART_READY" /\ gap' \in CorePolls["UART_READY"]
        BY <1>1, <2>1, <2>3, <3>1, <4>4
      <4>6. Position' + ToSample' \in Moments
        <5>1. gap' \in Nat
          BY <4>5, UartAssumption
        <5>2. Position + ToSample + gap' + 3 \in Moments
          BY <4>1, <4>5, Sampled
        <5>3. Position' + ToSample' = Position + ToSample + gap' + 3
          BY <4>1, <5>1
        <5> QED BY <5>2, <5>3
      <4> QED BY <2>1, <3>1, <4>5, <4>6 DEF OnTime
    <3> QED BY <3>2, <3>3
  <2> QED BY <2>1, <2>2, <2>3
<1>11. CASE NewResult
  <2>1. pc' = "UART_DATA" /\ ~cyc /\ ~uart_wren'
    BY <1>2, <1>11 DEF NewResult
  <2> QED BY <2>1 DEF OnTime
<1> QED BY <1>7, <1>8, <1>9, <1>10, <1>11 DEF HostEdge

(* The firmware keeps its distance: uart_send returns at most a queue's        *)
(* length before the link is quiet, and the next result comes no earlier       *)
(* than that.                                                                  *)
LEMMA HostStep ==
  ASSUME WaitsLongEnough \/ CoreWaits, OnTime', IInv, HostEdge, Registers, QueueEdge, Observe, Left' \in Nat,
         ~uart_wren => /\ txState = "Idle" => txState' = "Idle"
                       /\ IF Quiet THEN Quiet' ELSE Left' <= Left - 1,
         uart_wren  => Left' = Bytes(N) + 2
  PROVE  HostTypes' /\ Accesses' /\ Spaced'
<1>1. HostTypes /\ Accesses /\ Spaced /\ Link
  BY DEF IInv, Link, TxInv
<1>2. Left \in Nat /\ (Left = 0 <=> Quiet)
  BY <1>1, LeftOf
<1>3. /\ mux_ack' = (cyc /\ ~mux_ack) /\ polls' = polls /\ ack_int' = cyc
      /\ uart_wren' = (adr = "UART_SEND" /\ cyc /\ ack_int)
      /\ answer' = IF uart_wren THEN result ELSE answer
      /\ gap \in Nat /\ Bytes(N) \in Nat /\ cyc \in BOOLEAN /\ mux_ack \in BOOLEAN
  BY <1>1, Constants, ManyBytes DEF HostEdge, Registers, Observe, HostTypes
<1>4. Quiet => Left = 0
  BY <1>2
<1>5. Quiet' => Left' = 0
  BY DEF Left, Quiet
<1>6. ~uart_wren => Left' <= Left - 1 \/ Left' = 0
  BY <1>5
<1>7. CASE Compute
  <2>1. /\ ~cyc /\ gap > 0 /\ gap' = gap - 1 /\ pc' = pc /\ adr' = adr /\ cyc' = cyc
        /\ result' = result /\ ~mux_ack' /\ ~uart_wren' /\ gap' \in Nat
    <3>1. /\ ~cyc /\ gap > 0 /\ gap' = gap - 1 /\ pc' = pc /\ adr' = adr /\ cyc' = cyc
          /\ result' = result
      BY <1>7 DEF Compute
    <3> QED BY <1>3, <3>1
  <2>2. HostTypes' /\ Accesses'
    BY <1>1, <1>3, <2>1 DEF HostTypes, Accesses
  <2>3. pc' \in {"UART_DATA", "UART_SEND"} => Quiet'
    BY <1>1, <2>1 DEF Spaced, Accesses
  <2>4. pc' = "RESULT" => Left' <= gap'
    BY <1>1, <1>2, <1>3, <1>6, <2>1 DEF Spaced, Accesses
  <2>5. pc' = "UART_READY" => Left' <= Bytes(N) + Returns'
    <3>1. Returns = gap + 3 /\ Returns' = gap + 2
      BY <1>3, <2>1 DEF Returns
    <3> QED BY <1>1, <1>2, <1>3, <1>6, <2>1, <3>1 DEF Spaced
  <2>6. txState' # "Idle" => result' = answer'
    BY <1>1, <1>3, <2>1 DEF Spaced
  <2> QED BY <2>1, <2>2, <2>3, <2>4, <2>5, <2>6 DEF Spaced
<1>8. CASE Request
  <2>1. /\ ~cyc /\ gap = 0 /\ pc # "RESULT" /\ cyc' = TRUE /\ adr' = pc /\ pc' = pc
        /\ gap' = gap /\ result' = result /\ ~mux_ack' /\ ~uart_wren' /\ ~ack_int'
    BY <1>3, <1>8 DEF Request
  <2>2. HostTypes' /\ Accesses'
    BY <1>1, <1>3, <2>1 DEF HostTypes, Accesses
  <2>3. pc' \in {"UART_DATA", "UART_SEND"} => Quiet'
    BY <1>1, <2>1 DEF Spaced, Accesses
  <2>4. pc' = "UART_READY" => Left' <= Bytes(N) + Returns'
    <3>1. Returns = 3 /\ Returns' = 2
      BY <1>3, <2>1 DEF Returns
    <3> QED BY <1>1, <1>2, <1>3, <1>6, <2>1, <3>1 DEF Spaced
  <2>5. txState' # "Idle" => result' = answer'
    BY <1>1, <1>3, <2>1 DEF Spaced
  <2> QED BY <2>1, <2>2, <2>3, <2>4, <2>5 DEF Spaced
<1>9. CASE AwaitAck
  <2>1. /\ cyc /\ ~mux_ack /\ ~ack_int /\ ~uart_wren /\ pc # "RESULT" /\ adr = pc
        /\ pc' = pc /\ gap' = gap /\ adr' = adr /\ cyc' = cyc /\ result' = result
        /\ mux_ack' = TRUE /\ ~uart_wren' /\ ack_int' = TRUE
    BY <1>1, <1>3, <1>9 DEF AwaitAck, Accesses, HostTypes
  <2>2. HostTypes' /\ Accesses'
    BY <1>1, <1>3, <2>1 DEF HostTypes, Accesses
  <2>3. pc' \in {"UART_DATA", "UART_SEND"} => Quiet'
    BY <1>1, <2>1 DEF Spaced
  <2>4. pc' = "UART_READY" => Left' <= Bytes(N) + Returns'
    <3>1. Returns = 2 /\ Returns' = 1
      BY <1>3, <2>1 DEF Returns
    <3> QED BY <1>1, <1>2, <1>3, <1>6, <2>1, <3>1 DEF Spaced
  <2>5. txState' # "Idle" => result' = answer'
    BY <1>1, <1>3, <2>1 DEF Spaced
  <2> QED BY <2>1, <2>2, <2>3, <2>4, <2>5 DEF Spaced
<1>10. CASE Return
  <2>1. /\ cyc /\ mux_ack /\ ack_int /\ ~uart_wren /\ adr = pc /\ cyc' = FALSE /\ ~mux_ack'
        /\ pc \in {"UART_DATA", "UART_SEND", "UART_READY"} /\ polls \in {Polls, CorePolls}
        /\ adr' = adr /\ result' = result /\ (uart_wren' <=> pc = "UART_SEND")
        /\ pc' = NextAccess(pc)
        /\ gap' \in IF pc' = "RESULT" THEN Waits ELSE polls[pc]
    BY <1>1, <1>3, <1>10 DEF Return, Accesses, HostTypes
  <2>2. /\ pc = "UART_DATA" => pc' = "UART_SEND"
        /\ pc = "UART_SEND" => pc' = "UART_READY"
        /\ pc = "UART_READY" => pc' \in {"RESULT", "UART_READY"}
    BY <2>1 DEF NextAccess
  <2>3. gap' \in Nat
    <3>1. Waits \subseteq Nat /\ polls[pc] \subseteq Nat
      BY <2>1, UartAssumption
    <3> QED BY <2>1, <3>1
  <2>4. HostTypes' /\ Accesses'
    BY <1>1, <1>3, <2>1, <2>2, <2>3 DEF HostTypes, Accesses
  <2>5. pc' = "UART_SEND" \/ uart_wren' => Quiet'
    BY <1>1, <2>1, <2>2 DEF Spaced
  <2>6. ~(pc' = "UART_DATA")
    BY <2>1, <2>2
  <2>7. pc = "UART_READY" => Left' <= Bytes(N)
    <3>1. Returns = 1
      BY <2>1 DEF Returns
    <3> QED BY <1>1, <1>2, <1>3, <1>6, <2>1, <3>1 DEF Spaced
  <2>8. pc' = "RESULT" => Left' <= gap'
    <3>1. CASE WaitsLongEnough
      <4>1. pc' = "RESULT" => pc = "UART_READY" /\ gap' >= Bytes(N)
        BY <2>1, <2>2, <3>1 DEF WaitsLongEnough
      <4> QED BY <1>3, <2>3, <2>7, <4>1
    <3>2. CASE CoreWaits
      <4>1. SUFFICES ASSUME pc' = "RESULT" PROVE Left' <= gap'
        OBVIOUS
      <4>2. gap' >= 3 /\ PollsMissReady /\ polls' = CorePolls
        BY <1>3, <2>1, <3>2, <4>1 DEF CoreWaits
      <4>3. txState' = "Idle"
        BY <4>1, <4>2 DEF OnTime
      <4>4. Left' \in 0 .. 3
        BY <4>3 DEF Left
      <4> QED BY <2>3, <4>2, <4>4
    <3> QED BY <3>1, <3>2
  <2>9. pc' = "UART_READY" /\ ~uart_wren' => Left' <= Bytes(N) + Returns'
    <3>1. Returns' = gap' + 3
      BY <2>1 DEF Returns
    <3>2. pc' = "UART_READY" /\ ~uart_wren' => pc = "UART_READY"
      BY <2>1, <2>2
    <3> QED BY <1>3, <2>3, <2>7, <3>1, <3>2
  <2>10. txState' # "Idle" => result' = answer'
    BY <1>1, <1>3, <2>1 DEF Spaced
  <2>11. Spaced'
    BY <2>5, <2>6, <2>8, <2>9, <2>10 DEF Spaced
  <2> QED BY <2>4, <2>11
<1>11. CASE NewResult
  <2>1. /\ ~cyc /\ gap = 0 /\ pc = "RESULT" /\ result' \in Answers /\ pc' = "UART_DATA"
        /\ gap' \in polls["RESULT"] /\ adr' = adr /\ cyc' = cyc
        /\ ~mux_ack' /\ ~uart_wren' /\ ~uart_wren /\ polls \in {Polls, CorePolls}
    BY <1>1, <1>3, <1>11 DEF NewResult, Accesses, HostTypes
  <2>2. gap' \in Nat
    BY <2>1, UartAssumption
  <2>3. HostTypes' /\ Accesses'
    BY <1>1, <1>3, <2>1, <2>2 DEF HostTypes, Accesses
  <2>4. Quiet
    BY <1>1, <1>2, <2>1 DEF Spaced
  <2>5. Quiet' /\ txState' = "Idle"
    BY <2>1, <2>4 DEF Quiet
  <2>6. Spaced'
    BY <2>1, <2>5 DEF Spaced
  <2> QED BY <2>3, <2>6
<1> QED BY <1>7, <1>8, <1>9, <1>10, <1>11 DEF HostEdge

-----------------------------------------------------------------------------
(* The theorems.                                                               *)

(* After reset the invariant holds.                                            *)
LEMMA Initially ==
  ASSUME WaitsLongEnough \/ CoreWaits, Init
  PROVE  IInv
<1>1. /\ TICKS \in Nat /\ TICKS >= 4 /\ N \in Nat \ {0} /\ Half \in Nat /\ Half >= TICKS + 2
      /\ Waits \subseteq Nat
  BY Constants, UartAssumption
<1>2. HostTypes /\ Accesses
  BY <1>1 DEF Init, HostTypes, Accesses
<1>3. TxTypes
  <2>1. 0 # TICKS - 1 /\ 0 \in 0 .. TICKS - 1 /\ 0 \in 0 .. N
    BY <1>1
  <2>2. /\ txState = "Idle" /\ cBitTimer = 0 /\ ~cBitSent /\ cBitIndex = 0 /\ cnt = 0
        /\ cReady \in BOOLEAN /\ oTxd \in BOOLEAN /\ cRxdSyncPipe \in BOOLEAN /\ cRxd \in BOOLEAN
    BY DEF Init
  <2> QED BY <2>1, <2>2 DEF TxTypes
<1>4. InStep /\ Buffered /\ Levels /\ Following
  BY <1>1 DEF Init, InStep, Buffered, Levels, Following
<1>5. RxTypes
  <2>1. cTimer \in Nat /\ N \in 0 .. N
    BY <1>1 DEF Init, DelayToFirstBit, Half
  <2>2. /\ rxState = "ErrorRecovery" /\ cTimerIsZero \in BOOLEAN /\ cBitCounter = 0
        /\ cData = 0 /\ cReceived \in BOOLEAN /\ got = N
    BY DEF Init
  <2> QED BY <2>1, <2>2 DEF RxTypes
<1>6. AfterReset /\ ~Quiet
  BY DEF Init, AfterReset, Quiet
<1>7. Spaced
  <2>1. Left = 3
    BY <1>6 DEF Init, Left
  <2>2. gap \in Nat /\ (gap >= Bytes(N) \/ gap >= 3)
    BY <1>1 DEF Init, WaitsLongEnough, CoreWaits
  <2>3. Bytes(1) <= Bytes(N) /\ Bytes(1) = Bytes(0) + Bit(10) /\ Bytes(0) = 0
    <3>1. Bytes(0 + 1) = Bytes(0) + Bit(10) /\ Bytes(0) = 0
      BY ManyBytes
    <3> QED BY <1>1, <3>1, BytesInOrder
  <2>4. Bit(0) + TICKS <= Bit(10) /\ Bit(0) = 0 /\ Bit(10) \in Nat /\ Bytes(N) \in Nat
    <3>1. Bit(0) + TICKS <= Bit(10)
      BY BitsInOrder
    <3> QED BY <1>1, <3>1, Bits, ManyBytes
  <2>5. Left <= gap
    BY <1>1, <2>1, <2>2, <2>3, <2>4
  <2> QED BY <2>5 DEF Init, Spaced
<1>8. OnTime
  BY DEF Init, OnTime
<1> QED BY <1>2, <1>3, <1>4, <1>5, <1>6, <1>7, <1>8 DEF IInv, Resting

(* What an edge does to the word on its way.                                   *)
Delivery == IF uart_wren THEN /\ Quiet /\ ~Arrived /\ result \in Answers /\ answer' = result
                              /\ got' = 0 /\ heard' = heard
                         ELSE Reported /\ answer' = answer

(* An edge preserves the invariant, and begins a word only after all bytes     *)
(* of the last one, or reports its next byte, or does neither.                 *)
LEMMA Preserved ==
  ASSUME WaitsLongEnough \/ CoreWaits, IInv, Next
  PROVE  IInv' /\ Delivery
<1>1. /\ HostEdge /\ Registers /\ Observe /\ Edge /\ Link /\ QueueEdge
      /\ HostTypes /\ Accesses /\ Spaced
  BY DEF IInv, Next, Edge, RxEdge, Link, TxInv
<1>2. CASE uart_wren
  <2>1. Quiet /\ result \in Answers
    BY <1>1, <1>2 DEF Spaced, Accesses, HostTypes
  <2>2. /\ Link' /\ ~Arrived /\ answer' = result /\ got' = 0 /\ heard' = heard
        /\ Left' = Bytes(N) + 2 /\ Position' = 0
    BY <1>1, <1>2, <2>1, StartingStep
  <2>3. Bytes(N) \in Nat
    BY Constants, ManyBytes
  <2>4. OnTime'
    BY <1>1, <1>2, <2>2, OnTimeStep
  <2>5. HostTypes' /\ Accesses' /\ Spaced'
    BY <1>1, <1>2, <2>2, <2>3, <2>4, HostStep
  <2> QED BY <1>2, <2>1, <2>2, <2>4, <2>5 DEF IInv, Link, TxInv, Delivery
<1>3. CASE ~uart_wren
  <2>1. answer' = answer /\ answer \in Answers
    BY <1>1, <1>3 DEF Observe, HostTypes
  <2>2. /\ Link' /\ Reported /\ (txState = "Idle" => txState' = "Idle")
        /\ IF Quiet THEN Quiet' ELSE Left' <= Left - 1
        /\ txState # "Idle" => Advanced
    <3>1. txState # "Idle" => result = answer
      BY <1>1 DEF Spaced
    <3> QED BY <1>1, <1>3, <2>1, <3>1, LinkStep
  <2>3. Left' \in Nat
    BY <2>2, LeftOfNext
  <2>4. OnTime'
    BY <1>1, <1>3, <2>2, OnTimeStep
  <2>5. HostTypes' /\ Accesses' /\ Spaced'
    BY <1>1, <1>3, <2>2, <2>3, <2>4, HostStep
  <2> QED BY <1>3, <2>1, <2>2, <2>4, <2>5 DEF IInv, Link, TxInv, Delivery
<1> QED BY <1>2, <1>3

(* A step that changes no variable preserves it.                               *)
LEMMA Stuttering ==
  ASSUME IInv, UNCHANGED vars
  PROVE  IInv'
BY DEF IInv, vars, host, regs, tx, rx, history, HostTypes, Accesses, TxTypes, InStep, Buffered,
   Levels, RxTypes, Following, Resting, Spaced, Delayed, Level, Shifted, Sent, Elapsed, Queued,
   Onto, Receiving, Between, Quiet, LastStopBit, AfterReset, Left, Returns, Heard, Read, Waiting,
   Holds, OnTime, Position, ToSample

(* The invariant holds of every behaviour in which the next result comes no    *)
(* earlier than a queue's length, N bytes on the line, after uart_send has     *)
(* returned, or three edges after it if only the core spaces the accesses.     *)
THEOREM Inductive ==
  WaitsLongEnough \/ CoreWaits => (Spec => []IInv)
<1> SUFFICES ASSUME WaitsLongEnough \/ CoreWaits PROVE Spec => []IInv
  OBVIOUS
<1>1. Init => IInv
  BY Initially
<1>2. IInv /\ [Next]_vars => IInv'
  BY Preserved, Stuttering
<1> QED BY <1>1, <1>2, PTL DEF Spec

(* Every byte of an answer that an edge delivers is the next one of the word.  *)
LEMMA Streaming ==
  ASSUME WaitsLongEnough \/ CoreWaits
  PROVE  Spec => RefinesByteStream
<1>1. Init => Stream!Init
  BY SMT DEF Init, Stream!Init
<1>2. IInv /\ [Next]_vars => [Stream!Next]_<<answer, got, heard>>
  <2> SUFFICES ASSUME IInv, [Next]_vars PROVE [Stream!Next]_<<answer, got, heard>>
    OBVIOUS
  <2>1. CASE UNCHANGED vars
    BY <2>1 DEF vars, history
  <2>2. CASE Next
    <3>1. Delivery
      BY <2>2, Preserved
    <3>2. CASE uart_wren
      <4>1. Stream!Send
        BY <3>1, <3>2 DEF Delivery, Quiet, Between, Stream!Send
      <4> QED BY <4>1 DEF Stream!Next
    <3>3. CASE ~uart_wren /\ Arrived
      <4>1. heard' = cData'
        BY <2>2, <3>3 DEF Next, Observe
      <4>2. Stream!Arrive
        BY <3>1, <3>3, <4>1 DEF Delivery, Reported, Stream!Arrive
      <4> QED BY <4>2 DEF Stream!Next
    <3>4. CASE ~uart_wren /\ ~Arrived
      BY <2>2, <3>1, <3>4 DEF Next, Observe, Delivery
    <3> QED BY <3>2, <3>3, <3>4
  <2> QED BY <2>1, <2>2
<1>3. Spec => []IInv
  BY Inductive
<1> QED BY <1>1, <1>2, <1>3, PTL DEF Spec, RefinesByteStream, Stream!Spec

(* Under the same condition every byte of every answer arrives once and in     *)
(* order, for every baud rate from four edges per bit, every number of         *)
(* bytes and every spacing of the accesses of uart_send: the link              *)
(* implements ByteStream.                                                      *)
THEOREM WordsArrive ==
  WaitsLongEnough => (Spec => RefinesByteStream)
BY Streaming

(* The core needs no such distance: if its polls miss the early READY every    *)
(* answer arrives although the next one comes three edges after uart_send.     *)
THEOREM CoreWordsArrive ==
  CoreWaits => (Spec => RefinesByteStream)
BY Streaming

(* When uart_send of the core returns the whole answer is out, so the gate     *)
(* that the handler closes next (main.c:110) freezes no byte, whatever other   *)
(* spacing the CPU may have instead.                                           *)
THEOREM OutBeforeTheGate ==
  PollsMissReady /\ (WaitsLongEnough \/ CoreWaits) => (Spec => []SentBeforeGate)
<1> SUFFICES ASSUME PollsMissReady, WaitsLongEnough \/ CoreWaits PROVE Spec => []SentBeforeGate
  OBVIOUS
<1>1. Spec => []IInv
  BY Inductive
<1>2. IInv => SentBeforeGate
  <2> SUFFICES ASSUME IInv, polls = CorePolls, pc = "RESULT"
               PROVE  cnt = 0 /\ txState = "Idle" /\ oTxd
    BY DEF SentBeforeGate
  <2>1. txState = "Idle"
    BY DEF IInv, OnTime
  <2>2. cnt = 0
    BY <2>1 DEF IInv, InStep
  <2>3. oTxd
    BY <2>1 DEF IInv, Resting, Quiet, LastStopBit, AfterReset
  <2> QED BY <2>1, <2>2, <2>3
<1> QED BY <1>1, <1>2, PTL

(* The bit-serial core of the design, with two edges more or fewer in every    *)
(* instruction sequence, at the baud rate and the word length of soc.v: its    *)
(* polls fall 65 to 69, 202 to 210 and more than 338 edges after the word      *)
(* begins, and miss the early READY.                                           *)
THEOREM CoreMisses ==
  ASSUME TICKS = 4, N = 8,
         CorePolls["UART_SEND"] = 65 .. 69, CorePolls["UART_READY"] = 134 .. 138
  PROVE  PollsMissReady
<1> DEFINE S == {m \in Nat : m \in 65 .. 69 \/ m \in 202 .. 210 \/ m >= 339}
<1>1. S \in SUBSET Nat /\ Sampling(S)
  BY SMT DEF Sampling
<1>2. Moments \subseteq S
  BY <1>1 DEF Moments
<1>3. ASSUME NEW m \in ReadyTooSoon PROVE m \notin S
  <2>1. Bit(9) = 36 /\ Bit(10) = 40 /\ \A k \in Nat : Bytes(k) = 40 * k
    BY SMT DEF Bit, Bytes
  <2>2. m \in {40 * k + 36 : k \in 0 .. 6} \/ m \in 316 .. 317
    BY <1>3, <2>1, SMT DEF ReadyTooSoon
  <2> QED BY <2>2, SMT
<1> QED BY <1>2, <1>3 DEF PollsMissReady
=============================================================================
