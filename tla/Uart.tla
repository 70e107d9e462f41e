-------------------------------- MODULE Uart ---------------------------------
(* The serial link over which answers leave the system: uart_send of the       *)
(* firmware, the registers of servant_uart, the queue fsm_uart_tx that cuts    *)
(* the result word into bytes, SerialTransmitter, and SerialReceiver at the    *)
(* other end of the line (the receiver of the same design, same baud rate).    *)
(* One step is one edge of the system clock.                                   *)
(*                                                                             *)
(* The firmware sets the high-precision mode once (main.c:36) and never leaves *)
(* it; the byte register written through UART_DATA is not sent in this mode.   *)
EXTENDS Naturals

CONSTANTS TICKS,     \* edges per bit: pTicksPerBit
          N,         \* UART_QUEUE, bytes sent of every word
          Answers,   \* values of the result register
          Polls,     \* edges the CPU may spend after an access, by its register
          CorePolls, \* those the bit-serial core of the design spends
          Waits      \* edges from the end of uart_send to the next result

ASSUME UartAssumption ==
    /\ TICKS \in Nat /\ TICKS >= 4
    /\ N \in Nat \ {0}
    /\ Answers \subseteq 0 .. 8191 /\ Answers # {}
    /\ \A p \in {Polls, CorePolls} :
           /\ DOMAIN p = {"UART_DATA", "UART_SEND", "UART_READY", "RESULT"}
           /\ \A r \in DOMAIN p : p[r] \subseteq Nat \ {0} /\ p[r] # {}
    /\ Waits \subseteq Nat /\ Waits # {}

VARIABLES
    \* firmware, bus and result register
    pc,           \* the register it accesses next, or "RESULT": awaiting a result
    gap,          \* edges until then
    polls,        \* how this CPU spaces its accesses
    adr, cyc, mux_ack,
    result,       \* o_output_buffer_out
    \* servant_uart and fsm_uart_tx
    ack_int, uart_wren, o_cpu_rdt,
    cnt,
    \* SerialTransmitter
    txState, cBitTimer, cBitSent, cBuffer, cBitIndex, cReady,
    oTxd,         \* level of the line
    \* SerialReceiver
    cRxdSyncPipe, cRxd, rxState, cTimer, cTimerIsZero, cBitCounter, cData,
    cReceived, cBreak,
    \* history: the word being sent, its bytes received, the last byte received
    answer, got, heard

host    == <<pc, gap, polls, adr, cyc, mux_ack, result>>
regs    == <<ack_int, uart_wren, o_cpu_rdt>>
tx      == <<txState, cBitTimer, cBitSent, cBuffer, cBitIndex, cReady, oTxd>>
rx      == <<cRxdSyncPipe, cRxd, rxState, cTimer, cTimerIsZero, cBitCounter,
             cData, cReceived, cBreak>>
history == <<answer, got, heard>>
vars    == <<host, regs, cnt, tx, rx, history>>

-----------------------------------------------------------------------------
(* Firmware (uart_send, and the time until it is called again) and bus: the    *)
(* multiplexer acknowledges the UART at once.                                  *)

(* Faulty variant: READY is read once and not waited for.                      *)
MutNextAccess(r) == CASE r = "UART_DATA"  -> "UART_SEND"
                      [] r = "UART_SEND"  -> "UART_READY"
                      [] r = "UART_READY" -> "RESULT"

NextAccess(r) == CASE r = "UART_DATA"  -> "UART_SEND"
                   [] r = "UART_SEND"  -> "UART_READY"
                   [] r = "UART_READY" -> IF o_cpu_rdt THEN "RESULT" ELSE "UART_READY"

Compute == /\ ~cyc /\ gap > 0
           /\ gap' = gap - 1
           /\ UNCHANGED <<pc, adr, cyc, result>>

Request == /\ ~cyc /\ gap = 0 /\ pc # "RESULT"
           /\ cyc' = TRUE
           /\ adr' = pc
           /\ UNCHANGED <<pc, gap, result>>

AwaitAck == /\ cyc /\ ~mux_ack
            /\ UNCHANGED <<pc, gap, adr, cyc, result>>

Return == /\ cyc /\ mux_ack
          /\ cyc' = FALSE
          /\ pc' = NextAccess(pc)
          /\ gap' \in IF pc' = "RESULT" THEN Waits ELSE polls[pc]
          /\ UNCHANGED <<adr, result>>

(* The next inference, awaited in exec_inference, fills the result register.   *)
NewResult == /\ ~cyc /\ gap = 0 /\ pc = "RESULT"
             /\ result' \in Answers
             /\ pc' = "UART_DATA"
             /\ gap' \in polls["RESULT"]
             /\ UNCHANGED <<adr, cyc>>

HostEdge == /\ mux_ack' = (cyc /\ ~mux_ack)
            /\ UNCHANGED polls
            /\ Compute \/ Request \/ AwaitAck \/ Return \/ NewResult

-----------------------------------------------------------------------------
(* servant_uart *)

Registers ==
    /\ ack_int' = cyc
    /\ uart_wren' = (adr = "UART_SEND" /\ cyc /\ ack_int)
    /\ o_cpu_rdt' = IF adr = "UART_READY" THEN cReady ELSE o_cpu_rdt

-----------------------------------------------------------------------------
(* fsm_uart_tx: cnt is 0 when the queue is empty, else the number of the byte  *)
(* to be sent next.                                                            *)

(* Faulty variant: the queue ends one byte early.                              *)
MutShortQueue == IF cnt = N - 1 THEN 0
                 ELSE IF cnt # 0 /\ cReady THEN cnt + 1
                 ELSE IF cnt = 0 /\ uart_wren THEN 1 ELSE cnt

NextCnt == IF cnt = N THEN 0
           ELSE IF cnt # 0 /\ cReady THEN cnt + 1
           ELSE IF cnt = 0 /\ uart_wren THEN 1 ELSE cnt

(* Faulty variant: queued bytes wait until the line is at rest.                *)
MutGo == cReady /\ (uart_wren \/ (cnt # 0 /\ txState = "Idle"))

uart_tx_go == cReady /\ (uart_wren \/ cnt # 0)

(* Faulty variant: the bytes are counted from one.                             *)
MutSel == IF cnt = 0 THEN 0 ELSE cnt - 1

sel == cnt

(* The result has 13 bits, the word sent has 32: bytes from the third on are   *)
(* the most significant one.                                                   *)
Byte(w, k) == CASE k = 0 -> w % 256
                [] k = 1 -> (w \div 256) % 256
                [] k = 2 -> (w \div 65536) % 256
                [] OTHER -> w \div 16777216

QueueEdge == cnt' = NextCnt

-----------------------------------------------------------------------------
(* SerialTransmitter *)

BitTimer ==
    /\ cBitTimer' = IF txState = "Idle" \/ cBitSent THEN 0 ELSE (cBitTimer + 1) % TICKS
    /\ cBitSent' = (cBitTimer = TICKS - 2)

TxIdle ==
    /\ txState = "Idle"
    /\ cReady' = ~uart_tx_go
    /\ IF uart_tx_go
       THEN cBuffer' = Byte(result, sel) /\ txState' = "StartBit"
       ELSE UNCHANGED <<cBuffer, txState>>
    /\ UNCHANGED cBitIndex

TxStartBit ==
    /\ txState = "StartBit"
    /\ txState' = IF cBitSent THEN "DataBit" ELSE "StartBit"
    /\ UNCHANGED <<cBuffer, cBitIndex, cReady>>

ReadyAfter(i) == i = 7

TxDataBit ==
    /\ txState = "DataBit"
    /\ IF cBitSent
       THEN /\ cBuffer' = cBuffer \div 2
            /\ cBitIndex' = (cBitIndex + 1) % 8
            /\ cReady' = (cReady \/ ReadyAfter(cBitIndex))
            /\ txState' = IF cBitIndex = 7 THEN "StopBit" ELSE "DataBit"
       ELSE UNCHANGED <<cBuffer, cBitIndex, cReady, txState>>

TxStopBit ==
    /\ txState = "StopBit"
    /\ cReady' = (cReady /\ ~uart_tx_go)
    /\ cBuffer' = IF uart_tx_go THEN Byte(result, sel) ELSE cBuffer
    /\ txState' = IF ~cBitSent THEN "StopBit"
                  ELSE IF cReady' THEN "Idle" ELSE "StartBit"
    /\ UNCHANGED cBitIndex

TxEdge == /\ BitTimer
          /\ TxIdle \/ TxStartBit \/ TxDataBit \/ TxStopBit
          /\ oTxd' = \/ txState \in {"Idle", "StopBit"}
                     \/ txState = "DataBit" /\ cBuffer % 2 = 1

-----------------------------------------------------------------------------
(* SerialReceiver *)

DelayToFirstBit == (3 * TICKS) \div 2 - 2
DelayToNextBit  == TICKS - 2

RxErrorRecovery ==
    /\ rxState = "ErrorRecovery"
    /\ cBreak' = FALSE
    /\ rxState' = IF cRxd THEN "Idle" ELSE "ErrorRecovery"
    /\ UNCHANGED <<cTimer, cBitCounter, cData, cReceived>>

RxIdle ==
    /\ rxState = "Idle"
    /\ cReceived' = FALSE
    /\ cTimer' = DelayToFirstBit
    /\ rxState' = IF cRxd THEN "Idle" ELSE "WaitToDataBit"
    /\ UNCHANGED <<cBitCounter, cData, cBreak>>

RxWait(from, to) ==
    /\ rxState = from
    /\ IF cTimerIsZero
       THEN rxState' = to /\ UNCHANGED cTimer
       ELSE cTimer' = cTimer - 1 /\ UNCHANGED rxState
    /\ UNCHANGED <<cBitCounter, cData, cReceived, cBreak>>

RxReadDataBit ==
    /\ rxState = "ReadDataBit"
    /\ cData' = (IF cRxd THEN 128 ELSE 0) + cData \div 2
    /\ cBitCounter' = (cBitCounter + 1) % 8
    /\ rxState' = IF cBitCounter # 7 THEN "WaitToDataBit" ELSE "WaitToStopBit"
    /\ cTimer' = DelayToNextBit
    /\ UNCHANGED <<cReceived, cBreak>>

RxCheckStopBit ==
    /\ rxState = "CheckStopBit"
    /\ IF cRxd
       THEN cReceived' = TRUE /\ rxState' = "Idle" /\ UNCHANGED cBreak
       ELSE cBreak' = TRUE /\ rxState' = "ErrorRecovery" /\ UNCHANGED cReceived
    /\ UNCHANGED <<cTimer, cBitCounter, cData>>

RxEdge == /\ cRxdSyncPipe' = oTxd
          /\ cRxd' = cRxdSyncPipe
          /\ cTimerIsZero' = (cTimer = 1)
          /\ \/ RxErrorRecovery \/ RxIdle \/ RxReadDataBit \/ RxCheckStopBit
             \/ RxWait("WaitToDataBit", "ReadDataBit")
             \/ RxWait("WaitToStopBit", "CheckStopBit")

-----------------------------------------------------------------------------
(* History: a word is on its way from the edge that starts the queue, a byte   *)
(* has arrived at the edge that reports it.                                    *)

Arrived == cReceived' /\ ~cReceived

Observe == /\ answer' = IF uart_wren THEN result ELSE answer
           /\ got' = IF uart_wren THEN 0 ELSE IF Arrived THEN got + 1 ELSE got
           /\ heard' = IF Arrived THEN cData' ELSE heard

-----------------------------------------------------------------------------
(* After reset the transmitter rests and the receiver waits for a line at      *)
(* rest; its timer is not reset.                                               *)

Init ==
    /\ polls \in {Polls, CorePolls}
    /\ pc = "RESULT" /\ gap \in Waits
    /\ adr = "UART_READY" /\ cyc = FALSE /\ mux_ack = FALSE
    /\ result = 0
    /\ ack_int = FALSE /\ uart_wren = FALSE /\ o_cpu_rdt = FALSE
    /\ cnt = 0
    /\ txState = "Idle" /\ cBitTimer = 0 /\ cBitSent = FALSE
    /\ cBuffer = 0 /\ cBitIndex = 0 /\ cReady = FALSE /\ oTxd = TRUE
    /\ cRxdSyncPipe = FALSE /\ cRxd = FALSE /\ rxState = "ErrorRecovery"
    /\ cTimer \in 0 .. DelayToFirstBit /\ cTimerIsZero \in BOOLEAN
    /\ cBitCounter = 0 /\ cData = 0 /\ cReceived = FALSE /\ cBreak = FALSE
    /\ answer \in Answers /\ got = N /\ heard = 0

Next == HostEdge /\ Registers /\ QueueEdge /\ TxEdge /\ RxEdge /\ Observe

Spec == Init /\ [][Next]_vars

(* The clock runs while a word is sent.                                        *)
LiveSpec == Spec /\ WF_vars(Next)
=============================================================================
