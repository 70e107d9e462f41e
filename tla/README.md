# Formal model of ESTU

ESTU is an FPGA accelerator for a spiking transformer (EMG gesture
recognition), driven by a small RISC-V core.  Everything modelled here is under
`src/Main_ESTU`: the RTL in `rtl/`, the firmware in `firmware/src`.  The build
is the one of `rtl/define.v`: `EMG`, `ACCESSIBILITY` and `LOW_POWER` defined.

## 1. Inventory

| Part | Source | State | Operations |
|---|---|---|---|
| Sequencer | `estu/top/fsm_estu.v`, `instr_mem.v`, `control_unit.v` | FSM state, `pc`, fetch shift register, six word registers | start, fetch, decode, run, retire, end |
| Attention memory | `estu/mmu/wr_addr_gen.v`, `wr_controller.v`, `stack_bram2.v`, `stack_fsm_pop.v`, `mmu.v` | `k_ptr0..3`, `k_ptr_sel`, `v_ptr`, lists of active groups, words of V, scores | write a key, a score, a row of V; push a group; pop a row; close a window |
| LIF pipeline | `estu/datapath/*`, `estu/mmu/s2p_rev.v` | ring of voltages with two counters, pipeline of valid bits, converters | read a voltage, write it back, count a result, clear |
| Read addresses, arithmetic | `read_addr_gen.v`, `cnt.v`, `accumulator.v`, `adder_simd.v` | counters, sums | address and add up inputs |
| Encoding slot | `input_buffer.v`, `encoding_slot*.v`, `delta_modulator_multichannel.v` | samples of a frame, pointer, last value per channel | fill, stream, modulate |
| Start logic | `estu/top/estu.v` | spike words received, start pulse and its delays | count a word, start, restart the count |
| Host registers | `servant/servant_estu.v` | start bit, result, flag, acks | write, read, clear |
| SPI loader | `servant/servant_spi.v`, `spi_master_asic.v` | registers, status, bit counter, word in assembly | start, read bytes, write words, report |
| Bus | `servant/servant_mux.v`, `servant_arbiter.v` | acknowledge | route one access |
| Firmware | `firmware/src/*.c`, `*.h` | `.bss`, `.data`, frame address, last result | start up, load weights, ask, poll, answer, sleep |
| UART | `servant_uart.v`, `fsm_uart_tx.v`, `Serial*.v` | queue, bit counters, line | send |
| Timer and clock gate | `servant_slow_timer.v`, `clk_gen_wb.v` | `mtime`, `mtimecmp`, request; gate, armed | count, request, arm, close, open |
| SERV core: CSRs and traps | `rtl/serv` (third party), `riscv-csr.h` | three registers in flip-flops, four in the register file | access, interrupt, exception, return |

`PROJECT.json` lists every part with its status, the unmodelled ones too.

**How they interact.**  The firmware writes the weights through the SPI loader
into the two integer memories, then for every frame: sets the start bit, has
the SPI loader put the frame into the input buffer, and polls the result.  The
filled buffer streams itself through the delta modulator; the last spike word
that comes out, together with the start bit, starts the sequencer.  The
sequencer runs the microcode, one instruction at a time.  An instruction ends in
one of three ways (`mmu.v:495`): a product of spikes (Q times K transposed, which
has no number of results) when the pulse of its last read address reaches tap 3
of a pipe, the last one with the spike of the last class, every other when the
memory management unit has counted its results.  The last instruction
writes the classifier's spikes into the result register, raises the flag, and
lets the spike word counter begin again.  200 frames are a window, at whose end
the attention memory and the voltages start afresh.  The first inference is run
by `main`; every other one by `irq_entry`, which the slow timer enters, and which
ends by stopping the fast clock until the timer requests again.

**What is hard.**  Everything but the timer runs at once on one clock, and parts meet through
pulses and equalities: a pulse that comes in the wrong state is lost, a count
that is stepped over is never equal.  The timer has a clock of its own, and may
request between any two instructions, also between arming the gate and the end
of the handler.  An interrupt replaces an instruction that the core goes on
decoding.  State survives an instruction (voltages, pointers), an inference (keys, V, lists) and a window (memories, `k_ptr_sel`),
and little of it is ever reset.  The host polls registers that the hardware
clears by itself.  `PROJECT.json` lists these hazards line by line, with the
properties that cover them or the reason why none does yet.

**What makes each part correct.**
Sequencer: instructions in order, decoded whole, each ended with exactly its own
results.
Attention memory: attention reads exactly the spikes and keys of this window.
LIF pipeline: a voltage returns to its neuron.
Input and start logic: a frame starts exactly one inference.
Host registers: an answer belongs to the question, and arrives.
SPI loader: what is reported as loaded is loaded, in order, and nothing else.
UART: every byte of an answer arrives once, in order.
Timer and gate: a wake-up is not lost, and no sample is taken twice or skipped.
CSRs: a function of the header touches its register only; an interrupt leaves
no trace in the program it interrupts.
Firmware: nothing is used before it is loaded, nothing written while in use.

## 2. Modules

| Module | Models |
|---|---|
| `InferenceProgram` | what the sequencer promises: every instruction once, in order |
| `EstuSequencer`, `..Props`, `MC..`, `.._proofs` | the sequencer, one action per FSM state |
| `AttentionWindow`, `..Props`, `MC..`, `.._proofs` | what attention keeps between inferences, one action per result |
| `LifPipeline`, `..Props`, `MC..`, `.._proofs` | neurons and voltage ring, one action per clock edge |
| `FrameLoop` | what the firmware loop promises: one frame asked, its answer taken; `HostLink` implements it edge by edge, `Firmware` access by access |
| `HostLink`, `..Props`, `MC..`, `.._proofs` | composition of firmware, bus, host registers, SPI status, start logic and accelerator, edge by edge |
| `ByteStream` | what the serial line promises: every byte of an answer once, in order |
| `Uart`, `..Props`, `MC..`, `.._proofs` | `uart_send`, queue, transmitter, and the receiver at the other end, edge by edge |
| `SpiLoader`, `..Props`, `MC..`, `.._proofs` | SPI master, word assembly, memories and input buffer, edge by edge |
| `RiscvCsr` | `riscv-csr.h`: for every register its address, functions and fields |
| `RiscvInterrupts` | `riscv-interrupts.h`: numbers of interrupts and exceptions |
| `MachineRegisters` | what the functions of the header promise of the registers the core has |
| `CsrFile`, `..Props`, `MC..`, `Interrupts_proofs` | decoding, registers, traps and returns of SERV, one action per instruction |
| `SleepWake`, `..Props`, `MC..`, `Interrupts_proofs` | timer, clock gate and interrupt around the loop of `main` and the handler, in two clock domains |
| `Firmware`, `..Props`, `MC..`, `.._proofs` | composition of `startup.c`, `main.c` and the register blocks, one action per access; its registers are those of `CsrFile` |

A module `X` holds state and actions, `XProps` the properties, `MCX` the
constants of the runs, `X_proofs` the theorems; those of `CsrFile` and `SleepWake`
are together in `Interrupts_proofs`.  Operators named `Mut...` are plausible faults of a
definition; they are not part of the model and are used to check that each
property can be broken.

**Clocked modules.**  In `EstuSequencer`, `LifPipeline`, `HostLink`, `Uart` and
`SpiLoader` a step is one rising edge, and all registers read what the others
held before it.  `HostLink!Next`, `Uart!Next` and `SpiLoader!Next` are conjunctions with one
conjunct per block of RTL, which is a disjunction over the states of its FSM.
`AttentionWindow` is coarser: a step is one result, since the results of those
instructions are at least 32 edges apart.

**Abstractions.**
- An instruction word is its address, a key the timestep it was computed at, a
  voltage the slot it was read from, a frame its number, a flash byte a
  function of its address.  These are what the properties tell apart.
- *Sequencer*: an instruction is its kind (sum, product, generation of V, use of V,
  last, or a dense one, which is none of these) and its number of results.  Sums
  and products are edge by edge, from the read addresses to the scores
  (`ReadEdge`, `valid_read_data`); four scores are one count.  Where neurons are
  involved, the edge at which the next one is read is open, and `Delay` edges
  later there is a result: of one spike for V and the last layer, of a word of four
  for the others.  `counted` is the number of results, `gen_cnt` what the hardware
  has of it.  The last layer writes nothing (its write enables are zero), so its
  own number of results is never reached, and its selector counts instead.
- *LIF pipeline*: the pulses that read a neuron come at any distance not
  smaller than the layer's `gap`.  Layers without neurons (the sums and the
  products of spikes) do not touch the ring and are absent.
- *Attention*: `Age` marks keys and scores of a window that is over as `STALE`
  so that a property can tell; words of V and lists keep their contents, as the
  memories do.  `now` and `spikes` are history variables.
- *Host link*: an access holds `cyc` until the acknowledge of `servant_mux`;
  between two accesses the core spends `Gaps` edges.  The state of the SPI
  master during a transfer is a countdown, an inference another one.  The
  address on the bus is that of the last access; the values it shifts through
  without `cyc` are not modelled.  `Partial` and `Mixed` are what the result
  register holds while it is filled, and after a frame was encoded over a
  running inference.  Frames are numbered modulo `Frames`, counted when asked.
  The selection of memory and size, equal for all frames, is in `SpiLoader`.
- *UART*: the line is heard by `SerialReceiver` of the same design, on the same
  clock and at the same rate (the real host has its own clock).  Only the
  high-precision mode, the one the firmware sets, is modelled; the register
  written through `UART_DATA` is not sent in it.  `answer`, `got` and `heard`
  are history variables.
- *CSRs*: a word is the set of its bits that are one.  An access reads and
  writes a word at once: the bit-serial core reads each bit before it writes it.
  An interrupt is given the instruction it replaces, since the decoder still
  sees it; `CauseOf`, `mpie_of_trap`, `TrapTarget` are the equations of
  `serv_csr.v` and `serv_rf_if.v` with that instruction in them.
- *Sleep and wake*: a step is an instruction, an edge of the gate or a tick of
  the 10 kHz clock.  The inference is a number of ticks.  `ending` is the last
  instruction of the handler: `wfi` in `main.c`, `mret` in `firmware/exe.dump`;
  SERV has no `wfi` and traps, so the source's handler enters itself.  `owed` and
  `age` are history variables.
- *Firmware*: `main` and the handler are sequences of accesses, taken from the
  source with its constants; what an access does is the register block's part.
  A transfer has two halves, so that it can be disturbed in the middle; a word
  read is the address and size it was read from.  `uart_recv` and
  `mtimer_get_raw_time` are never called.
- *SPI loader*: command and address bits of the master are one state of
  arbitrary length; a status read is one cycle (its bus cycles are in
  `HostLink`, where they matter).  `sample` counts the samples handed to the
  encoder and stands for the inference that needs them all.

## 3. Runs

| Run | Instance | Question |
|---|---|---|
| `sequencer` | 7 instructions: dense, sum, two products, V generation, V use, last; 4 classes, timesteps 0 to 5 | instructions in order, decoded whole, each ended with exactly its own results; every inference ends |
| `attention_heads` | 2 heads, 1 row, window of 4 timesteps in words of 2 | pointers, keys and lists of several heads over windows and resets |
| `attention_rows` | 1 head, 2 rows | rows of V do not overlap |
| `lif_pipeline` | a layer of 2 words without gap, one of 2 single spikes, the classifier | voltages return, over inferences, windows and resets |
| `host_link` | frames of 2 words, 3 frames | a frame starts its inference; the answer is its answer; it arrives; no write of the host is dropped |
| `host_spi_status` | same | *violated*: the end of a transfer may be missed |
| `uart` | 4 edges per bit, 8 bytes per word, 2 answers | every byte of every answer arrives once, in order, without delay between bytes; none is left in the queue when the clock is stopped |
| `spi_loader` | 6-bit counters, memories of 3 words, 5 transfers | memories and frames are complete, in order, and only where intended |
| `spi_size_unit` | same | *violated*: the size is not in bytes |
| `csr_file` | 2 bits per word, every machine register the core has, every kind of replaced instruction | registers are kept apart; interrupts are transparent; causes are right |
| `firmware` | 3 frames, the constants of `constants.h` | boot, then sampling for ever, in an order that the devices can bear |
| `sleep_wake` | `TIME` of 50, handlers of 2 to 51 ticks, 10 instructions per tick, both endings | one inference per pulse, for ever, at equal distances, never interrupted |

A run checks no type invariant but that of the sequencer, whose 8-bit counter
could wrap; those of the other modules are part of the invariants proved in
section 5.

**Bounds, and why they are enough.**
- `sequencer`: every kind of instruction, in the order of the microcode, so every
  way of ending follows every state the one before can leave, the two products one
  another.  At timesteps 0 to 5 a product has one to six scores: the pulse of its last
  address enters the pipe before, with and after the first scores, and the
  address counter restarts within the product or does not.  Instructions of 2
  to 5 results end with some in flight or none.  The proofs remove the bounds.
- `attention_*`: two groups of two timesteps give a first, an inner and a last
  timestep of a group and of the window, a list that grows and one that does
  not; two heads, two rows and two words per key are the smallest that can be
  confused.  Windows and resets repeat without bound, so every window begins
  with the leftovers of every other.
- `lif_pipeline`: 11 slots are more than the 5 stages in flight, so a write
  never meets its own read by accident; gap 1 gives a full pipeline, gap 8 an
  empty one.  `LayersAssumption` excludes single-spike layers with gaps below
  the pipeline length; the microcode has 32 inputs there.
- `host_link`: gaps 1..3, transfers 1..4 edges and inferences 2..6 edges put
  every event on every cycle of a poll, which takes 3 cycles and a gap; the
  inferences of 40..42 edges outlast several polls.  Three frames tell the
  previous answer from this one and the next.
- `uart`: bit length and queue are those of `soc.v`, so nothing is scaled down.
  A poll and its gap take 36 to 48 edges, a byte 40: READY is read on each edge
  of a byte, and `uart_send` returns after each number of bytes.  The next
  result comes at least a queue's length (320 edges) after that: fetching
  a frame from the flash (8 command bits and 128 data bits of two edges, 24
  address bits of three) takes longer, before the inference even begins.  In
  `CorePolls` the distances are those of the core (36 edges per instruction of
  one stage, 70 per load, store or branch), two more or fewer: only there is
  `SentBeforeGate` claimed, which section 5 proves for every core whose polls miss
  the READY between two bytes.
- `spi_loader`: transfers that fill a memory, reload part of it, wrap around the
  flash, and two different frames, in every order.  The 6-bit counter is as
  close to its limit (48 of 64 bits) as the real one to its own.
- `csr_file`: bits 3 and 7 are the implemented ones of `mstatus` and `mie`; all
  others are copied alike, so two bits tell registers apart.  Accesses, traps and
  returns reach every combination of contents; the properties then range over
  every function of every register that shares its low address byte with one the
  core has.
- `firmware`: start-up sections of 8 and 4 bytes, more than none and than one.
  Three frames tell the previous, this and the next one apart.
- `sleep_wake`: the real period.  A tick is 17 to 33 instructions; the run lets the core
  execute any number from 10 on, enough to pass the end of the handler in one.
  The handler lasts at least the two ticks of a request (an inference alone is
  longer) and at most the period less one tick.

**Fairness.**  The clocked models assume `WF_vars(Next)`: the clock ticks.
This is what the hardware does while the clock gate is open; what closes it is
in `SleepWake`, where the slow clock never stops (`WF_vars(Tick)`) and the core
executes while it is clocked (`WF_vars(Core)`, whose guard is the gate).
`Firmware` assumes the same of its core and timer, and that each device finishes
what it has begun, which the edge by edge modules show; nothing is assumed of
the buttons, and `BootsAndSamples` is about those that come to read zero for good.
The sequencer adds `SF_vars(Run(TRUE))`, the LIF
pipeline `SF_vars(Run(TRUE, FALSE))`: an operation that is given enabled cycles
again and again reads its next neuron, because address generator and stack need
a bounded number of them; sums and products of spikes, and so the instructions
that end by the read pipe, need the clock only.  Reset and the end of a window have no fairness.  No
fairness is assumed of the polling: `ResultReachesHost`, `AnswerArrives`
and `FrameDelivered` need the clock only; in `SpiLoader` a poll
that never reads loses nothing, since they are about the hardware's side.

## 4. Findings

1. *The end of an SPI transfer may be missed* (`host_spi_status`).  A poll holds
   `cyc` for three cycles; the answer is captured before the last.
   `mm_spi_valid` rising in the last one is cleared two edges later
   (`servant_spi.v:133`) though the firmware has read 0, and `main.c:93` polls
   for ever.  `servant_estu.v:247` masks this cycle for its own flag; the
   mutant that removes the mask breaks `ResultReachesHost` in the same way.
2. *Size register* (`spi_size_unit`).  Comments say bytes; the master counts
   bits, as `constants.h` expects.

Because of the first, `host_link` does not claim that every frame is answered,
only that once the transfer was seen, the result is; `Firmware` takes the status
of a transfer to be seen.

Further disagreements were met while modelling.  They are built into the models,
and where a property would be false because of one, it names the exception:
- A read of `mie` returns zero and, being `csrrs` with zero, writes `mie_mtie`
  back as zero: `csr_out` (`serv_csr.v:62-64`) lacks it.  `riscv-csr.h:506-513`
  declares no clobbers.  `main.c` never reads `mie` alone, and sets its bit once.
- `serv_csr.v:93` calls the conditions that write `mstatus` mutually exclusive;
  an interrupt that replaces an access to `mstatus`, or an `mret`, meets two of
  them, and its return leaves interrupts disabled.
- `serv_rf_if.v:93-115` ors addresses of the register file; an interrupt that
  replaces an access to `mepc` or `mtval`, or an `mret`, enters at `mtval`.
- An interrupt that replaces an `ecall` is reported with code 15, not 7.
- Of the fields whose mask is computed (`riscv-csr.h:327-330, 498-501,
  1056-1059`) the mask has one bit, so clearing by it leaves the others set.  The
  firmware uses none of them, and no property is about it.
- The period is `TIME + 2` ticks (`servant_slow_timer.v:46-56`), not `TIME`.
- `main.c:31` waits for a button "to be pressed", and `main.c:33` waits until all
  three read zero; `tb_soc.v:14` calls that reading "no buttons pressed", and the
  wait is over at once there.  `Found` is the code's test.
- `clk_gen_wb.v` ignores its reset; the only reset is at power-on.
- The start bit falls when the inference begins (`servant_estu.v:185`), not, as
  the header of that file says, when it is done.
- A handler that takes a period or longer (52 ticks) can sleep with a pulse
  unanswered: the request rises before the gate is closed and is not up any more
  when it is.  Inferences of this build are shorter.

## 5. Proofs

*The sequencer.*  `EstuSequencer_proofs` proves, for every program, depth of
memory, kind of each instruction and number of its results, delay of the
datapath, number of classes and length of the window:

| Theorem | Shows |
|---|---|
| `Inductive` | the inductive invariant `IInv` |
| `TypeCorrect` | types; the 8-bit `pc` never wraps |
| `DecodeCorrect` | what is decoded is the instruction at `pc` |
| `CompletionNotMissed` | no result crosses an instruction, no count is stepped over, each instruction ends with its yield: `timestep + 1` scores, one spike per class, or its number of results |
| `FetchSafe` | no fetch outside the program |
| `Refinement` | `EstuSequencer` implements `InferenceProgram` |

*Assumptions*: `ProgramAssumption` (the program fits the memory, the memory the
8-bit counter, instructions are six words, and more than one) and
`DatapathAssumption` (an instruction is of one kind, the last one is neither
sum nor product and has no part in V, a product may have no number of results
and the others have at least one, a result takes an edge at least, there are two
classes at least).  The microcode satisfies both.

*Argument*.  The properties are not inductive.  That six words are collected
needs `FetchInv`: the bit in the shift register, the offset counter and the
memory's output register move together.  Completion has an argument for each
way of ending:
- For results that are counted (`CountInv`), that the number is not stepped over
  needs the spacing of results: an instruction that loads the stack for each neuron
  leaves RUN for three edges after a read, so its results are at least four edges
  apart (`SpacingInv`), so after the last one has been counted outside RUN no
  other can be counted before RUN is reached (`CompletionInv`).
- A product is described by the edges it has been in RUN (`ProductInv`): both
  pipes and both counters are functions of that number, the first score comes at
  the third edge and the pulse that ends it `timestep + 4` edges after the
  first address, which leaves exactly `timestep + 1` scores.
- In the last instruction the pulse is up exactly when the selector has just been shifted
  out (`SelectorInv`).  Before it the selector rests at its first bit or beyond
  its last one, but for a late result of the previous instruction in `CLR`, which
  `valid_instr` undoes.

Each lemma `...Step` shows that one state of the FSM keeps `IInv`.  For the
refinement, FSM states map to three phases and the instruction executed is the
one *decoded* (`partial[0]`), not `pc`, so that `Refinement` rests on `DecodedAtPc`.

*The attention memory.*  `AttentionWindow_proofs` proves, for every number of
heads, rows, words of a key, lanes of a word and words of a row:

| Theorem | Shows |
|---|---|
| `Inductive` | the inductive invariant `IInv` |
| `TypeCorrect` | types: every memory is addressed within its words |
| `PointersInStep` | the write pointers agree with instruction and timestep |
| `KeysCorrect` | Q meets complete keys of this window only |
| `AttentionCorrect` | the scores added up are those of the timesteps at which the row spiked |
| `ListsCorrect` | the list of a row names each active group once and no other |
| `HistoryKept` | a group that has gone by stays as it is until the window ends |

*Assumption*: `WindowAssumption` (nothing is empty, a word has two lanes or more).

*Argument*.  The hardware's pointers are turned into the timestep they stand for
(`PointersAgree`).  With that, a key word below the pointer is of this window
(`KeysWritten`), a score word below the current group too (`ScoresFresh`), and a
row is described by the timesteps it has seen: each word of V holds the spikes
of its group, the list the groups with a spike in increasing order, and the last
entry is the current group exactly when that has spiked already (`RowsOK`).
That rows and heads do not touch each other is arithmetic of two-part addresses,
stated once in `Parts`.

*The LIF pipeline.*  `LifPipeline_proofs` proves, for every list of layers:

| Theorem | Shows |
|---|---|
| `Inductive`, `TypeCorrect` | the inductive invariant `IInv`, and types |
| `VoltagesReturn` | a voltage is written to the slot it was read from |
| `SlotsFixed` | a neuron has the same slot in every inference |
| `VoltagesKept` | clearing the pipeline between instructions loses no voltage |

*Assumption*: `LayersAssumption` (the last layer is the classifier, whose results are
single spikes, and such layers have gaps longer than the pipeline).

*Argument*.  The voltages in the pipeline are those of the last neurons read, in
order, so the distance of the two ring counters is their number
(`SlotsInOrder`); pulses after the last neuron come behind all of them and may
not be written (`ExtrasLast`).  A layer of words ends when the converters, which
hold up to three results back, have let its last word out, so all its voltages
have been written before (`WordsCounted`).  A layer of single spikes ends on a
count of results, which is exact because of the gap (`OneAtATime`).

*The host link.*  `HostLink_proofs` proves, for every number of words of a frame
and all durations of the firmware, of transfers and of inferences:

| Theorem | Shows |
|---|---|
| `Inductive` | the inductive invariant `IInv` |
| `FramesBegin` | words are encoded only while the accelerator rests with its start bit set |
| `WritesKept` | no write of the host meets the hardware's own clearing |
| `AnswersInTurn` | `HostLink` implements `FrameLoop`: an answer is that of the frame asked for |

*Assumption*: `HostLinkAssumption` (nothing takes no time, two frames at least).

*Argument*.  An access takes exactly three edges (`AccessInThree`), so the
acknowledges, start pulses and flags of one are gone before the next
(`StartPulse`, `TransferEnds`).  Before the transfer everything else rests
(`Asking`, `Fetching`); after it the frame is in exactly one of five stages:
encoding, starting, running, delivering, flagged (`Answered`).  No stage but the last
lets the firmware go on, and the flag is cleared by the access that shows it and
by no other (`FlagOnce`).  The finding `host_spi_status` is no obstacle: a missed
end stops the loop, and it never answers wrongly.

*The serial line.*  `Uart_proofs` proves, for every baud rate from four edges per
bit, number of bytes per word, set of answers and spacing of accesses:

| Theorem | Shows |
|---|---|
| `NeverDelayed` | the transmitter never rests between two bytes of a word |
| `Inductive` | the inductive invariant `IInv` |
| `WordsArrive`, `CoreWordsArrive` | `Uart` implements `ByteStream`: every byte of every answer arrives, once and in order |
| `OutBeforeTheGate` | when `uart_send` returns the whole answer has left, so the clock gate freezes no byte |
| `CoreMisses` | the core of the design satisfies the condition of the previous two |

*Assumptions*: `UartAssumption`; answers have 13 bits, as the result register.
`NeverDelayed` needs no more.  READY is up between two bytes as well, so
`uart_send` may return with most of the word still to be sent, and the others
have hypotheses on what keeps the next result away from it:
- `WaitsLongEnough`, of `WordsArrive`: the next result comes no earlier than a
  queue's length (`N` bytes on the line) after `uart_send` has returned (section
  3 says why there is enough), however the polls are spaced.  On instances whose
  accesses follow each other more closely TLC finds an answer mixed with the next
  when that time is 60 edges shorter.
- `CoreWaits`, of `CoreWordsArrive`: the polls miss the early READY
  (`PollsMissReady`), and then three edges, those of one access, are enough.
- `Inductive` holds under either; `OutBeforeTheGate` needs `PollsMissReady` as well,
  since its property is about no other core.

`PollsMissReady` compares two sets of edges, counted from the beginning of a
word: those at which the core can sample READY (`Moments`, the least set closed
under its distances) and those at which READY is up too soon (`ReadyTooSoon`: the first
edge of each stop bit but the last, and the last one but its last two edges).
`CoreMisses` computes it for `soc.v`: READY is up at 36, 76, ..., 276 and 316 to 317, the
core samples at 65 to 69, 202 to 210 and after 338.

*Argument*.  For `NeverDelayed`, the transmitter rests only when the count is at
either end (`RestsWhenEmpty`).  For the others, the invariant has a position on
each side of the line: the transmitter's in the byte it sends (`Elapsed`), from
its state, bit counter and timer, and the receiver's in the byte it hears
(`Heard`), from its own.  They are equal, or the receiver is between two bytes,
or it checks the stop bit of the previous one while the next has begun, which
happens when bits are short (`Following`).  The level the receiver sees is that of three
edges ago (`Levels`), so at the edge it samples, it is the bit it wants
(`InTheMiddle`): what it has gathered is the lower part of the byte (`Holds`).  `Left` bounds
the edges until both sides rest, and the firmware changes the result or starts the
queue only when none are left (`Spaced`).  For the core, `OnTime` adds the edge of the
word that is on the line (`Position`) and the edges until the access under way
samples READY (`ToSample`): their sum is always a moment of the core, so a READY that is seen
is that of the last two edges of the word.

*The SPI loader.*  `SpiLoader_proofs` proves, for every size of counter, memory,
buffer and flash and every set of transfers:

| Theorem | Shows |
|---|---|
| `Inductive` | the inductive invariant `IInv` |
| `LoadingReported` | a transfer reported as ended has put every word in its place |
| `SamplesOrdered` | the encoder gets the samples of a frame in their order |
| `WritesIntended` | only the transfer in progress writes, within its length |

*Assumption*: `SpiLoaderAssumption`.  Its last conjunct, on sizes, is what the
firmware does: `constants.h` gives whole words that fit the memory, and a
frame fills the input buffer exactly.  Any other size would leave its last
word incomplete.

*Argument*.  The bits counted tell how many bytes the master has read, and the two
flags behind it which of them is on its way to a word (`Counting`); so the
byte address, the flash's address and the word in assembly all follow from one
number (`Assembly`), all words below it are stored (`Stored`), and the
status goes up only when nothing is on its way (`Handshake`).  A full buffer
streams itself until the last sample, and is not written meanwhile, because the
firmware has yet to read the status (`Streaming`).

*The sampling loop.*  `Interrupts_proofs` proves, for every period, every set of
durations of the handler, every ratio of the clocks and both endings:

| Theorem | Shows |
|---|---|
| `Inductive` | the inductive invariant `IInv` |
| `TypeCorrect` | types; the counter never passes the comparison value by more than one |
| `HandlerSafe` | the handler is never interrupted |
| `NeverAsleepOnRequest` | the clock is never stopped under a request |
| `EquallySpaced` | requests are the comparison value and two ticks apart |
| `EachPulseAnswered` | one inference per pulse, if the handler fits (`HandlerFits`) |

*Assumption*: `SleepWakeAssumption` (a period and a number of instructions per
tick that are not zero, durations that are natural numbers).  `HandlerFits` is a
hypothesis of the last theorem only: the handler lasts two ticks at least, the
period less one tick at most, and the core executes six instructions per tick.
TLC finds a behaviour that breaks the property for each of the three bounds
relaxed by one.  The period is 52 ticks, a tick at least 17 instructions, and an inference
alone longer than two ticks.

*Argument*.  `HandlerNotInterrupted` is about the edge register that raises the
interrupt; it is kept because interrupts are enabled in the loop only, which a
return keeps only if the *saved* enable belongs to the loop as well, and because
the edge that was taken is remembered, so that the trap itself does not sample
it again (`EnableInv`).  The spacing needs the value of the counter to tell how
long ago the request rose, with the two ticks around its wrap told apart, and the
time before the first write, when the comparison with zero holds the request up
(`PeriodInv`).  The gate closes with the request as its new value and stands at
one place of the handler only (`GateInv`).  For `EachPulseAnswered` the place the
core has reached bounds the instructions since its work was done, so that it is back in
the loop, or asleep, before the request of the next pulse falls (`ReturnInv`,
`AnswerInv`).

*The control and status registers.*  `Interrupts_proofs` also proves, for every set
of bits, of registers accessed, of instructions an interrupt may replace and of words a
trap may store:

| Theorem | Shows |
|---|---|
| `CsrTypeCorrect` | what each register may hold, the inductive invariant `CsrTypes` |
| `FunctionsCorrect` | a function of the header reads and changes the register it names, and no other |
| `InterruptsTransparent` | an interrupt leaves no trace in the program it interrupts |
| `CausesCorrect` | `mcause` names every trap by its number |

*Assumptions*: `CsrAssumption` (bits of a word, registers of the header).
`InterruptsTransparent` has the hypothesis `OnMachine`: the program uses machine
registers by their own names, as `main.c` does (`sstatus` would be `mstatus` under a
name the property does not exempt).

*Argument*.  Every declaration of the header is one of a few forms, whose masks lie
within their fields (`Shapes`, `HeaderEntries`).  The decoder sees four bits of the lower byte of
an address, so a register with the lower byte of a machine register raises the
enable of that one and of no other (`Decoding`); the two address wires tell the four
of the register file apart (`FourAddresses`).  Reading and writing follow by register
(`ReadsItsRegister`, `ChangesItsRegister`).

*The firmware.*  `Firmware_proofs` proves, for every size of `.bss` and `.data`,
every address of the handler and every number of frames:

| Theorem | Shows |
|---|---|
| `Inductive` | the inductive invariant `IInv` |
| `InputsComplete` | an inference runs on complete memories, a whole frame and initialized globals |
| `HandlerReached` | an interrupt is possible only in the loop of `main`, with `mtvec` set and every device at rest |
| `TransfersAlone` | nothing of a transfer is changed while it runs |
| `FramesFollow` | every inference is given the frame after that of the previous one |
| `CoreRegisters` | the control and status registers behave as `CsrFile` allows |
| `AnswersFollow` | `Firmware` implements `FrameLoop`: one frame asked, its answer taken, and so on |

*Assumptions*: `FirmwareAssumption` (sizes are natural numbers, one frame at
least), `FlashAssumption` (all frames lie within the 24 address bits of the
loader: the hazard of `servant_spi.v:60` is outside the theorems) and, for the
registers, `WordsAssumption` (a word has the bits the firmware sets, and a trap
may store a word without any).

*Argument*.  Every step of `main` and of the handler is one access, so `IInv` says
for each device what it is as a function of the step: sections before `main`
(`Sections`), enables (`Enabling`, `Clocks`), what the registers and the master of a
transfer hold after how many of its steps (`Transferring`, `Memories`), in which of five
states the accelerator is (`Accelerating`), and which frame comes next
(`FramesInTurn`).  The accesses to control registers go through the operators of
`CsrFile`, so the proof decodes each register of the header that the program uses.
With that, each access is an access of `CsrFile`, and a timer interrupt or the
exception of a `wfi` one of its traps (`CoreRegisters`).  For `AnswersFollow` the frame
asked for is read from `input_buf_adr`, which the handler advances while an inference
runs, and the frame answered from the result the handler took last
(`Asked`, `Answered`); `Taken` says that this is the frame fed last or, between its
transfer and its answer, the one before it.  `HostLink` and `Firmware` thus
implement the same loop, one at the wires, one in the program.

Each inductive invariant was model-checked on the instance of its run before it
was proved.

**Only model-checked**: liveness (`InferenceEnds`, `LayerEnds`,
`ResultReachesHost`, `AnswerArrives`, `FrameDelivered`, `BootsAndSamples`,
`SamplesForever`), which is out of the prover's reach, since fairness needs
`ENABLED`.  Every safety property of a passing run is a theorem; those of
`uart`, `csr_file` and `sleep_wake` that need a hypothesis state it.

## 6. Not modelled, and the plan

Not modelled: the data path and bus interfaces of SERV, vendor cells and memories
as such, arithmetic of the datapath, offline tools and testbenches; what the
firmware does not use: access of the processor to the sample memory, the encoding
bypass, the byte mode and the receiver of the UART (so the byte lost when one
arrives as another is read, `servant_uart.v:115`, is no behaviour of this
system), `uart_recv`, `mtimer_get_raw_time`.

Hazards without a property: the selector restarted by a read of the result while the
last layer runs (`wr_controller.v:142`; the firmware reads only while no inference
runs, and so does the host of `EstuSequencer`); sizes that are not whole words, with
which a transfer never ends (`spi_master_asic.v:188`; `SpiLoaderAssumption`
excludes them, as `constants.h` does); masks of `riscv-csr.h:329` with one bit
(not used); the
input list stored two edges after the last word (`estu.v:345`, first item below);
the SPI address that overflows after about 979 000 frames (`servant_spi.v:60`).

Planned modules, most important first:
1. `StackCycles`: push and pop of `stack_bram2.v` edge by edge, implementing the
   steps of `AttentionWindow`; the input list stored by `estu.v:339-348`.
2. `Microcode`: the 26 instructions as data, the memory regions they read and
   write, read address generation; no instruction reads what is not yet written.
3. `Encoder`: delta modulator, one sample and one stored value per channel.

Planned abstract specifications: a list per row for `StackCycles`; the loop of
`SleepWake`, with `owed` as the pulses to answer, as what `Firmware` implements.

Planned proofs: the theorems of `CsrFile` carried over to `Firmware` through
`CoreRegisters`; that the planned modules implement the steps of `AttentionWindow`.
