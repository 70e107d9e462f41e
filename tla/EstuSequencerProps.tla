--------------------------- MODULE EstuSequencerProps ---------------------------
(***************************************************************************)
(* Properties of the instruction sequencer.                                *)
(***************************************************************************)
EXTENDS EstuSequencer

Words == 0 .. NUM_INSTR - 1

\* The instruction is decoded and in use in these states.
Decoding == {"CHECK_V", "READ_AE", "LOAD_AE", "SAVE_AE", "RUN"}

(* Types: the program counter stays in the instruction memory, so the     *)
(* 8-bit counter of instr_mem.v never wraps.                               *)
TypeOK ==
  /\ state \in States
  /\ pc \in 0 .. Depth
  /\ shift \subseteq Words
  /\ offset \in 0 .. 7
  /\ dout \in 0 .. PcSpace - 1 \cup {ZERO}
  /\ partial \in [Words -> 0 .. PcSpace - 1 \cup {ZERO}]
  /\ en_pipe \subseteq 0 .. 3 /\ pipe_valid_data \subseteq 0 .. 3
  /\ cnt \in Nat /\ counted \in Nat /\ v_ptr \in Nat
  /\ group \in 0 .. WORD - 1
  /\ lif \subseteq Nat \ {0}
  /\ selector \in 0 .. CLASSES
  /\ valid_dout_ll \in BOOLEAN

(* While an instruction is decoded and executed, the six word registers    *)
(* hold the six consecutive words at pc: the fetch counter, the fetch      *)
(* shift register and the one-edge latency of the memory agree.            *)
DecodedAtPc ==
  state \in Decoding => \A i \in Words : partial[i] = pc + i

(* No read of the fetch leaves the programmed part of the memory.          *)
FetchInBounds ==
  RdEnable(state = "FETCH") => InstrAddr < NumInstr + NUM_INSTR

(* What the instruction at pc has yielded, and what it is to yield: one    *)
(* score for each key up to this timestep, one spike for each class, or    *)
(* the number of results in its second word.                               *)
Yielded == IF pc = NumInstr THEN selector ELSE counted

Yield ==
  CASE pc \in Matmuls                     -> timestep + 1
    [] pc = NumInstr                      -> CLASSES
    [] pc \notin Matmuls \cup {NumInstr}  -> Neurons[pc]

(* An instruction starts with an empty datapath and nothing counted,       *)
(* whatever the one before left in flight; it never yields more than it    *)
(* should, also when the last result is counted while the state machine    *)
(* has left RUN to load the stack; and it ends, by whichever of the three  *)
(* signals, with exactly that yield.                                       *)
ResultsOfThisInstruction ==
  /\ state \in {"FETCH", "WAIT_INSTR", "CHECK_V"} =>
       /\ lif = {} /\ en_pipe = {} /\ pipe_valid_data = {}
       /\ group = 0 /\ cnt = 0 /\ counted = 0
  /\ state = "CHECK_V" => Yielded = 0
  /\ state \in Decoding => Yielded <= Yield
  /\ state = "RUN" /\ o_valid_data_op => Yielded = Yield

(* Refinement: each inference executes every instruction of the program    *)
(* once and in order; what is executed is what is decoded.                 *)
MappedPhase ==
  CASE state \in {"IDLE", "VALID_OP"}           -> "idle"
    [] state \in {"CLR", "FETCH", "WAIT_INSTR"} -> "fetch"
    [] state \in Decoding                       -> "execute"

MappedCurrent ==
  CASE state \in {"IDLE", "VALID_OP"}           -> 0
    [] state \in {"CLR", "FETCH", "WAIT_INSTR"} -> pc
    [] state \in Decoding                       -> partial[0]

Program == INSTANCE InferenceProgram WITH
  Stride <- PC_STEP, Last <- NumInstr,
  phase <- MappedPhase, current <- MappedCurrent

RefinesProgram == Program!Spec

(* Every inference that starts reaches its last instruction and the end:   *)
(* no instruction is waited for forever.                                   *)
InferenceEnds == (state = "CLR") ~> (state = "VALID_OP")
=============================================================================
