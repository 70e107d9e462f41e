---------------------------- MODULE AttentionWindow ----------------------------
(***************************************************************************)
(* The state that spiking self-attention keeps from one inference to the   *)
(* next: the pointers of wr_addr_gen.v, the keys, the spikes of V with     *)
(* their lists of active groups (stack_bram2.v), and the scores.           *)
(*                                                                         *)
(* One inference handles one timestep.  Its attention instructions are, in *)
(* program order: a K generation per head, a Q.K product per head, a V     *)
(* generation per head, and a use of V per head; then the classifier, the  *)
(* last instruction.  One step is one result written or one row used: the  *)
(* results of an instruction are at least 32 clock edges apart, and the    *)
(* three edges that follow a result (store the count of the row, move to   *)
(* the next row, load its count) belong to the step of that result.        *)
(*                                                                         *)
(* A key is represented by the timestep it was computed at.  Memories are  *)
(* never erased: what is left in them when a window of timesteps ends or   *)
(* the circuit is reset is STALE, or, for the bits of V and the lists,     *)
(* whatever it was.                                                        *)
(***************************************************************************)
EXTENDS Integers, FiniteSets

CONSTANTS
  Heads,   (* attention heads; 4, the width of k_ptr_sel                   *)
  Rows,    (* rows of V in a head                                          *)
  Group,   (* timesteps in a word of V, and scores in a word; 4            *)
  Groups,  (* words in a row of V; 50                                      *)
  KOut     (* words a key takes                                            *)

ASSUME WindowAssumption ==
  /\ Heads \in Nat \ {0} /\ Rows \in Nat \ {0} /\ KOut \in Nat \ {0}
  /\ Group \in Nat \ {0, 1} /\ Groups \in Nat \ {0}

Window == Group * Groups          \* timesteps of a window; 200
EOS    == Groups + 1              \* ext_offset_stack: a count and its entries
Head   == 0 .. Heads - 1
Row    == 0 .. Rows - 1
Lane   == 0 .. Group - 1
LAST   == 4 * Heads               \* position of the classifier

VARIABLES
  op,         (* position of the current instruction                       *)
  beat,       (* its results so far                                        *)
  k_ptr,      (* k_ptr0 .. k_ptr3                                          *)
  k_ptr_sel,
  v_ptr,
  k_mem,      (* the keys: timestep of each word                           *)
  scores,     (* the words of scores                                       *)
  v_mem,      (* the words of V: the set of lanes that hold a spike        *)
  stack,      (* counts and entries, row after row                         *)
  now,        (* history: the timestep of the window, counted from outside *)
  spikes      (* history: when each row of V spiked in this window         *)

history == <<now, spikes>>
pointers == <<k_ptr, k_ptr_sel, v_ptr>>
vars == <<op, beat, k_ptr, k_ptr_sel, v_ptr, k_mem, scores, v_mem, stack,
          now, spikes>>

STALE == -1
ZERO  == -2                       \* a score lane that was written as zero

KWords == 0 .. KOut * Window - 1
VWords == 0 .. Rows * Groups - 1
Slots  == 0 .. Rows * EOS - 1

Kind == CASE op < Heads                       -> "KGen"
          [] Heads <= op /\ op < 2 * Heads    -> "QKt"
          [] 2 * Heads <= op /\ op < 3 * Heads -> "VGen"
          [] 3 * Heads <= op /\ op < LAST     -> "UseV"
          [] op = LAST                        -> "Last"
head == op % Heads

timestep == v_ptr \div Heads

\* Mutant: the lists start anew at the first timestep of each group.
MutFirst == timestep % Group = 0

first_timestep == timestep = 0
-----------------------------------------------------------------------------
(* The lists of active groups: row r of a head has EOS slots, the first of *)
(* which holds the number of slots in use.                                 *)

\* Faulty variant: the words of a row overlap those of the next.
MutAddrOffset(r) == r * (EOS - 2)

StackOffset(r) == r * EOS
AddrOffset(r)  == r * (EOS - 1)

curr_wentries(h, r) ==
  IF first_timestep THEN 1 ELSE stack[h][StackOffset(r)]

Push(st, r, n, entry) ==
  [st EXCEPT ![StackOffset(r) + n] = entry, ![StackOffset(r)] = n + 1]

Store(st, r, n) == [st EXCEPT ![StackOffset(r)] = n]

\* The words of V that are popped for row r of head h.
Popped(h, r) ==
  {stack[h][StackOffset(r) + i] : i \in 1 .. stack[h][StackOffset(r)] - 1}

\* Mutant: the first timestep of a group keeps the bits of the old group.
MutDataOutV(group, spike) ==
  LET bit == IF spike THEN {timestep % Group} ELSE {}
  IN  (group \ {timestep % Group}) \cup bit

data_out_V(group, spike) ==
  LET bit == IF spike THEN {timestep % Group} ELSE {}
  IN  IF timestep % Group = 0 THEN bit
      ELSE (group \ {timestep % Group}) \cup bit

\* Mutant: a group is listed again at each of its spikes.
MutActiveGroup(group, spike) == spike

active_group_out(group, spike) ==
  spike /\ (timestep % Group = 0 \/ group = {})
-----------------------------------------------------------------------------
Init ==
  /\ op = 0 /\ beat = 0
  /\ k_ptr = [h \in Head |-> 0] /\ k_ptr_sel = 0 /\ v_ptr = 0
  /\ k_mem = [h \in Head |-> [a \in KWords |-> STALE]]
  /\ scores = [h \in Head |->
                 [g \in 0 .. Groups - 1 |-> [l \in Lane |-> {STALE}]]]
  /\ v_mem = [h \in Head |-> [a \in VWords |-> {}]]
  /\ stack = [h \in Head |-> [s \in Slots |-> 0]]
  /\ now = 0 /\ spikes = [h \in Head |-> [r \in Row |-> {}]]

\* After n results in all the instruction ends (valid_op).
Advance(n) ==
  IF beat + 1 = n THEN op' = op + 1 /\ beat' = 0
                  ELSE op' = op /\ beat' = beat + 1
ends(n) == beat + 1 = n

\* Mutant: the pointer is selected by the words written, not by valid_op.
MutKGen ==
  /\ Kind = "KGen"
  /\ k_mem' = [k_mem EXCEPT ![head][k_ptr[k_ptr_sel]] = now]
  /\ k_ptr' = [k_ptr EXCEPT ![k_ptr_sel] = @ + 1]
  /\ k_ptr_sel' = (k_ptr_sel + 1) % Heads
  /\ Advance(KOut)
  /\ UNCHANGED <<v_ptr, scores, v_mem, stack, history>>

(* A word of the key of this timestep, at the base address of the head of  *)
(* the instruction plus the pointer that k_ptr_sel selects.                *)
KGen ==
  /\ Kind = "KGen"
  /\ k_mem' = [k_mem EXCEPT ![head][k_ptr[k_ptr_sel]] = now]
  /\ k_ptr' = [k_ptr EXCEPT ![k_ptr_sel] = @ + 1]
  /\ k_ptr_sel' = IF ends(KOut) THEN (k_ptr_sel + 1) % Heads ELSE k_ptr_sel
  /\ Advance(KOut)
  /\ UNCHANGED <<v_ptr, scores, v_mem, stack, history>>

\* The words of key i of head h, by the timesteps they were computed at.
Key(h, i) == {k_mem[h][a] : a \in KOut * i .. KOut * (i + 1) - 1}

(* The score of one key: keys 0 .. timestep are read in order, each score  *)
(* goes to the next lane, and the first of a word clears the other lanes.  *)
QKt ==
  /\ Kind = "QKt"
  /\ LET g == beat \div Group
         l == beat % Group
         word == IF l = 0 THEN [i \in Lane |-> {ZERO}] ELSE scores[head][g]
     IN  scores' = [scores EXCEPT ![head][g] =
                                    [word EXCEPT ![l] = Key(head, beat)]]
  /\ Advance(timestep + 1)
  /\ UNCHANGED <<pointers, k_mem, v_mem, stack, history>>

(* One row of V at this timestep: its bit is written into the word of the  *)
(* group, and a group that becomes active is appended to the row's list.   *)
VGen(spike) ==
  /\ Kind = "VGen"
  /\ LET a == AddrOffset(beat) + timestep \div Group
         n == curr_wentries(head, beat)
         group == v_mem[head][a]
     IN  /\ v_mem' = [v_mem EXCEPT ![head][a] = data_out_V(group, spike)]
         /\ stack' = [stack EXCEPT ![head] =
                        IF active_group_out(group, spike)
                        THEN Push(@, beat, n, a) ELSE Store(@, beat, n)]
  /\ v_ptr' = IF ends(Rows) THEN v_ptr + 1 ELSE v_ptr
  /\ spikes' = IF spike THEN [spikes EXCEPT ![head][beat] = @ \cup {now}]
                        ELSE spikes
  /\ Advance(Rows)
  /\ UNCHANGED <<k_ptr, k_ptr_sel, k_mem, scores, now>>

(* The words of a row are popped and added up with their scores: entry a   *)
(* of row r is read with score word a - AddrOffset(r), lane by lane.       *)
Attended(h, r) ==
  UNION {{<<Group * (a - AddrOffset(r)) + l, scores[h][a - AddrOffset(r)][l]>> :
            l \in v_mem[h][a]} : a \in Popped(h, r)}

UseV ==
  /\ Kind = "UseV"
  /\ Advance(Rows)
  /\ UNCHANGED <<pointers, k_mem, scores, v_mem, stack, history>>

\* What the memories hold no longer belongs to this window.
Age ==
  /\ k_mem' = [h \in Head |-> [a \in KWords |-> STALE]]
  /\ scores' = [h \in Head |->
                  [g \in 0 .. Groups - 1 |-> [l \in Lane |-> {STALE}]]]
  /\ spikes' = [h \in Head |-> [r \in Row |-> {}]]
  /\ now' = 0
  /\ UNCHANGED <<v_mem, stack>>

\* Faulty variant: the window is closed one timestep early.
MutEndEarly == timestep + 1 = Window

end_inference == timestep = Window

(* The classifier ends the inference; at the last timestep end_inference   *)
(* clears the pointers, but not k_ptr_sel.                                 *)
Last ==
  /\ Kind = "Last"
  /\ op' = 0 /\ beat' = 0
  /\ k_ptr' = IF end_inference THEN [h \in Head |-> 0] ELSE k_ptr
  /\ v_ptr' = IF end_inference THEN 0 ELSE v_ptr
  /\ k_ptr_sel' = k_ptr_sel
  /\ IF now + 1 = Window
     THEN Age
     ELSE now' = now + 1 /\ UNCHANGED <<k_mem, scores, v_mem, stack, spikes>>

\* rst, at any time: the registers are cleared, the memories are not.
Reset ==
  /\ op' = 0 /\ beat' = 0
  /\ k_ptr' = [h \in Head |-> 0] /\ k_ptr_sel' = 0 /\ v_ptr' = 0
  /\ Age

Next ==
  \/ KGen \/ QKt \/ \E spike \in BOOLEAN : VGen(spike) \/ UseV \/ Last
  \/ Reset

Spec == Init /\ [][Next]_vars
=============================================================================
