-------------------------- MODULE AttentionWindowProps --------------------------
(***************************************************************************)
(* Properties of the attention memory.                                     *)
(***************************************************************************)
EXTENDS AttentionWindow

(* The pointers that outlive an instruction stay in step with the program  *)
(* and with the timestep, across windows and resets: K generation selects  *)
(* the pointer of its own head, each head has written one key per          *)
(* timestep, and v_ptr counts the V generations.                           *)
PointersAgree ==
  /\ k_ptr_sel = IF Kind = "KGen" THEN head ELSE 0
  /\ v_ptr = Heads * now + (CASE Kind \in {"KGen", "QKt"}  -> 0
                              [] Kind = "VGen"            -> head
                              [] Kind \in {"UseV", "Last"} -> Heads)
  /\ \A h \in Head :
       k_ptr[h] = KOut * now
                    + (IF Kind # "KGen" \/ h < head THEN KOut
                       ELSE IF h = head THEN beat ELSE 0)

(* Q is multiplied only by keys of this window, each with the words of the *)
(* timestep it stands for, the current one included.                       *)
KeysOfThisWindow ==
  Kind = "QKt" =>
    /\ timestep = now
    /\ \A i \in 0 .. now : Key(head, i) = {i}

(* Attention is causal and complete: the use of row r of V adds up, for    *)
(* every timestep of this window at which the row spiked and for no other, *)
(* the score of the key of that very timestep.                             *)
AttendsToHistory ==
  Kind = "UseV" =>
    \A r \in Row :
      Attended(head, r) = {<<t, {t}>> : t \in spikes[head][r]}

(* A list names each active group once: a group listed twice would be      *)
(* added twice, one that is missing would be dropped.                      *)
ListsAreExact ==
  Kind = "UseV" =>
    \A h \in Head, r \in Row :
      /\ Cardinality(Popped(h, r)) = stack[h][StackOffset(r)] - 1
      /\ Popped(h, r) = {r * Groups + t \div Group : t \in spikes[h][r]}

(* No step of an inference touches the past: once all timesteps of a group *)
(* have gone by, its words of V and its place in the lists stay as they    *)
(* are until the window ends, because later inferences use them again.     *)
HistoryIsKept ==
  [][\A h \in Head, r \in Row, g \in 0 .. Groups - 1 :
       LET a == AddrOffset(r) + g
       IN  Group * (g + 1) <= now =>
             /\ v_mem'[h][a] = v_mem[h][a]
             /\ (a \in Popped(h, r))' <=> a \in Popped(h, r)]_vars
=============================================================================
