------------------------ MODULE AttentionWindow_proofs ------------------------
(***************************************************************************)
(* Proofs about the attention memory, for every number of heads, rows,     *)
(* words of a key, lanes of a word and words of a row.                     *)
(***************************************************************************)
EXTENDS AttentionWindowProps, FiniteSetTheorems, TLAPS

(* Arithmetic of two-part addresses: the parts of n*q + b, b below n.      *)
LEMMA Parts ==
  ASSUME NEW n \in Nat \ {0}, NEW q \in Nat, NEW b \in 0 .. n - 1
  PROVE  /\ (n * q + b) \div n = q /\ (n * q + b) % n = b
         /\ n * q \in Nat /\ n * q = q * n /\ n * (q + 1) = n * q + n
  BY SMT

(* Every number has the two parts.                                         *)
LEMMA HasParts ==
  ASSUME NEW n \in Nat \ {0}, NEW x \in Nat
  PROVE  /\ x \div n \in Nat /\ x % n \in 0 .. n - 1
         /\ x = n * (x \div n) + (x % n)
<1>1. x \div n \in Nat /\ x % n \in 0 .. n - 1
  BY SMT
<1>2. x = n * (x \div n) + (x % n)
  BY SMT
<1> QED BY <1>1, <1>2

(* Blocks of n addresses do not overlap, and keep their order.             *)
LEMMA Blocks ==
  ASSUME NEW n \in Nat \ {0}, NEW p \in Nat, NEW q \in Nat
  PROVE  /\ p < q => n * p + n <= n * q
         /\ p <= q => n * p <= n * q
         /\ \A b, c \in 0 .. n - 1 : n * p + b = n * q + c => p = q /\ b = c
<1>1. ASSUME NEW a \in Nat, NEW b \in Nat, a < b PROVE n * a + n <= n * b
  <2>1. n * a + n = n * (a + 1)
    OBVIOUS
  <2>2. \A d \in Nat : n * (a + 1 + d) = n * (a + 1) + n * d /\ n * d >= 0
    OBVIOUS
  <2> QED BY <1>1, <2>1, <2>2, b = a + 1 + (b - a - 1)
<1>2. ASSUME NEW b \in 0 .. n - 1, NEW c \in 0 .. n - 1, n * p + b = n * q + c
      PROVE  p = q /\ b = c
  <2>1. (n * p + b) \div n = p /\ (n * p + b) % n = b
    BY Parts
  <2>2. (n * q + c) \div n = q /\ (n * q + c) % n = c
    BY Parts
  <2> QED BY <1>2, <2>1, <2>2
<1> QED BY <1>1, <1>2
-----------------------------------------------------------------------------
(* Where the program is.                                                   *)

\* The kind of instruction after the last one of a kind.
Following(k) == CASE k = "KGen" -> "QKt" [] k = "QKt" -> "VGen"
                  [] k = "VGen" -> "UseV" [] k = "UseV" -> "Last"

\* The results an instruction has.
Results == CASE Kind = "KGen"           -> KOut
             [] Kind = "QKt"            -> now + 1
             [] Kind \in {"VGen", "UseV"} -> Rows
             [] Kind = "Last"           -> 1

PositionOK == op \in 0 .. LAST /\ beat \in 0 .. Results - 1

\* What a position is, by the kind and the head of its instruction.
Placed ==
  /\ head \in Head
  /\ \/ Kind = "KGen" /\ op = head
     \/ Kind = "QKt"  /\ op = Heads + head
     \/ Kind = "VGen" /\ op = 2 * Heads + head
     \/ Kind = "UseV" /\ op = 3 * Heads + head
     \/ Kind = "Last" /\ op = LAST /\ head = 0

(* The position is that of one of the five kinds, for one of the heads.    *)
LEMMA Position ==
  op \in 0 .. LAST => Placed
<1> SUFFICES ASSUME op \in 0 .. LAST PROVE Placed
  OBVIOUS
<1> USE WindowAssumption DEF LAST, Head, Placed
<1>1. CASE op < Heads
  BY <1>1 DEF Kind, head
<1>2. CASE Heads <= op /\ op < 2 * Heads
  <2>1. PICK b \in 0 .. Heads - 1 : op = Heads * 1 + b
    BY <1>2
  <2> QED BY <1>2, <2>1, Parts DEF Kind, head
<1>3. CASE 2 * Heads <= op /\ op < 3 * Heads
  <2>1. PICK b \in 0 .. Heads - 1 : op = Heads * 2 + b
    BY <1>3
  <2> QED BY <1>3, <2>1, Parts DEF Kind, head
<1>4. CASE 3 * Heads <= op /\ op < LAST
  <2>1. PICK b \in 0 .. Heads - 1 : op = Heads * 3 + b
    BY <1>4
  <2> QED BY <1>4, <2>1, Parts DEF Kind, head
<1>5. CASE op = LAST
  <2>1. op = Heads * 4 + 0
    BY <1>5
  <2>2. head = 0
    BY <2>1, Parts DEF head
  <2>3. Kind = "Last"
    BY <1>5 DEF Kind
  <2> QED BY <1>5, <2>2, <2>3
<1> QED BY <1>1, <1>2, <1>3, <1>4, <1>5

(* The same of the next state.                                             *)
LEMMA PositionNext == op' \in 0 .. LAST => Placed'
<1>1. (op \in 0 .. LAST => Placed)'
  BY Position, PTL
<1> QED BY <1>1 DEF LAST

(* An instruction that has more results stays; the last result moves to    *)
(* the next head, and that of the last head to the next kind.              *)
LEMMA Moves ==
  ASSUME op \in 0 .. LAST, Kind # "Last", NEW n \in Nat \ {0}, beat \in 0 .. n - 1,
         Advance(n)
  PROVE  /\ op' \in 0 .. LAST
         /\ \/ beat + 1 < n /\ beat' = beat + 1 /\ Kind' = Kind /\ head' = head
            \/ /\ beat + 1 = n /\ beat' = 0
               /\ \/ head + 1 < Heads /\ Kind' = Kind /\ head' = head + 1
                  \/ head + 1 = Heads /\ Kind' = Following(Kind) /\ head' = 0
<1> USE WindowAssumption
<1>1. CASE beat + 1 < n
  BY <1>1 DEF Advance, Kind, head, LAST
<1>2. CASE beat + 1 = n
  <2>1. Placed
    BY Position
  <2>2. beat' = 0 /\ op' = op + 1 /\ op' \in 0 .. LAST
    BY <1>2, <2>1 DEF Advance, Placed, LAST, Head
  <2>3. Placed'
    BY <2>2, PositionNext
  <2> QED
    BY <1>2, <2>1, <2>2, <2>3 DEF Placed, Head, LAST, Following
<1> QED BY <1>1, <1>2
-----------------------------------------------------------------------------
(* The inductive invariant, in parts.                                      *)

TypeOK ==
  /\ PositionOK
  /\ now \in 0 .. Window - 1
  /\ k_ptr \in [Head -> Nat] /\ k_ptr_sel \in Head /\ v_ptr \in Nat
  /\ k_mem \in [Head -> [KWords -> Int]]
  /\ scores \in [Head -> [0 .. Groups - 1 -> [Lane -> SUBSET Int]]]
  /\ v_mem \in [Head -> [VWords -> SUBSET Lane]]
  /\ stack \in [Head -> [Slots -> Nat]]
  /\ spikes \in [Head -> [Row -> SUBSET Nat]]

\* Word j of key i has been written in this window.
KeysWritten ==
  \A h \in Head, i \in 0 .. Window - 1, j \in 0 .. KOut - 1 :
    KOut * i + j < k_ptr[h] => k_mem[h][KOut * i + j] = i

\* Result b of head h comes before the next one.
Past(h, b) == h < head \/ (h = head /\ b < beat)

\* Lane l of score word g is the score of its key in the current inference.
ScoreWritten(h, i) ==
  CASE Kind = "KGen" -> FALSE
    [] Kind = "QKt"  -> i <= now /\ Past(h, i)
    [] Kind \in {"VGen", "UseV", "Last"} -> i <= now

ScoresFresh ==
  \A h \in Head, g \in 0 .. Groups - 1, l \in Lane :
    ScoreWritten(h, Group * g + l) => scores[h][g][l] = {Group * g + l}

\* The V generation of this timestep has been done for row r of head h.
RowDone(h, r) ==
  \/ Kind \in {"UseV", "Last"}
  \/ Kind = "VGen" /\ Past(h, r)

\* The timesteps of this window that row r of head h has seen.
Seen(h, r) == IF RowDone(h, r) THEN now + 1 ELSE now

\* Timesteps s have a spike in group g.
Active(s, g) == \E l \in Lane : Group * g + l \in s

(* The first n timesteps of a row are in memory m: the lanes of its words  *)
(* are the spikes s, and the k - 1 entries of its list in st name the      *)
(* active groups, in order.                                                *)
BitsOK(m, s, n, r) ==
  \A g \in 0 .. Groups - 1, l \in Lane :
    Group * g < n => (l \in m[AddrOffset(r) + g] <=> Group * g + l \in s)

ListOK(st, k, s, r) ==
  LET entry(i) == st[StackOffset(r) + i]
  IN  /\ k \in 1 .. EOS
      /\ \A i \in 1 .. k - 1 :
           \E g \in 0 .. Groups - 1 :
             entry(i) = AddrOffset(r) + g /\ Active(s, g) /\ i - 1 <= g
      /\ \A i, j \in 1 .. k - 1 : i < j => entry(i) < entry(j)
      /\ \A g \in 0 .. Groups - 1 :
           Active(s, g) => \E i \in 1 .. k - 1 : entry(i) = AddrOffset(r) + g

RowOK(m, st, s, n, r) ==
  /\ s \subseteq 0 .. n - 1
  /\ BitsOK(m, s, n, r)
  /\ n > 0 => ListOK(st, st[StackOffset(r)], s, r)

RowsOK ==
  \A h \in Head, r \in Row :
    RowOK(v_mem[h], stack[h], spikes[h][r], Seen(h, r), r)

IInv == TypeOK /\ PointersAgree /\ KeysWritten /\ ScoresFresh /\ RowsOK
-----------------------------------------------------------------------------
(* Addresses and times.                                                    *)

(* The words and the slots of a row are its own.                           *)
LEMMA Addresses ==
  ASSUME NEW r \in Row
  PROVE  /\ AddrOffset(r) \in Nat /\ StackOffset(r) \in Nat
         /\ \A g \in 0 .. Groups - 1 : AddrOffset(r) + g \in VWords
         /\ \A i \in 0 .. Groups : StackOffset(r) + i \in Slots
         /\ \A q \in Row, g, k \in 0 .. Groups - 1 :
              AddrOffset(r) + g = AddrOffset(q) + k => r = q /\ g = k
         /\ \A q \in Row, i, j \in 0 .. Groups :
              StackOffset(r) + i = StackOffset(q) + j => r = q /\ i = j
<1> USE WindowAssumption DEF Row
<1>1. Groups \in Nat \ {0} /\ EOS \in Nat \ {0} /\ EOS = Groups + 1 /\ Rows \in Nat
      /\ Row \subseteq Nat
  BY DEF EOS
<1>2. \A q \in Row : /\ AddrOffset(q) = Groups * q /\ Groups * q \in Nat
                     /\ StackOffset(q) = EOS * q /\ EOS * q \in Nat
  BY <1>1 DEF AddrOffset, StackOffset
<1>3. Groups * r + Groups <= Rows * Groups
  <2>1. Groups * r + Groups <= Groups * Rows
    BY <1>1, Blocks, r < Rows
  <2> QED BY <1>1, <2>1
<1>4. EOS * r + EOS <= Rows * EOS
  <2>1. EOS * r + EOS <= EOS * Rows
    BY <1>1, Blocks, r < Rows
  <2> QED BY <1>1, <2>1
<1>5. \A g \in 0 .. Groups - 1 : AddrOffset(r) + g \in VWords
  BY <1>1, <1>2, <1>3 DEF VWords
<1>6. \A i \in 0 .. Groups : StackOffset(r) + i \in Slots
  BY <1>1, <1>2, <1>4 DEF Slots
<1>7. ASSUME NEW q \in Row, NEW g \in 0 .. Groups - 1, NEW k \in 0 .. Groups - 1,
             AddrOffset(r) + g = AddrOffset(q) + k
      PROVE  r = q /\ g = k
  <2>1. Groups * r + g = Groups * q + k
    BY <1>2, <1>7
  <2> QED BY <1>1, <2>1, Blocks
<1>8. ASSUME NEW q \in Row, NEW i \in 0 .. Groups, NEW j \in 0 .. Groups,
             StackOffset(r) + i = StackOffset(q) + j
      PROVE  r = q /\ i = j
  <2>1. i \in 0 .. EOS - 1 /\ j \in 0 .. EOS - 1
    BY DEF EOS
  <2>2. EOS * r + i = EOS * q + j
    BY <1>2, <1>8
  <2> QED BY <1>1, <2>1, <2>2, Blocks
<1> QED BY <1>2, <1>5, <1>6, <1>7, <1>8

(* A timestep of the window is a lane of a word.                           *)
LEMMA Lanes ==
  ASSUME NEW t \in 0 .. Window - 1
  PROVE  /\ t \div Group \in 0 .. Groups - 1 /\ t % Group \in Lane
         /\ t = Group * (t \div Group) + (t % Group)
         /\ Group * (t \div Group) \in Nat
<1> USE WindowAssumption DEF Window, Lane
<1>1. t \in Nat /\ Group \in Nat \ {0} /\ Window \in Nat
  OBVIOUS
<1>2. /\ t \div Group \in Nat /\ t % Group \in 0 .. Group - 1
      /\ t = Group * (t \div Group) + (t % Group)
  BY <1>1, HasParts
<1>3. t \div Group < Groups
  <2>1. SUFFICES ASSUME Groups <= t \div Group PROVE FALSE
    BY <1>2
  <2>2. Group * Groups <= Group * (t \div Group)
    BY <1>1, <1>2, <2>1, Blocks
  <2> QED BY <1>1, <1>2, <2>2
<1> QED BY <1>1, <1>2, <1>3

(* The lane of a word is a timestep of the window, and of that word.       *)
LEMMA LaneTimes ==
  ASSUME NEW g \in 0 .. Groups - 1, NEW l \in Lane
  PROVE  /\ Group * g + l \in 0 .. Window - 1 /\ Group * g \in Nat
         /\ (Group * g + l) \div Group = g /\ (Group * g + l) % Group = l
<1> USE WindowAssumption DEF Window, Lane
<1>1. Group * g + Group <= Group * Groups
  BY Blocks
<1> QED BY <1>1, Parts

(* The timestep the hardware counts is that of the window, until V has     *)
(* been generated for all heads.                                           *)
LEMMA Times ==
  ASSUME TypeOK, PointersAgree
  PROVE  timestep = IF Kind \in {"UseV", "Last"} THEN now + 1 ELSE now
<1>1. op \in 0 .. LAST /\ now \in Nat /\ Heads \in Nat \ {0}
  BY WindowAssumption DEF TypeOK, PositionOK, Window
<1>2. head \in Head /\ Kind \in {"KGen", "QKt", "VGen", "UseV", "Last"}
  BY <1>1, Position DEF Placed
<1>3. CASE Kind \in {"KGen", "QKt"}
  <2>1. v_ptr = Heads * now + 0 /\ 0 \in 0 .. Heads - 1
    BY <1>1, <1>3 DEF PointersAgree
  <2>2. v_ptr \div Heads = now
    BY <1>1, <2>1, Parts
  <2> QED BY <1>3, <2>2 DEF timestep
<1>4. CASE Kind = "VGen"
  <2>1. v_ptr = Heads * now + head
    BY <1>1, <1>4 DEF PointersAgree
  <2>2. v_ptr \div Heads = now
    BY <1>1, <1>2, <2>1, Parts DEF Head
  <2> QED BY <1>4, <2>2 DEF timestep
<1>5. CASE Kind \in {"UseV", "Last"}
  <2>1. v_ptr = Heads * now + Heads
    BY <1>1, <1>5 DEF PointersAgree
  <2>2. PICK t \in Nat : t = now + 1
    BY <1>1
  <2>3. Heads * (now + 1) = Heads * now + Heads
    BY <1>1
  <2>4. v_ptr = Heads * t + 0 /\ 0 \in 0 .. Heads - 1
    BY <1>1, <2>1, <2>2, <2>3
  <2>5. v_ptr \div Heads = t
    BY <1>1, <2>4, Parts
  <2> QED BY <1>5, <2>2, <2>5 DEF timestep
<1> QED BY <1>2, <1>3, <1>4, <1>5
-----------------------------------------------------------------------------
(* The pointers.                                                           *)

(* At the start of a program the first K generation is next.               *)
LEMMA AtStart == op = 0 => Kind = "KGen" /\ head = 0
<1>1. ASSUME op = 0 PROVE Placed
  BY <1>1, Position, WindowAssumption DEF LAST
<1> QED BY <1>1, WindowAssumption DEF Placed, Head, LAST

(* The same of the next state.                                             *)
LEMMA AtStartNext == op' = 0 => Kind' = "KGen" /\ head' = 0
<1>1. (op = 0 => Kind = "KGen" /\ head = 0)'
  BY AtStart, PTL
<1> QED BY <1>1

(* Products with the timestep, as the proofs below use them.               *)
LEMMA Products ==
  ASSUME TypeOK
  PROVE  /\ now \in Nat /\ KOut * now \in Nat /\ Heads * now \in Nat
         /\ KOut * (now + 1) = KOut * now + KOut
         /\ Heads * (now + 1) = Heads * now + Heads
         /\ KOut * 0 = 0 /\ Heads * 0 = 0
<1>1. now \in Nat /\ KOut \in Nat /\ Heads \in Nat
  BY WindowAssumption DEF TypeOK, Window
<1> QED BY <1>1

(* The pointers agree initially.                                           *)
LEMMA PointersInit == Init => PointersAgree
<1> SUFFICES ASSUME Init PROVE PointersAgree
  OBVIOUS
<1>1. Kind = "KGen" /\ head = 0
  BY AtStart DEF Init
<1> QED BY <1>1, WindowAssumption DEF Init, PointersAgree, Head

(* Every step keeps the pointers together.                                 *)
LEMMA PointersStep == TypeOK /\ PointersAgree /\ [Next]_vars => PointersAgree'
<1> SUFFICES ASSUME TypeOK, PointersAgree, [Next]_vars PROVE PointersAgree'
  OBVIOUS
<1>0. /\ Heads \in Nat \ {0} /\ KOut \in Nat \ {0} /\ Rows \in Nat \ {0}
      /\ Window \in Nat \ {0}
  BY WindowAssumption DEF Window
<1>a. /\ op \in 0 .. LAST /\ head \in 0 .. Heads - 1
      /\ k_ptr \in [Head -> Nat] /\ beat \in Nat
      /\ Kind \in {"KGen", "QKt", "VGen", "UseV", "Last"}
  BY <1>0, Position DEF TypeOK, PositionOK, Placed, Head, Results, Window
<1>1. ASSUME KGen PROVE PointersAgree'
  <2>1. /\ beat \in 0 .. KOut - 1 /\ Kind = "KGen" /\ Advance(KOut)
        /\ UNCHANGED <<v_ptr, now>>
    BY <1>1 DEF KGen, TypeOK, PositionOK, Results, history
  <2>2. \/ beat + 1 < KOut /\ beat' = beat + 1 /\ Kind' = "KGen" /\ head' = head
        \/ /\ beat + 1 = KOut /\ beat' = 0
           /\ \/ head + 1 < Heads /\ Kind' = "KGen" /\ head' = head + 1
              \/ head + 1 = Heads /\ Kind' = "QKt" /\ head' = 0
    BY <1>0, <1>a, <2>1, Moves DEF Following
  <2>3. k_ptr_sel = head /\ k_ptr[head] = KOut * now + beat
    BY <1>a, <2>1 DEF PointersAgree, Head
  <2>4. k_ptr' = [k_ptr EXCEPT ![head] = @ + 1]
    BY <1>1, <2>3 DEF KGen
  <2>5. k_ptr_sel' = IF Kind' = "KGen" THEN head' ELSE 0
    <3>1. CASE beat + 1 < KOut
      BY <1>1, <2>1, <2>2, <2>3, <3>1 DEF KGen, ends
    <3>2. CASE beat + 1 = KOut
      <4>1. k_ptr_sel' = (head + 1) % Heads
        BY <1>1, <2>3, <3>2 DEF KGen, ends
      <4>2. head + 1 < Heads => (head + 1) % Heads = head + 1
        BY <1>0, <1>a
      <4>3. Heads % Heads = 0
        <5>1. Heads = Heads * 1 + 0 /\ 0 \in 0 .. Heads - 1
          BY <1>0
        <5> QED BY <1>0, <5>1, Parts
      <4> QED BY <1>0, <1>a, <2>2, <3>2, <4>1, <4>2, <4>3
    <3> QED BY <1>0, <2>1, <3>1, <3>2
  <2>6. \A h \in Head :
          k_ptr'[h] = KOut * now + (IF Kind' # "KGen" \/ h < head' THEN KOut
                                    ELSE IF h = head' THEN beat' ELSE 0)
    <3> SUFFICES ASSUME NEW h \in Head
                 PROVE  k_ptr'[h] = KOut * now + (IF Kind' # "KGen" \/ h < head' THEN KOut
                                    ELSE IF h = head' THEN beat' ELSE 0)
      OBVIOUS
    <3>1. k_ptr[h] = KOut * now + (IF h < head THEN KOut
                                   ELSE IF h = head THEN beat ELSE 0)
      BY <2>1 DEF PointersAgree
    <3>2. k_ptr'[h] = IF h = head THEN k_ptr[h] + 1 ELSE k_ptr[h]
      BY <1>a, <2>4
    <3>3. KOut * now \in Nat
      BY Products
    <3> HIDE <1>1
    <3> QED BY <1>0, <1>a, <2>1, <2>2, <3>1, <3>2, <3>3 DEF Head
  <2>7. v_ptr' = Heads * now'
    BY <2>1, Products DEF PointersAgree
  <2> QED BY <2>1, <2>2, <2>5, <2>6, <2>7, Products DEF PointersAgree
<1>2. ASSUME QKt PROVE PointersAgree'
  <2>1. /\ Kind = "QKt" /\ beat \in 0 .. now /\ UNCHANGED <<k_ptr, k_ptr_sel, v_ptr, now>>
        /\ Advance(now + 1)
    BY <1>2, Times DEF QKt, TypeOK, PositionOK, Results, pointers, history
  <2>2. \/ Kind' = "QKt" /\ head' = head
        \/ head + 1 < Heads /\ Kind' = "QKt" /\ head' = head + 1
        \/ Kind' = "VGen" /\ head' = 0
    <3>1. PICK n \in Nat \ {0} : n = now + 1
      BY Products
    <3>2. beat \in 0 .. n - 1 /\ Advance(n) /\ Kind # "Last"
      BY <2>1, <3>1, Products
    <3> QED BY <1>a, <2>1, <3>2, Moves DEF Following
  <2> QED BY <1>a, <2>1, <2>2, Products DEF PointersAgree
<1>3. ASSUME NEW spike \in BOOLEAN, VGen(spike) PROVE PointersAgree'
  <2>1. /\ beat \in 0 .. Rows - 1 /\ Kind = "VGen" /\ Advance(Rows)
        /\ UNCHANGED <<k_ptr, k_ptr_sel, now>>
    BY <1>3 DEF VGen, TypeOK, PositionOK, Results
  <2>2. \/ beat + 1 < Rows /\ beat' = beat + 1 /\ Kind' = "VGen" /\ head' = head
        \/ /\ beat + 1 = Rows /\ beat' = 0
           /\ \/ head + 1 < Heads /\ Kind' = "VGen" /\ head' = head + 1
              \/ head + 1 = Heads /\ Kind' = "UseV" /\ head' = 0
    BY <1>0, <1>a, <2>1, Moves DEF Following
  <2>3. v_ptr' = IF beat + 1 = Rows THEN v_ptr + 1 ELSE v_ptr
    BY <1>3 DEF VGen, ends
  <2>4. v_ptr = Heads * now + head
    BY <2>1 DEF PointersAgree
  <2>5. v_ptr' = Heads * now + (IF Kind' = "VGen" THEN head' ELSE Heads)
    <3>1. Heads * now \in Nat
      BY Products
    <3> HIDE <1>3
    <3> QED BY <1>0, <1>a, <2>2, <2>3, <2>4, <3>1
  <2> QED BY <2>1, <2>2, <2>5, Products DEF PointersAgree
<1>4. ASSUME UseV PROVE PointersAgree'
  <2>1. /\ beat \in 0 .. Rows - 1 /\ Kind = "UseV" /\ Advance(Rows)
        /\ UNCHANGED <<k_ptr, k_ptr_sel, v_ptr, now>>
    BY <1>4 DEF UseV, TypeOK, PositionOK, Results, pointers, history
  <2>2. Kind' \in {"UseV", "Last"}
    BY <1>0, <1>a, <2>1, Moves DEF Following
  <2> QED BY <2>1, <2>2, Products DEF PointersAgree
<1>5. ASSUME Last PROVE PointersAgree'
  <2>1. /\ Kind = "Last" /\ k_ptr_sel = 0 /\ v_ptr = Heads * now + Heads
        /\ \A h \in Head : k_ptr[h] = KOut * now + KOut
    BY <1>5 DEF Last, PointersAgree
  <2>2. Kind' = "KGen" /\ head' = 0 /\ beat' = 0 /\ k_ptr_sel' = 0
    BY <1>5, <2>1, AtStartNext DEF Last
  <2>3. end_inference <=> now + 1 = Window
    BY <2>1, Times DEF end_inference
  <2>4. CASE now + 1 = Window
    <3>1. now' = 0 /\ v_ptr' = 0 /\ k_ptr' = [h \in Head |-> 0]
      BY <1>5, <2>3, <2>4 DEF Last, Age
    <3> QED BY <1>0, <2>2, <3>1, Products DEF PointersAgree, Head
  <2>5. CASE now + 1 # Window
    <3>1. now' = now + 1 /\ v_ptr' = v_ptr /\ k_ptr' = k_ptr
      BY <1>5, <2>3, <2>5 DEF Last
    <3> QED BY <1>0, <2>1, <2>2, <3>1, Products DEF PointersAgree, Head
  <2> QED BY <2>4, <2>5
<1>6. ASSUME Reset PROVE PointersAgree'
  <2>1. Kind' = "KGen" /\ head' = 0 /\ beat' = 0 /\ k_ptr_sel' = 0 /\ now' = 0
        /\ v_ptr' = 0 /\ k_ptr' = [h \in Head |-> 0]
    BY <1>6, AtStartNext DEF Reset, Age
  <2> QED BY <1>0, <2>1, Products DEF PointersAgree, Head
<1>7. CASE UNCHANGED vars
  BY <1>7 DEF vars, PointersAgree, Kind, head
<1> QED BY <1>1, <1>2, <1>3, <1>4, <1>5, <1>6, <1>7 DEF Next
-----------------------------------------------------------------------------
(* The types.                                                              *)

(* The types hold initially.                                               *)
LEMMA TypeInit == Init => TypeOK
<1> SUFFICES ASSUME Init PROVE TypeOK
  OBVIOUS
<1>1. Kind = "KGen" /\ op \in 0 .. LAST /\ Window \in Nat \ {0}
  BY AtStart, WindowAssumption DEF Init, LAST, Window
<1>2. PositionOK
  BY <1>1, WindowAssumption DEF Init, PositionOK, Results
<1>3. stack \in [Head -> [Slots -> Nat]] /\ k_ptr \in [Head -> Nat]
      /\ k_ptr_sel \in Head /\ v_ptr \in Nat /\ now \in 0 .. Window - 1
  BY <1>1, WindowAssumption DEF Init, Head
<1>4. k_mem \in [Head -> [KWords -> Int]]
      /\ scores \in [Head -> [0 .. Groups - 1 -> [Lane -> SUBSET Int]]]
  BY DEF Init, STALE
<1>5. v_mem \in [Head -> [VWords -> SUBSET Lane]] /\ spikes \in [Head -> [Row -> SUBSET Nat]]
  BY DEF Init
<1> QED BY <1>2, <1>3, <1>4, <1>5 DEF TypeOK

(* Where an instruction is when its results have been counted.             *)
LEMMA PositionStep == TypeOK /\ PointersAgree /\ [Next]_vars => PositionOK'
<1> SUFFICES ASSUME TypeOK, PointersAgree, [Next]_vars PROVE PositionOK'
  OBVIOUS
<1>0. /\ KOut \in Nat \ {0} /\ Rows \in Nat \ {0} /\ now \in Nat
      /\ Heads \in Nat \ {0} /\ 0 \in 0 .. LAST
  BY WindowAssumption, Products DEF LAST
<1>a. op \in 0 .. LAST /\ beat \in 0 .. Results - 1 /\ head \in 0 .. Heads - 1
  BY Position DEF TypeOK, PositionOK, Placed, Head
<1>1. ASSUME KGen PROVE PositionOK'
  <2>1. Kind = "KGen" /\ beat \in 0 .. KOut - 1 /\ Advance(KOut) /\ now' = now
    BY <1>1, <1>a DEF KGen, Results, history
  <2>2. /\ op' \in 0 .. LAST
        /\ \/ Kind' = "KGen" /\ beat' \in 0 .. KOut - 1
           \/ Kind' = "QKt" /\ beat' = 0
    BY <1>0, <1>a, <2>1, Moves DEF Following
  <2> QED BY <1>0, <2>1, <2>2 DEF PositionOK, Results
<1>2. ASSUME QKt PROVE PositionOK'
  <2>1. PICK n \in Nat \ {0} : n = now + 1
    BY <1>0
  <2>2. Kind = "QKt" /\ beat \in 0 .. n - 1 /\ Advance(n) /\ now' = now
    BY <1>2, <1>a, <2>1, Times DEF QKt, Results, history
  <2>3. /\ op' \in 0 .. LAST
        /\ \/ Kind' = "QKt" /\ beat' \in 0 .. n - 1
           \/ Kind' = "VGen" /\ beat' = 0
    BY <1>0, <1>a, <2>2, Moves DEF Following
  <2> QED BY <1>0, <2>1, <2>2, <2>3 DEF PositionOK, Results
<1>3. ASSUME NEW spike \in BOOLEAN, VGen(spike) PROVE PositionOK'
  <2>1. Kind = "VGen" /\ beat \in 0 .. Rows - 1 /\ Advance(Rows)
    BY <1>3, <1>a DEF VGen, Results
  <2>2. /\ op' \in 0 .. LAST
        /\ \/ Kind' = "VGen" /\ beat' \in 0 .. Rows - 1
           \/ Kind' = "UseV" /\ beat' = 0
    BY <1>0, <1>a, <2>1, Moves DEF Following
  <2> QED BY <1>0, <2>2 DEF PositionOK, Results
<1>4. ASSUME UseV PROVE PositionOK'
  <2>1. Kind = "UseV" /\ beat \in 0 .. Rows - 1 /\ Advance(Rows)
    BY <1>4, <1>a DEF UseV, Results
  <2>2. /\ op' \in 0 .. LAST
        /\ \/ Kind' = "UseV" /\ beat' \in 0 .. Rows - 1
           \/ Kind' = "Last" /\ beat' = 0
    BY <1>0, <1>a, <2>1, Moves DEF Following
  <2> QED BY <1>0, <2>2 DEF PositionOK, Results
<1>5. ASSUME Last \/ Reset PROVE PositionOK'
  <2>1. op' = 0 /\ beat' = 0
    BY <1>5 DEF Last, Reset
  <2>2. Kind' = "KGen"
    BY <2>1, AtStartNext
  <2> QED BY <1>0, <2>1, <2>2 DEF PositionOK, Results, LAST
<1>6. CASE UNCHANGED vars
  BY <1>6, <1>a DEF vars, PositionOK, Results, Kind
<1> QED BY <1>1, <1>2, <1>3, <1>4, <1>5, <1>6 DEF Next

(* Every step keeps the types: no word, lane or slot is addressed that the *)
(* memories do not have.                                                   *)
LEMMA TypeStep == TypeOK /\ PointersAgree /\ [Next]_vars => TypeOK'
<1> SUFFICES ASSUME TypeOK, PointersAgree, [Next]_vars PROVE TypeOK'
  OBVIOUS
<1>0. PositionOK'
  BY PositionStep
<1>a. /\ Heads \in Nat \ {0} /\ Window \in Nat \ {0} /\ head \in Head
      /\ beat \in 0 .. Results - 1 /\ 0 \in Head
  BY WindowAssumption, Position DEF TypeOK, PositionOK, Placed, Window, Head
<1>1. ASSUME KGen PROVE TypeOK'
  <2>1. UNCHANGED <<now, v_ptr, scores, v_mem, stack, spikes>>
    BY <1>1 DEF KGen, history
  <2>2. k_ptr' \in [Head -> Nat] /\ k_ptr_sel' \in Head
    <3>1. (k_ptr_sel + 1) % Heads \in Head
      BY <1>a DEF TypeOK, Head
    <3> QED BY <1>1, <3>1 DEF KGen, TypeOK
  <2>3. k_mem' \in [Head -> [KWords -> Int]]
    <3>1. now \in Int /\ k_mem[head] \in [KWords -> Int] /\ k_mem \in [Head -> [KWords -> Int]]
      BY <1>a, Products DEF TypeOK
    <3>2. [k_mem[head] EXCEPT ![k_ptr[k_ptr_sel]] = now] \in [KWords -> Int]
      BY <3>1
    <3>3. k_mem' = [k_mem EXCEPT ![head] = [k_mem[head] EXCEPT ![k_ptr[k_ptr_sel]] = now]]
      BY <1>1 DEF KGen
    <3> QED BY <3>1, <3>2, <3>3
  <2> QED BY <1>0, <2>1, <2>2, <2>3 DEF TypeOK
<1>2. ASSUME QKt PROVE TypeOK'
  <2>1. UNCHANGED <<now, k_ptr, k_ptr_sel, v_ptr, k_mem, v_mem, stack, spikes>>
    BY <1>2 DEF QKt, pointers, history
  <2>2. beat \in 0 .. now
    BY <1>2, <1>a, Products DEF QKt, Results
  <2>3. beat \div Group \in 0 .. Groups - 1 /\ beat % Group \in Lane
    <3>1. beat \in 0 .. Window - 1
      BY <1>a, <2>2 DEF TypeOK
    <3> QED BY <3>1, Lanes
  <2>4. Key(head, beat) \in SUBSET Int
    <3>1. KOut \in Nat /\ KOut * beat \in Nat
      BY <2>2, Products, WindowAssumption
    <3>2. KOut * (beat + 1) = KOut * beat + KOut /\ KOut * Window = KOut * Window
      BY <2>2, <3>1, Products
    <3>3. KOut * beat + KOut <= KOut * Window
      BY <2>2, <3>1, <1>a, Blocks, WindowAssumption, Products DEF TypeOK
    <3>4. \A a \in KOut * beat .. KOut * (beat + 1) - 1 : a \in KWords
      BY <1>a, <3>1, <3>2, <3>3 DEF KWords
    <3> QED BY <1>a, <3>4 DEF Key, TypeOK
  <2>5. scores' \in [Head -> [0 .. Groups - 1 -> [Lane -> SUBSET Int]]]
    <3> DEFINE word == IF beat % Group = 0 THEN [i \in Lane |-> {ZERO}]
                       ELSE scores[head][beat \div Group]
    <3>1. word \in [Lane -> SUBSET Int]
      <4>1. scores[head][beat \div Group] \in [Lane -> SUBSET Int]
        <5>1. scores[head] \in [0 .. Groups - 1 -> [Lane -> SUBSET Int]]
          BY <1>a DEF TypeOK
        <5> QED BY <2>3, <5>1
      <4>2. {ZERO} \in SUBSET Int
        BY DEF ZERO
      <4>3. [i \in Lane |-> {ZERO}] \in [Lane -> SUBSET Int]
        BY <4>2
      <4> QED BY <4>1, <4>3
    <3>2. [word EXCEPT ![beat % Group] = Key(head, beat)] \in [Lane -> SUBSET Int]
      BY <2>4, <3>1
    <3>3. scores' = [scores EXCEPT ![head][beat \div Group] =
                                     [word EXCEPT ![beat % Group] = Key(head, beat)]]
      BY <1>2 DEF QKt
    <3> HIDE DEF word
    <3> QED BY <3>2, <3>3, <1>a, <2>3 DEF TypeOK
  <2> QED BY <1>0, <2>1, <2>5 DEF TypeOK
<1>3. ASSUME NEW spike \in BOOLEAN, VGen(spike) PROVE TypeOK'
  <2>1. UNCHANGED <<now, k_ptr, k_ptr_sel, k_mem, scores>>
    BY <1>3 DEF VGen
  <2>2. v_ptr' \in Nat
    BY <1>3 DEF VGen, TypeOK
  <2>3. beat \in Row /\ timestep = now
    BY <1>3, <1>a, Times DEF VGen, Results, Row
  <2>4. timestep % Group \in Lane /\ AddrOffset(beat) + timestep \div Group \in VWords
    BY <2>3, Lanes, Addresses DEF TypeOK
  <2>5. v_mem' \in [Head -> [VWords -> SUBSET Lane]]
    <3>1. data_out_V(v_mem[head][AddrOffset(beat) + timestep \div Group], spike)
            \in SUBSET Lane
      BY <1>a, <2>4 DEF TypeOK, data_out_V
    <3> QED BY <1>3, <1>a, <2>4, <3>1 DEF VGen, TypeOK
  <2>6. stack' \in [Head -> [Slots -> Nat]]
    <3>1. StackOffset(beat) + 0 \in Slots /\ StackOffset(beat) \in Nat
      BY <2>3, Addresses, WindowAssumption
    <3>2. curr_wentries(head, beat) \in Nat
      BY <1>a, <3>1 DEF TypeOK, curr_wentries
    <3>3. AddrOffset(beat) + timestep \div Group \in Nat
      BY <2>4 DEF VWords
    <3>4. \A st \in [Slots -> Nat], a, n \in Nat :
            Push(st, beat, n, a) \in [Slots -> Nat] /\ Store(st, beat, n) \in [Slots -> Nat]
      BY <3>1 DEF Push, Store
    <3> QED BY <1>3, <1>a, <3>2, <3>3, <3>4 DEF VGen, TypeOK
  <2>7. spikes' \in [Head -> [Row -> SUBSET Nat]]
    BY <1>3, <1>a, <2>3, Products DEF VGen, TypeOK
  <2> QED BY <1>0, <2>1, <2>2, <2>5, <2>6, <2>7 DEF TypeOK
<1>4. ASSUME UseV PROVE TypeOK'
  BY <1>0, <1>4 DEF UseV, TypeOK, pointers, history
<1>5. ASSUME Age PROVE /\ now' = 0 /\ UNCHANGED <<v_mem, stack>>
                       /\ k_mem' \in [Head -> [KWords -> Int]]
                       /\ scores' \in [Head -> [0 .. Groups - 1 -> [Lane -> SUBSET Int]]]
                       /\ spikes' \in [Head -> [Row -> SUBSET Nat]]
  BY <1>5 DEF Age, STALE
<1>6. ASSUME Last PROVE TypeOK'
  <2>1. k_ptr_sel' \in Head /\ v_ptr' \in Nat /\ k_ptr' \in [Head -> Nat]
    BY <1>6 DEF Last, TypeOK
  <2>2. CASE now + 1 = Window
    BY <1>0, <1>5, <1>6, <1>a, <2>1, <2>2 DEF Last, TypeOK
  <2>3. CASE now + 1 # Window
    <3>1. now' \in 0 .. Window - 1
      BY <1>6, <1>a, <2>3 DEF Last, TypeOK
    <3> QED BY <1>0, <1>6, <2>1, <2>3, <3>1 DEF Last, TypeOK
  <2> QED BY <2>2, <2>3
<1>7. ASSUME Reset PROVE TypeOK'
  BY <1>0, <1>5, <1>7, <1>a DEF Reset, TypeOK
<1>8. CASE UNCHANGED vars
  BY <1>0, <1>8 DEF vars, TypeOK
<1> QED BY <1>1, <1>2, <1>3, <1>4, <1>6, <1>7, <1>8 DEF Next
-----------------------------------------------------------------------------
(* The keys.                                                               *)

(* The next word of a key goes behind those that are written.              *)
LEMMA KeysStep ==
  TypeOK /\ PointersAgree /\ KeysWritten /\ [Next]_vars => KeysWritten'
<1> SUFFICES ASSUME TypeOK, PointersAgree, KeysWritten, [Next]_vars PROVE KeysWritten'
  OBVIOUS
<1>0. /\ KOut \in Nat \ {0} /\ Window \in Nat \ {0} /\ now \in 0 .. Window - 1
      /\ head \in Head /\ beat \in 0 .. Results - 1
  BY WindowAssumption, Position DEF TypeOK, PositionOK, Placed, Window
<1>1. ASSUME KGen PROVE KeysWritten'
  <2>1. /\ beat \in 0 .. KOut - 1 /\ k_ptr_sel = head
        /\ k_ptr[head] = KOut * now + beat
    BY <1>0, <1>1 DEF KGen, Results, PointersAgree, Head
  <2>2. KOut * now + beat \in KWords
    <3>1. KOut * now + KOut <= KOut * Window /\ KOut * now \in Nat
      BY <1>0, Blocks, Products
    <3> QED BY <1>0, <2>1, <3>1 DEF KWords
  <2> SUFFICES ASSUME NEW h \in Head, NEW i \in 0 .. Window - 1, NEW j \in 0 .. KOut - 1,
                      KOut * i + j < k_ptr'[h]
               PROVE  k_mem'[h][KOut * i + j] = i
    BY DEF KeysWritten
  <2>3. /\ k_ptr' = [k_ptr EXCEPT ![head] = @ + 1]
        /\ k_mem' = [k_mem EXCEPT ![head] = [k_mem[head] EXCEPT ![KOut * now + beat] = now]]
    BY <1>1, <2>1 DEF KGen
  <2>4. KOut * i \in Nat /\ KOut * now \in Nat
    BY <1>0, Products
  <2>5. CASE h = head /\ KOut * i + j = KOut * now + beat
    <3>1. i = now
      BY <1>0, <2>1, <2>5, Blocks
    <3> QED BY <1>0, <2>2, <2>3, <2>5, <3>1 DEF TypeOK
  <2>6. CASE ~(h = head /\ KOut * i + j = KOut * now + beat)
    <3>1. KOut * i + j < k_ptr[h]
      BY <1>0, <2>1, <2>3, <2>4, <2>6 DEF TypeOK
    <3>2. k_mem'[h][KOut * i + j] = k_mem[h][KOut * i + j]
      BY <1>0, <2>3, <2>6 DEF TypeOK
    <3> QED BY <3>1, <3>2 DEF KeysWritten
  <2> QED BY <2>5, <2>6
<1>2. ASSUME k_ptr' = [h \in Head |-> 0] PROVE KeysWritten'
  <2>1. \A i \in 0 .. Window - 1, j \in 0 .. KOut - 1 : ~(KOut * i + j < 0)
    <3> SUFFICES ASSUME NEW i \in 0 .. Window - 1, NEW j \in 0 .. KOut - 1
                 PROVE  ~(KOut * i + j < 0)
      OBVIOUS
    <3>1. KOut * i \in Nat
      BY <1>0
    <3> QED BY <3>1
  <2> QED BY <1>2, <2>1 DEF KeysWritten
<1>3. ASSUME UNCHANGED <<k_ptr, k_mem>> PROVE KeysWritten'
  BY <1>3 DEF KeysWritten
<1>4. ASSUME Last PROVE KeysWritten'
  <2>1. end_inference <=> now + 1 = Window
    BY <1>4, Times DEF Last, end_inference
  <2> QED BY <1>2, <1>3, <1>4, <2>1 DEF Last
<1>5. ASSUME Reset PROVE KeysWritten'
  BY <1>2, <1>5 DEF Reset
<1> QED BY <1>1, <1>3, <1>4, <1>5 DEF Next, QKt, VGen, UseV, vars, pointers

(* During the products every key of the window is complete and its own.    *)
LEMMA KeysComplete ==
  ASSUME TypeOK, PointersAgree, KeysWritten, Kind = "QKt", NEW i \in 0 .. now
  PROVE  Key(head, i) = {i}
<1>0. /\ KOut \in Nat \ {0} /\ Window \in Nat \ {0} /\ now \in 0 .. Window - 1
      /\ head \in Head
  BY WindowAssumption, Position DEF TypeOK, PositionOK, Placed, Window
<1>1. k_ptr[head] = KOut * now + KOut
  BY <1>0 DEF PointersAgree
<1>2. /\ KOut * i \in Nat /\ KOut * now \in Nat /\ KOut * i <= KOut * now
      /\ KOut * (i + 1) = KOut * i + KOut
  <2>1. i \in Nat /\ now \in Nat /\ i <= now
    BY <1>0
  <2> QED BY <1>0, <2>1, Blocks
<1>3. \A a \in KOut * i .. KOut * (i + 1) - 1 : k_mem[head][a] = i
  <2> SUFFICES ASSUME NEW a \in KOut * i .. KOut * (i + 1) - 1 PROVE k_mem[head][a] = i
    OBVIOUS
  <2>1. PICK j \in 0 .. KOut - 1 : a = KOut * i + j
    <3>1. a - KOut * i \in 0 .. KOut - 1 /\ a = KOut * i + (a - KOut * i)
      BY <1>0, <1>2
    <3> QED BY <3>1
  <2>2. KOut * i + j < k_ptr[head] /\ i \in 0 .. Window - 1
    BY <1>0, <1>1, <1>2
  <2> QED BY <1>0, <2>1, <2>2 DEF KeysWritten
<1>4. KOut * i \in KOut * i .. KOut * (i + 1) - 1
  BY <1>0, <1>2
<1> QED BY <1>3, <1>4 DEF Key
-----------------------------------------------------------------------------
(* The scores.                                                             *)

(* The score that is written is that of its key, the others stay.          *)
LEMMA ScoresStep ==
  TypeOK /\ PointersAgree /\ KeysWritten /\ ScoresFresh /\ [Next]_vars => ScoresFresh'
<1> SUFFICES ASSUME TypeOK, PointersAgree, KeysWritten, ScoresFresh, [Next]_vars
             PROVE  ScoresFresh'
  OBVIOUS
<1>0. /\ op \in 0 .. LAST /\ head \in 0 .. Heads - 1 /\ beat \in 0 .. Results - 1
      /\ Heads \in Nat \ {0} /\ KOut \in Nat \ {0} /\ Rows \in Nat \ {0}
      /\ now \in 0 .. Window - 1 /\ Window \in Nat \ {0}
  BY WindowAssumption, Position DEF TypeOK, PositionOK, Placed, Window, Head
<1>a. \A g \in 0 .. Groups - 1, l \in Lane : Group * g + l \in Nat
  BY LaneTimes
<1>1. ASSUME Kind' = "KGen" PROVE ScoresFresh'
  BY <1>1 DEF ScoresFresh, ScoreWritten
<1>2. ASSUME KGen PROVE ScoresFresh'
  <2>1. Kind = "KGen" /\ beat \in 0 .. KOut - 1 /\ Advance(KOut)
    BY <1>0, <1>2 DEF KGen, Results
  <2>2. Kind' = "KGen" \/ (Kind' = "QKt" /\ head' = 0 /\ beat' = 0)
    BY <1>0, <2>1, Moves DEF Following
  <2>3. CASE Kind' = "QKt" /\ head' = 0 /\ beat' = 0
    <3>1. \A h \in Head, i \in Nat : ~ScoreWritten(h, i)'
      BY <2>3 DEF ScoreWritten, Past, Head
    <3> QED BY <1>a, <3>1 DEF ScoresFresh
  <2> QED BY <1>1, <2>2, <2>3
<1>3. ASSUME QKt PROVE ScoresFresh'
  <2>1. PICK n \in Nat \ {0} : n = now + 1
    BY <1>0
  <2>2. Kind = "QKt" /\ beat \in 0 .. n - 1 /\ Advance(n) /\ now' = now
    BY <1>0, <1>3, <2>1, Times DEF QKt, Results, history
  <2>3. \/ beat + 1 < n /\ beat' = beat + 1 /\ Kind' = "QKt" /\ head' = head
        \/ /\ beat + 1 = n /\ beat' = 0
           /\ \/ head + 1 < Heads /\ Kind' = "QKt" /\ head' = head + 1
              \/ head + 1 = Heads /\ Kind' = "VGen" /\ head' = 0
    BY <1>0, <2>2, Moves DEF Following
  <2>4. \A h \in Head, i \in Nat :
          ScoreWritten(h, i)' => ScoreWritten(h, i) \/ (h = head /\ i = beat)
    <3> SUFFICES ASSUME NEW h \in Head, NEW i \in Nat, ScoreWritten(h, i)'
                 PROVE  ScoreWritten(h, i) \/ (h = head /\ i = beat)
      OBVIOUS
    <3>1. ScoreWritten(h, i) <=> i <= now /\ Past(h, i)
      BY <2>2 DEF ScoreWritten
    <3>2. i <= now /\ (Kind' = "QKt" => Past(h, i)')
      BY <2>2, <2>3 DEF ScoreWritten
    <3>3. Past(h, i) \/ (h = head /\ i = beat)
      BY <1>0, <2>1, <2>2, <2>3, <3>2 DEF Past, Head
    <3> QED BY <3>1, <3>2, <3>3
  <2>5. /\ beat \div Group \in 0 .. Groups - 1 /\ beat % Group \in Lane
        /\ beat = Group * (beat \div Group) + (beat % Group)
        /\ Group * (beat \div Group) \in Nat
    <3>1. beat \in 0 .. Window - 1
      BY <1>0, <2>1, <2>2
    <3> QED BY <3>1, Lanes
  <2>6. Key(head, beat) = {beat}
    BY <1>0, <2>1, <2>2, KeysComplete
  <2> DEFINE k == beat \div Group
             m == beat % Group
             word == IF m = 0 THEN [i \in Lane |-> {ZERO}] ELSE scores[head][k]
  <2>7. scores' = [scores EXCEPT ![head] =
                     [scores[head] EXCEPT ![k] = [word EXCEPT ![m] = {beat}]]]
    BY <1>3, <2>6 DEF QKt
  <2> SUFFICES ASSUME NEW h \in Head, NEW g \in 0 .. Groups - 1, NEW l \in Lane,
                      ScoreWritten(h, Group * g + l)'
               PROVE  scores'[h][g][l] = {Group * g + l}
    BY DEF ScoresFresh
  <2>8. head \in Head /\ scores \in [Head -> [0 .. Groups - 1 -> [Lane -> SUBSET Int]]]
    BY <1>0 DEF Head, TypeOK
  <2>9. word \in [Lane -> SUBSET Int]
    <3>1. {ZERO} \in SUBSET Int
      BY DEF ZERO
    <3>2. [i \in Lane |-> {ZERO}] \in [Lane -> SUBSET Int]
      BY <3>1
    <3>3. scores[head] \in [0 .. Groups - 1 -> [Lane -> SUBSET Int]]
      BY <2>8
    <3> QED BY <2>5, <3>2, <3>3
  <2> HIDE DEF word, k, m
  <2>10. CASE h = head /\ g = k /\ l = m
    BY <2>5, <2>7, <2>8, <2>9, <2>10 DEF k, m
  <2>11. CASE ~(h = head /\ g = k /\ l = m)
    <3>1. ~(h = head /\ Group * g + l = beat)
      BY <2>5, <2>11, LaneTimes DEF k, m
    <3>2. ScoreWritten(h, Group * g + l)
      BY <1>a, <2>4, <3>1
    <3>3. scores[h][g][l] = {Group * g + l}
      BY <3>2 DEF ScoresFresh
    <3>4. CASE h # head \/ g # k
      <4>1. scores'[h][g] = scores[h][g]
        BY <2>5, <2>7, <2>8, <3>4 DEF k
      <4> QED BY <3>3, <4>1
    <3>5. CASE h = head /\ g = k /\ l # m
      <4>1. Group * g + l < beat
        BY <1>0, <1>a, <2>2, <3>1, <3>2, <3>5 DEF ScoreWritten, Past
      <4>2. m # 0
        BY <2>5, <3>5, <4>1 DEF k, m, Lane
      <4>3. scores'[h][g][l] = word[l]
        BY <2>5, <2>7, <2>8, <2>9, <3>5 DEF k, m
      <4> QED BY <3>3, <3>5, <4>2, <4>3 DEF word
    <3> QED BY <2>11, <3>4, <3>5
  <2> QED BY <2>10, <2>11
<1>4. ASSUME \/ \E spike \in BOOLEAN : VGen(spike)
             \/ UseV
      PROVE  ScoresFresh'
  <2>1. Kind \in {"VGen", "UseV"} /\ beat \in 0 .. Rows - 1 /\ Advance(Rows)
        /\ UNCHANGED <<scores, now>>
    BY <1>0, <1>4 DEF VGen, UseV, Results, history
  <2>2. Kind' \in {"VGen", "UseV", "Last"}
    BY <1>0, <2>1, Moves DEF Following
  <2> QED BY <2>1, <2>2 DEF ScoresFresh, ScoreWritten
<1>5. ASSUME Last \/ Reset PROVE ScoresFresh'
  <2>1. op' = 0
    BY <1>5 DEF Last, Reset
  <2> QED BY <1>1, <2>1, AtStartNext
<1>6. CASE UNCHANGED vars
  BY <1>6 DEF vars, ScoresFresh, ScoreWritten, Past, Kind, head
<1> QED BY <1>2, <1>3, <1>4, <1>5, <1>6 DEF Next
-----------------------------------------------------------------------------
(* The rows of V and their lists.                                          *)

(* The bit of the timestep: its word holds the lanes of the spikes again,  *)
(* and the other words of the row are left alone.                          *)
LEMMA BitsStep ==
  ASSUME NEW m \in [VWords -> SUBSET Lane], NEW s \in SUBSET Nat, NEW r \in Row,
         NEW t \in 0 .. Window - 1, NEW spike \in BOOLEAN, timestep = t,
         s \subseteq 0 .. t - 1, BitsOK(m, s, t, r)
  PROVE  LET a == AddrOffset(r) + t \div Group
         IN  BitsOK([m EXCEPT ![a] = data_out_V(m[a], spike)],
                    IF spike THEN s \cup {t} ELSE s, t + 1, r)
<1> DEFINE g0 == t \div Group
           l0 == t % Group
           a == AddrOffset(r) + g0
           w == data_out_V(m[a], spike)
           s2 == IF spike THEN s \cup {t} ELSE s
<1>1. /\ g0 \in 0 .. Groups - 1 /\ l0 \in Lane /\ t = Group * g0 + l0
      /\ Group * g0 \in Nat /\ t \in Nat /\ Group \in Nat \ {0}
  BY Lanes, WindowAssumption DEF Window
<1>2. a \in VWords /\ m[a] \in SUBSET Lane
  BY <1>1, Addresses
<1>3. w = (IF l0 = 0 THEN {} ELSE m[a] \ {l0}) \cup (IF spike THEN {l0} ELSE {})
  BY DEF data_out_V
<1>4. l0 # 0 => \A l \in Lane : l \in m[a] <=> Group * g0 + l \in s
  BY <1>1 DEF BitsOK, Lane
<1> HIDE DEF g0, l0, w
<1>5. ASSUME NEW l \in Lane PROVE l \in w <=> Group * g0 + l \in s2
  <2>1. t \notin s
    BY <1>1
  <2>2. l0 = 0 => Group * g0 + l \notin s
    BY <1>1 DEF Lane
  <2>3. Group * g0 + l = t <=> l = l0
    BY <1>1 DEF Lane
  <2>4. CASE l0 = 0
    BY <1>3, <2>1, <2>2, <2>3, <2>4
  <2>5. CASE l0 # 0
    BY <1>3, <1>4, <2>1, <2>3, <2>5
  <2> QED BY <2>4, <2>5
<1>6. ASSUME NEW g \in 0 .. Groups - 1, NEW l \in Lane, Group * g < t + 1
      PROVE  l \in [m EXCEPT ![a] = w][AddrOffset(r) + g] <=> Group * g + l \in s2
  <2>1. CASE g = g0
    BY <1>2, <1>5, <2>1
  <2>2. CASE g # g0
    <3>1. AddrOffset(r) + g \in VWords /\ AddrOffset(r) + g # a
      BY <1>1, <2>2, Addresses
    <3>2. Group * g + l # t /\ Group * g # t /\ Group * g \in Nat
      <4>1. 0 \in Lane
        BY <1>1 DEF Lane
      <4>2. Group * g + l # t /\ Group * g + 0 # t
        BY <1>1, <2>2, <4>1, LaneTimes DEF g0
      <4> QED BY <4>2, LaneTimes
    <3>3. l \in m[AddrOffset(r) + g] <=> Group * g + l \in s
      BY <1>1, <1>6, <3>2 DEF BitsOK
    <3> QED BY <1>2, <3>1, <3>2, <3>3
  <2> QED BY <2>1, <2>2
<1> HIDE DEF a, s2
<1>7. BitsOK([m EXCEPT ![a] = w], s2, t + 1, r)
  BY <1>6 DEF BitsOK
<1> QED BY <1>7 DEF g0, a, w, s2

(* A group is listed when it becomes active: the signal of the write       *)
(* controller says so.                                                     *)
LEMMA BecomesActive ==
  ASSUME NEW m \in [VWords -> SUBSET Lane], NEW s \in SUBSET Nat, NEW r \in Row,
         NEW t \in 0 .. Window - 1,
         s \subseteq 0 .. t - 1, BitsOK(m, s, t, r)
  PROVE  /\ t % Group = 0 \/ m[AddrOffset(r) + t \div Group] = {}
              <=> ~Active(s, t \div Group)
         /\ \A g \in 0 .. Groups - 1 :
              /\ Active(s, g) => g <= t \div Group
              /\ Active(s \cup {t}, g) <=> Active(s, g) \/ g = t \div Group
<1> DEFINE g0 == t \div Group
           l0 == t % Group
           a == AddrOffset(r) + g0
<1>1. /\ g0 \in 0 .. Groups - 1 /\ l0 \in Lane /\ t = Group * g0 + l0
      /\ Group * g0 \in Nat /\ t \in Nat /\ Group \in Nat \ {0}
  BY Lanes, WindowAssumption DEF Window
<1>2. a \in VWords /\ m[a] \in SUBSET Lane
  BY <1>1, Addresses
<1>3. l0 # 0 => (m[a] = {} <=> ~Active(s, g0))
  BY <1>1, <1>2 DEF BitsOK, Lane, Active
<1>4. l0 = 0 => ~Active(s, g0)
  BY <1>1 DEF Lane, Active
<1>6. l0 = 0 \/ m[a] = {} <=> ~Active(s, g0)
  BY <1>3, <1>4
<1>7. ASSUME NEW g \in 0 .. Groups - 1, Active(s, g) PROVE g <= g0
  <2>1. Group * g <= t /\ Group * g \in Nat
    BY <1>1, <1>7, LaneTimes DEF Active, Lane
  <2>2. SUFFICES ASSUME g0 < g PROVE FALSE
    BY <1>1
  <2>3. Group * g0 + Group <= Group * g
    BY <1>1, <2>2, Blocks
  <2> QED BY <1>1, <2>1, <2>3 DEF Lane
<1>8. ASSUME NEW g \in 0 .. Groups - 1
      PROVE  Active(s \cup {t}, g) <=> Active(s, g) \/ g = g0
  <2>1. \A l \in Lane : Group * g + l = t <=> g = g0 /\ l = l0
    BY <1>1, LaneTimes
  <2> QED BY <1>1, <2>1 DEF Active
<1> QED BY <1>6, <1>7, <1>8

(* A list grows at its end, in order, and never beyond its slots.          *)
LEMMA ListStep ==
  ASSUME NEW st \in [Slots -> Nat], NEW k \in Nat, NEW s \in SUBSET Nat, NEW s2 \in SUBSET Nat,
         NEW r \in Row, NEW g0 \in 0 .. Groups - 1, NEW push \in BOOLEAN,
         ListOK(st, k, s, r),
         push => ~Active(s, g0),
         \A g \in 0 .. Groups - 1 : Active(s, g) => g <= g0,
         \A g \in 0 .. Groups - 1 : Active(s2, g) <=> Active(s, g) \/ (push /\ g = g0)
  PROVE  /\ push => k <= Groups
         /\ LET st2 == IF push THEN Push(st, r, k, AddrOffset(r) + g0) ELSE Store(st, r, k)
            IN  ListOK(st2, st2[StackOffset(r)], s2, r)
<1> USE WindowAssumption
<1>1. /\ StackOffset(r) \in Nat /\ AddrOffset(r) \in Nat /\ EOS = Groups + 1
      /\ \A i \in 0 .. Groups : StackOffset(r) + i \in Slots
      /\ k \in 1 .. EOS /\ Groups \in Nat \ {0}
  BY Addresses DEF EOS, ListOK
<1>2. StackOffset(r) \in Slots
  BY <1>1
<1>3. CASE ~push
  <2> DEFINE st2 == Store(st, r, k)
  <2>1. st2[StackOffset(r)] = k
    BY <1>2 DEF Store
  <2>2. \A i \in 1 .. k - 1 : st2[StackOffset(r) + i] = st[StackOffset(r) + i]
    BY <1>1 DEF Store
  <2>3. \A g \in 0 .. Groups - 1 : Active(s2, g) <=> Active(s, g)
    BY <1>3
  <2> HIDE DEF st2
  <2>4. ListOK(st2, k, s2, r)
    BY <2>2, <2>3 DEF ListOK
  <2> QED BY <1>3, <2>1, <2>4 DEF st2
<1>4. CASE push
  <2> DEFINE st2 == Push(st, r, k, AddrOffset(r) + g0)
  <2>1. \A i \in 1 .. k - 1 : \E g \in 0 .. Groups - 1 :
          st[StackOffset(r) + i] = AddrOffset(r) + g /\ g < g0 /\ i - 1 <= g /\ Active(s, g)
    BY <1>4 DEF ListOK
  <2>2. k - 1 <= g0 /\ k <= Groups
    <3>1. CASE k = 1
      BY <1>1, <3>1
    <3>2. CASE k # 1
      <4>1. PICK i \in 1 .. k - 1 : i = k - 1
        BY <1>1, <3>2
      <4>2. PICK g \in 0 .. Groups - 1 : g < g0 /\ i - 1 <= g
        BY <2>1
      <4> QED BY <1>1, <4>1, <4>2
    <3> QED BY <3>1, <3>2
  <2>3. StackOffset(r) + k \in Slots /\ k \in 1 .. Groups
    BY <1>1, <2>2
  <2>4. /\ st2[StackOffset(r)] = k + 1 /\ st2[StackOffset(r) + k] = AddrOffset(r) + g0
        /\ \A i \in 1 .. k - 1 : st2[StackOffset(r) + i] = st[StackOffset(r) + i]
    BY <1>1, <1>2, <2>3 DEF Push
  <2>5. \A i \in 1 .. k + 1 - 1 : i = k \/ i \in 1 .. k - 1
    BY <1>1
  <2> HIDE DEF st2
  <2>6. \A i \in 1 .. k + 1 - 1 : \E g \in 0 .. Groups - 1 :
          st2[StackOffset(r) + i] = AddrOffset(r) + g /\ Active(s2, g) /\ i - 1 <= g
    <3> SUFFICES ASSUME NEW i \in 1 .. k + 1 - 1
                 PROVE  \E g \in 0 .. Groups - 1 :
                          st2[StackOffset(r) + i] = AddrOffset(r) + g /\ Active(s2, g) /\ i - 1 <= g
      OBVIOUS
    <3>1. CASE i = k
      BY <1>4, <2>2, <2>4, <3>1
    <3>2. CASE i \in 1 .. k - 1
      BY <2>1, <2>4, <3>2
    <3> QED BY <2>5, <3>1, <3>2
  <2>7. \A i, j \in 1 .. k + 1 - 1 : i < j => st2[StackOffset(r) + i] < st2[StackOffset(r) + j]
    <3> SUFFICES ASSUME NEW i \in 1 .. k + 1 - 1, NEW j \in 1 .. k + 1 - 1, i < j
                 PROVE  st2[StackOffset(r) + i] < st2[StackOffset(r) + j]
      OBVIOUS
    <3>1. i \in 1 .. k - 1
      BY <1>1
    <3>2. CASE j = k
      <4>1. st2[StackOffset(r) + i] < AddrOffset(r) + g0
        BY <1>1, <2>1, <2>4, <3>1
      <4> QED BY <2>4, <3>2, <4>1
    <3>3. CASE j \in 1 .. k - 1
      BY <2>4, <3>1, <3>3 DEF ListOK
    <3> QED BY <2>5, <3>2, <3>3
  <2>8. \A g \in 0 .. Groups - 1 :
          Active(s2, g) => \E i \in 1 .. k + 1 - 1 : st2[StackOffset(r) + i] = AddrOffset(r) + g
    <3> SUFFICES ASSUME NEW g \in 0 .. Groups - 1, Active(s2, g)
                 PROVE  \E i \in 1 .. k + 1 - 1 : st2[StackOffset(r) + i] = AddrOffset(r) + g
      OBVIOUS
    <3>1. CASE g = g0
      BY <1>1, <2>4, <3>1
    <3>2. CASE Active(s, g)
      <4>1. PICK i \in 1 .. k - 1 : st[StackOffset(r) + i] = AddrOffset(r) + g
        BY <3>2 DEF ListOK
      <4> QED BY <1>1, <2>4, <4>1
    <3> QED BY <3>1, <3>2
  <2>9. ListOK(st2, k + 1, s2, r)
    BY <1>1, <2>2, <2>6, <2>7, <2>8 DEF ListOK
  <2> QED BY <1>4, <2>2, <2>4, <2>9 DEF st2
<1> QED BY <1>3, <1>4

(* What is kept of a row depends on its own words and slots.               *)
LEMMA OtherRow ==
  ASSUME NEW m, NEW m2, NEW st, NEW st2, NEW s, NEW n, NEW r \in Row,
         \A g \in 0 .. Groups - 1 : m2[AddrOffset(r) + g] = m[AddrOffset(r) + g],
         \A i \in 0 .. Groups : st2[StackOffset(r) + i] = st[StackOffset(r) + i],
         RowOK(m, st, s, n, r)
  PROVE  RowOK(m2, st2, s, n, r)
<1>1. StackOffset(r) \in Nat /\ EOS = Groups + 1 /\ Groups \in Nat \ {0}
  BY Addresses, WindowAssumption DEF EOS
<1>2. st2[StackOffset(r)] = st[StackOffset(r)]
  <2>1. st2[StackOffset(r) + 0] = st[StackOffset(r) + 0]
    BY <1>1
  <2> QED BY <1>1, <2>1
<1>3. BitsOK(m2, s, n, r)
  BY DEF RowOK, BitsOK
<1>4. ASSUME n > 0 PROVE ListOK(st2, st2[StackOffset(r)], s, r)
  <2>1. ListOK(st, st[StackOffset(r)], s, r)
    BY <1>4 DEF RowOK
  <2>2. \A i \in 1 .. st[StackOffset(r)] - 1 :
          st2[StackOffset(r) + i] = st[StackOffset(r) + i]
    BY <1>1, <2>1 DEF ListOK
  <2> QED BY <1>2, <2>1, <2>2 DEF ListOK
<1> QED BY <1>3, <1>4 DEF RowOK

(* The V generation of a row, the word and the list together.              *)
LEMMA VGenRow ==
  ASSUME TypeOK, PointersAgree, RowsOK, NEW spike \in BOOLEAN, VGen(spike)
  PROVE  /\ head \in Head /\ beat \in Row
         /\ RowOK(v_mem'[head], stack'[head], spikes'[head][beat], now + 1, beat)
         /\ \A r \in Row \ {beat} :
              /\ \A g \in 0 .. Groups - 1 :
                   v_mem'[head][AddrOffset(r) + g] = v_mem[head][AddrOffset(r) + g]
              /\ \A i \in 0 .. Groups :
                   stack'[head][StackOffset(r) + i] = stack[head][StackOffset(r) + i]
         /\ \A h \in Head \ {head} : v_mem'[h] = v_mem[h] /\ stack'[h] = stack[h]
<1> DEFINE g0 == now \div Group
           a == AddrOffset(beat) + g0
           words == v_mem[head]
           list == stack[head]
           seen == spikes[head][beat]
           seen2 == IF spike THEN seen \cup {now} ELSE seen
           k == IF now = 0 THEN 1 ELSE list[StackOffset(beat)]
           push == active_group_out(words[a], spike)
<1>1. head \in Head /\ beat \in Row /\ timestep = now /\ Kind = "VGen"
      /\ now \in 0 .. Window - 1 /\ now \in Nat
  BY Position, Times, Products DEF VGen, TypeOK, PositionOK, Placed, Results, Row
<1>2. words \in [VWords -> SUBSET Lane] /\ list \in [Slots -> Nat] /\ seen \in SUBSET Nat
  BY <1>1 DEF TypeOK
<1>3. g0 \in 0 .. Groups - 1 /\ push \in BOOLEAN
  BY <1>1, Lanes DEF active_group_out
<1>4. /\ v_mem' = [v_mem EXCEPT ![head] = [words EXCEPT ![a] = data_out_V(words[a], spike)]]
      /\ stack' = [stack EXCEPT ![head] = IF push THEN Push(list, beat, k, a)
                                                  ELSE Store(list, beat, k)]
  BY <1>1 DEF VGen, curr_wentries, first_timestep
<1>5. spikes'[head][beat] = seen2
  BY <1>1 DEF VGen, TypeOK
<1>6. RowOK(words, list, seen, now, beat)
  <2>1. ~RowDone(head, beat)
    BY <1>1 DEF RowDone, Past, Head, Row
  <2> QED BY <1>1, <2>1 DEF RowsOK, Seen
<1>7. seen \subseteq 0 .. now - 1 /\ BitsOK(words, seen, now, beat)
  BY <1>6 DEF RowOK
<1>8. ListOK(list, k, seen, beat) /\ k \in Nat
  <2>1. CASE now = 0
    <3>1. \A g \in 0 .. Groups - 1 : ~Active(seen, g)
      BY <1>7, <2>1 DEF Active
    <3>2. 1 \in 1 .. EOS
      BY WindowAssumption DEF EOS
    <3> QED BY <2>1, <3>1, <3>2 DEF ListOK
  <2>2. CASE now # 0
    BY <1>1, <1>6, <2>2, WindowAssumption DEF RowOK, ListOK, EOS
  <2> QED BY <2>1, <2>2
<1>9. /\ push <=> spike /\ ~Active(seen, g0)
      /\ \A g \in 0 .. Groups - 1 :
           Active(seen, g) => g <= g0
      /\ \A g \in 0 .. Groups - 1 :
           Active(seen2, g) <=> Active(seen, g) \/ (push /\ g = g0)
  <2>1. push <=> spike /\ ~Active(seen, g0)
    <3>1. now % Group = 0 \/ words[a] = {} <=> ~Active(seen, g0)
      BY <1>1, <1>2, <1>7, BecomesActive
    <3> HIDE DEF words, seen, a, g0
    <3> QED BY <1>1, <3>1 DEF push, active_group_out
  <2>2. \A g \in 0 .. Groups - 1 :
          /\ Active(seen, g) => g <= g0
          /\ Active(seen2, g) <=> Active(seen, g) \/ (spike /\ g = g0)
    <3>1. \A g \in 0 .. Groups - 1 :
            /\ Active(seen, g) => g <= g0
            /\ Active(seen \cup {now}, g) <=> Active(seen, g) \/ g = g0
      BY <1>1, <1>2, <1>7, BecomesActive
    <3> HIDE DEF seen, g0
    <3> QED BY <3>1
  <2> HIDE DEF push, seen2
  <2> QED BY <2>1, <2>2
<1>10. BitsOK([words EXCEPT ![a] = data_out_V(words[a], spike)], seen2, now + 1, beat)
  BY <1>1, <1>2, <1>7, BitsStep
<1>11. seen2 \in SUBSET Nat /\ seen2 \subseteq 0 .. now + 1 - 1
  BY <1>1, <1>2, <1>7
<1> HIDE DEF push, k, seen, seen2, list, words, g0
<1>12. /\ push => k <= Groups
       /\ LET list2 == IF push THEN Push(list, beat, k, a) ELSE Store(list, beat, k)
          IN  ListOK(list2, list2[StackOffset(beat)], seen2, beat)
  BY <1>1, <1>2, <1>3, <1>8, <1>9, <1>11, ListStep
<1>13. v_mem'[head] = [words EXCEPT ![a] = data_out_V(words[a], spike)]
       /\ stack'[head] = IF push THEN Push(list, beat, k, a) ELSE Store(list, beat, k)
  BY <1>1, <1>4 DEF TypeOK
<1>14. RowOK(v_mem'[head], stack'[head], spikes'[head][beat], now + 1, beat)
  <2>1. BitsOK(v_mem'[head], seen2, now + 1, beat)
    BY <1>10, <1>13
  <2>2. ListOK(stack'[head], stack'[head][StackOffset(beat)], seen2, beat)
    BY <1>12, <1>13
  <2>3. RowOK(v_mem'[head], stack'[head], seen2, now + 1, beat)
    BY <1>1, <1>11, <2>1, <2>2 DEF RowOK
  <2> QED BY <1>5, <2>3
<1>15. ASSUME NEW r \in Row \ {beat}
       PROVE  /\ \A g \in 0 .. Groups - 1 :
                   v_mem'[head][AddrOffset(r) + g] = words[AddrOffset(r) + g]
              /\ \A i \in 0 .. Groups :
                   stack'[head][StackOffset(r) + i] = list[StackOffset(r) + i]
  <2>1. \A g \in 0 .. Groups - 1 : AddrOffset(r) + g \in VWords /\ AddrOffset(r) + g # a
    BY <1>1, <1>3, Addresses
  <2>2. \A i \in 0 .. Groups : /\ StackOffset(r) + i \in Slots
                               /\ StackOffset(r) + i # StackOffset(beat) + 0
                               /\ push => StackOffset(r) + i # StackOffset(beat) + k
    <3>1. push => k \in 0 .. Groups
      BY <1>8, <1>12
    <3>2. 0 \in 0 .. Groups
      BY WindowAssumption
    <3> QED BY <1>1, <3>1, <3>2, Addresses
  <2>3. \A i \in 0 .. Groups : StackOffset(r) + i # StackOffset(beat)
    BY <1>1, <2>2, Addresses
  <2>4. \A g \in 0 .. Groups - 1 : v_mem'[head][AddrOffset(r) + g] = words[AddrOffset(r) + g]
    BY <1>2, <1>13, <2>1
  <2>5. \A i \in 0 .. Groups : stack'[head][StackOffset(r) + i] = list[StackOffset(r) + i]
    BY <1>2, <1>13, <2>2, <2>3 DEF Push, Store
  <2> QED BY <2>4, <2>5
<1>16. \A h \in Head \ {head} : v_mem'[h] = v_mem[h] /\ stack'[h] = stack[h]
  BY <1>1, <1>4 DEF TypeOK
<1> QED BY <1>1, <1>14, <1>15, <1>16 DEF words, list

(* Of a row that has seen nothing, any memory is right.                    *)
LEMMA NothingSeen ==
  ASSUME NEW m, NEW st, NEW r \in Row
  PROVE  RowOK(m, st, {}, 0, r)
<1>1. \A g \in 0 .. Groups - 1 : ~(Group * g < 0)
  <2> SUFFICES ASSUME NEW g \in 0 .. Groups - 1 PROVE ~(Group * g < 0)
    OBVIOUS
  <2>1. Group * g \in Nat
    BY WindowAssumption
  <2> QED BY <2>1
<1>2. BitsOK(m, {}, 0, r)
  BY <1>1 DEF BitsOK
<1> QED BY <1>2 DEF RowOK

(* The rows agree initially: nothing has been seen.                        *)
LEMMA RowsInit == Init => RowsOK
<1> SUFFICES ASSUME Init PROVE RowsOK
  OBVIOUS
<1>1. Kind = "KGen" /\ now = 0
  BY AtStart DEF Init
<1>2. \A h \in Head, r \in Row : Seen(h, r) = 0 /\ spikes[h][r] = {}
  BY <1>1 DEF Seen, RowDone, Init
<1>3. \A m, st : \A r \in Row : RowOK(m, st, {}, 0, r)
  BY NothingSeen
<1> QED BY <1>2, <1>3 DEF RowsOK

(* Every step keeps the rows together with the history.                    *)
LEMMA RowsStep == TypeOK /\ PointersAgree /\ RowsOK /\ [Next]_vars => RowsOK'
<1> SUFFICES ASSUME TypeOK, PointersAgree, RowsOK, [Next]_vars PROVE RowsOK'
  OBVIOUS
<1>0. /\ op \in 0 .. LAST /\ head \in 0 .. Heads - 1 /\ beat \in 0 .. Results - 1
      /\ Heads \in Nat \ {0} /\ KOut \in Nat \ {0} /\ Rows \in Nat \ {0}
      /\ now \in Nat
  BY WindowAssumption, Position, Products DEF TypeOK, PositionOK, Placed, Head
<1>1. ASSUME UNCHANGED <<v_mem, stack, spikes>>,
             \A h \in Head, r \in Row : Seen(h, r)' = Seen(h, r)
      PROVE  RowsOK'
  BY <1>1 DEF RowsOK
<1>2. ASSUME Kind' = "KGen", Age PROVE RowsOK'
  <2>1. \A h \in Head, r \in Row : Seen(h, r)' = 0 /\ spikes'[h][r] = {}
    BY <1>2 DEF Seen, RowDone, Age
  <2>2. \A m, st : \A r \in Row : RowOK(m, st, {}, 0, r)
    BY NothingSeen
  <2> QED BY <2>1, <2>2 DEF RowsOK
<1>3. ASSUME KGen PROVE RowsOK'
  <2>1. Kind = "KGen" /\ beat \in 0 .. KOut - 1 /\ Advance(KOut)
        /\ UNCHANGED <<v_mem, stack, spikes, now>>
    BY <1>0, <1>3 DEF KGen, Results, history
  <2>2. Kind' \in {"KGen", "QKt"}
    BY <1>0, <2>1, Moves DEF Following
  <2> QED BY <1>1, <2>1, <2>2 DEF Seen, RowDone
<1>4. ASSUME QKt PROVE RowsOK'
  <2>1. PICK n \in Nat \ {0} : n = now + 1
    BY <1>0
  <2>2. Kind = "QKt" /\ beat \in 0 .. n - 1 /\ Advance(n)
        /\ UNCHANGED <<v_mem, stack, spikes, now>>
    BY <1>0, <1>4, <2>1, Times DEF QKt, Results, history
  <2>3. Kind' = "QKt" \/ (Kind' = "VGen" /\ head' = 0 /\ beat' = 0)
    BY <1>0, <2>2, Moves DEF Following
  <2>4. \A h \in Head, r \in Row : ~RowDone(h, r)' /\ ~RowDone(h, r)
    BY <2>2, <2>3 DEF RowDone, Past, Head, Row
  <2> QED BY <1>1, <2>2, <2>4 DEF Seen
<1>5. ASSUME NEW spike \in BOOLEAN, VGen(spike) PROVE RowsOK'
  <2>1. Kind = "VGen" /\ beat \in 0 .. Rows - 1 /\ Advance(Rows) /\ now' = now
    BY <1>0, <1>5 DEF VGen, Results
  <2>2. \/ beat + 1 < Rows /\ beat' = beat + 1 /\ Kind' = "VGen" /\ head' = head
        \/ /\ beat + 1 = Rows /\ beat' = 0
           /\ \/ head + 1 < Heads /\ Kind' = "VGen" /\ head' = head + 1
              \/ head + 1 = Heads /\ Kind' = "UseV" /\ head' = 0
    BY <1>0, <2>1, Moves DEF Following
  <2>3. ASSUME NEW h \in Head, NEW r \in Row
        PROVE  RowDone(h, r)' <=> RowDone(h, r) \/ (h = head /\ r = beat)
    <3>1. RowDone(h, r) <=> Past(h, r)
      BY <2>1 DEF RowDone
    <3>2. RowDone(h, r)' <=> Kind' = "UseV" \/ Past(h, r)'
      BY <2>2 DEF RowDone
    <3>3. Kind' = "UseV" \/ Past(h, r)' <=> Past(h, r) \/ (h = head /\ r = beat)
      BY <1>0, <2>1, <2>2 DEF Past, Head, Row
    <3> QED BY <3>1, <3>2, <3>3
  <2> SUFFICES ASSUME NEW h \in Head, NEW r \in Row
               PROVE  RowOK(v_mem'[h], stack'[h], spikes'[h][r], Seen(h, r)', r)
    BY DEF RowsOK
  <2>4. RowOK(v_mem[h], stack[h], spikes[h][r], Seen(h, r), r)
    BY DEF RowsOK
  <2>5. CASE h = head /\ r = beat
    <3>1. Seen(h, r)' = now + 1
      BY <2>1, <2>3, <2>5 DEF Seen
    <3> QED BY <1>5, <2>5, <3>1, VGenRow
  <2>6. CASE ~(h = head /\ r = beat)
    <3>1. Seen(h, r)' = Seen(h, r)
      BY <2>1, <2>3, <2>6 DEF Seen
    <3>2. spikes'[h][r] = spikes[h][r]
      BY <1>5, <2>6, VGenRow DEF VGen, TypeOK
    <3>3. /\ \A g \in 0 .. Groups - 1 :
               v_mem'[h][AddrOffset(r) + g] = v_mem[h][AddrOffset(r) + g]
          /\ \A i \in 0 .. Groups :
               stack'[h][StackOffset(r) + i] = stack[h][StackOffset(r) + i]
      <4>1. CASE h = head
        BY <1>5, <2>6, <4>1, VGenRow
      <4>2. CASE h # head
        BY <1>5, <4>2, VGenRow
      <4> QED BY <4>1, <4>2
    <3> QED BY <2>4, <3>1, <3>2, <3>3, OtherRow
  <2> QED BY <2>5, <2>6
<1>6. ASSUME UseV PROVE RowsOK'
  <2>1. Kind = "UseV" /\ beat \in 0 .. Rows - 1 /\ Advance(Rows)
        /\ UNCHANGED <<v_mem, stack, spikes, now>>
    BY <1>0, <1>6 DEF UseV, Results, history
  <2>2. Kind' \in {"UseV", "Last"}
    BY <1>0, <2>1, Moves DEF Following
  <2> QED BY <1>1, <2>1, <2>2 DEF Seen, RowDone
<1>7. ASSUME Last PROVE RowsOK'
  <2>1. Kind = "Last" /\ Kind' = "KGen"
    BY <1>7, AtStartNext DEF Last
  <2>2. CASE now + 1 = Window
    BY <1>2, <1>7, <2>1, <2>2 DEF Last
  <2>3. CASE now + 1 # Window
    <3>1. now' = now + 1 /\ UNCHANGED <<v_mem, stack, spikes>>
      BY <1>7, <2>3 DEF Last
    <3> QED BY <1>1, <2>1, <3>1 DEF Seen, RowDone
  <2> QED BY <2>2, <2>3
<1>8. ASSUME Reset PROVE RowsOK'
  <2>1. Kind' = "KGen"
    BY <1>8, AtStartNext DEF Reset
  <2> QED BY <1>2, <1>8, <2>1 DEF Reset
<1>9. CASE UNCHANGED vars
  BY <1>1, <1>9 DEF vars, Seen, RowDone, Past, Kind, head
<1> QED BY <1>3, <1>4, <1>5, <1>6, <1>7, <1>8, <1>9 DEF Next
-----------------------------------------------------------------------------
(* The invariant and what follows from it.                                 *)

(* Every behaviour keeps the inductive invariant.                          *)
THEOREM Inductive == Spec => []IInv
<1>1. Init => IInv
  <2>1. Init => KeysWritten
    <3>1. ASSUME NEW i \in 0 .. Window - 1, NEW j \in 0 .. KOut - 1
          PROVE  ~(KOut * i + j < 0)
      <4>1. KOut * i \in Nat
        BY WindowAssumption
      <4> QED BY <4>1
    <3> QED BY <3>1 DEF Init, KeysWritten
  <2>2. Init => ScoresFresh
    <3>1. Init => Kind = "KGen"
      BY AtStart DEF Init
    <3> QED BY <3>1 DEF ScoresFresh, ScoreWritten
  <2> QED BY <2>1, <2>2, TypeInit, PointersInit, RowsInit DEF IInv
<1>2. IInv /\ [Next]_vars => IInv'
  BY TypeStep, PointersStep, KeysStep, ScoresStep, RowsStep DEF IInv
<1> QED BY <1>1, <1>2, PTL DEF Spec

(* Every memory is only ever addressed within its words: types.            *)
THEOREM TypeCorrect == Spec => []TypeOK
BY Inductive, PTL DEF IInv

(* The write pointers stay in step with the program and the timestep, for  *)
(* any number of heads (wr_addr_gen.v, K_PTR and V_PTR).                   *)
THEOREM PointersInStep == Spec => []PointersAgree
BY Inductive, PTL DEF IInv

(* Q is multiplied by complete keys of this window only.                   *)
THEOREM KeysCorrect == Spec => []KeysOfThisWindow
<1>1. IInv => KeysOfThisWindow
  BY KeysComplete, Times DEF IInv, KeysOfThisWindow
<1> QED BY <1>1, Inductive, PTL

(* While V is used its rows have seen the current timestep too.            *)
LEMMA RowsInUse ==
  ASSUME IInv, Kind = "UseV", NEW h \in Head, NEW r \in Row
  PROVE  /\ spikes[h][r] \subseteq 0 .. now /\ now \in 0 .. Window - 1 /\ Window \in Nat
         /\ BitsOK(v_mem[h], spikes[h][r], now + 1, r)
         /\ ListOK(stack[h], stack[h][StackOffset(r)], spikes[h][r], r)
<1>1. now \in Nat /\ now \in 0 .. Window - 1 /\ Window \in Nat
  BY Products, WindowAssumption DEF IInv, TypeOK, Window
<1>2. Seen(h, r) = now + 1
  BY DEF Seen, RowDone
<1>3. RowOK(v_mem[h], stack[h], spikes[h][r], now + 1, r)
  BY <1>2 DEF IInv, RowsOK
<1>4. now + 1 > 0 /\ 0 .. now + 1 - 1 = 0 .. now
  BY <1>1
<1> QED BY <1>1, <1>3, <1>4 DEF RowOK

\* The entries of a list, and the words of the active groups of a row.
Entries(st, r) == {st[StackOffset(r) + i] : i \in 1 .. st[StackOffset(r)] - 1}
ActiveWords(s, r) == {AddrOffset(r) + g : g \in {k \in 0 .. Groups - 1 : Active(s, k)}}

(* The entries of a list are the words of the active groups.               *)
LEMMA EntriesAreActive ==
  ASSUME NEW st, NEW r \in Row, NEW s, ListOK(st, st[StackOffset(r)], s, r)
  PROVE  Entries(st, r) = ActiveWords(s, r)
BY DEF ListOK, Entries, ActiveWords

(* The words that are popped for a row are the entries of its list.        *)
LEMMA PoppedAreEntries ==
  \A h, r : Popped(h, r) = Entries(stack[h], r) /\ Popped(h, r)' = Entries(stack'[h], r)
BY DEF Popped, Entries

(* Self-attention adds up exactly the scores of the timesteps of this      *)
(* window at which the row spiked.                                         *)
THEOREM AttentionCorrect == Spec => []AttendsToHistory
<1>1. ASSUME IInv, Kind = "UseV", NEW r \in Row
      PROVE  Attended(head, r) = {<<t, {t}>> : t \in spikes[head][r]}
  <2> DEFINE s == spikes[head][r]
  <2>1. head \in Head
    BY <1>1, Position DEF IInv, TypeOK, PositionOK, Placed
  <2>2. /\ s \subseteq 0 .. now /\ now \in 0 .. Window - 1 /\ Window \in Nat
        /\ BitsOK(v_mem[head], s, now + 1, r)
        /\ ListOK(stack[head], stack[head][StackOffset(r)], s, r)
    BY <1>1, <2>1, RowsInUse
  <2>3. Popped(head, r) = ActiveWords(s, r)
    BY <2>2, EntriesAreActive, PoppedAreEntries
  <2>4. \A g \in 0 .. Groups - 1, l \in Lane :
          Group * g + l <= now => scores[head][g][l] = {Group * g + l}
    BY <1>1, <2>1 DEF IInv, ScoresFresh, ScoreWritten
  <2>5. AddrOffset(r) \in Nat
    BY Addresses
  <2>6. ASSUME NEW g \in 0 .. Groups - 1, NEW l \in Lane, Active(s, g),
               l \in v_mem[head][AddrOffset(r) + g]
        PROVE  Group * g + l \in s
    <3>1. PICK k \in Lane : Group * g + k \in s
      BY <2>6 DEF Active
    <3>2. Group * g < now + 1
      BY <2>2, <3>1, LaneTimes DEF Lane
    <3> QED BY <2>2, <2>6, <3>2 DEF BitsOK
  <2>7. ASSUME NEW g \in 0 .. Groups - 1, NEW l \in Lane, Group * g + l \in s
        PROVE  Active(s, g) /\ l \in v_mem[head][AddrOffset(r) + g]
    <3>1. Group * g < now + 1
      BY <2>2, <2>7, LaneTimes DEF Lane
    <3> QED BY <2>2, <2>7, <3>1 DEF BitsOK, Active
  <2>8. \A g \in 0 .. Groups - 1 : v_mem[head][AddrOffset(r) + g] \subseteq Lane
    BY <1>1, <2>1, Addresses DEF IInv, TypeOK
  <2>9. ASSUME NEW x \in Attended(head, r) PROVE \E t \in s : x = <<t, {t}>>
    <3>b. PICK a \in Popped(head, r) :
            x \in {<<Group * (a - AddrOffset(r)) + l, scores[head][a - AddrOffset(r)][l]>> :
                     l \in v_mem[head][a]}
      BY DEF Attended
    <3>a. PICK g \in 0 .. Groups - 1 : Active(s, g) /\ a = AddrOffset(r) + g
      BY <2>3 DEF ActiveWords
    <3>1. PICK l \in v_mem[head][a] :
            x = <<Group * (a - AddrOffset(r)) + l, scores[head][a - AddrOffset(r)][l]>>
      BY <3>b
    <3>2. a - AddrOffset(r) = g
      BY <2>5, <3>a
    <3>3. l \in Lane /\ Group * g + l \in s
      BY <2>6, <2>8, <3>a, <3>1
    <3>4. scores[head][g][l] = {Group * g + l}
      BY <2>2, <2>4, <3>3
    <3> QED BY <3>1, <3>2, <3>3, <3>4
  <2>10. ASSUME NEW t \in s PROVE <<t, {t}>> \in Attended(head, r)
    <3>0. t \in 0 .. Window - 1
      BY <2>2
    <3>1. PICK g \in 0 .. Groups - 1, l \in Lane : t = Group * g + l
      BY <3>0, Lanes
    <3>2. Active(s, g) /\ l \in v_mem[head][AddrOffset(r) + g]
      BY <2>7, <3>1
    <3>3. scores[head][g][l] = {t}
      BY <2>2, <2>4, <3>1
    <3>4. PICK a \in Popped(head, r) : a = AddrOffset(r) + g
      BY <2>3, <3>2 DEF ActiveWords
    <3>5. a - AddrOffset(r) = g
      BY <2>5, <3>4
    <3>6. <<Group * (a - AddrOffset(r)) + l, scores[head][a - AddrOffset(r)][l]>>
            \in Attended(head, r)
      BY <3>2, <3>4 DEF Attended
    <3> QED BY <3>1, <3>3, <3>5, <3>6
  <2> QED BY <2>9, <2>10
<1>2. IInv => AttendsToHistory
  BY <1>1 DEF AttendsToHistory
<1> QED BY <1>2, Inductive, PTL

(* The list of a row names each active group once and no other.            *)
THEOREM ListsCorrect == Spec => []ListsAreExact
<1>1. ASSUME IInv, Kind = "UseV", NEW h \in Head, NEW r \in Row
      PROVE  /\ Cardinality(Popped(h, r)) = stack[h][StackOffset(r)] - 1
             /\ Popped(h, r) = {r * Groups + t \div Group : t \in spikes[h][r]}
  <2> DEFINE s == spikes[h][r]
             n == stack[h][StackOffset(r)] - 1
             f == [i \in 1 .. n |-> stack[h][StackOffset(r) + i]]
  <2>1. /\ s \subseteq 0 .. now /\ now \in 0 .. Window - 1 /\ Window \in Nat
        /\ ListOK(stack[h], stack[h][StackOffset(r)], s, r)
    BY <1>1, RowsInUse
  <2>2. n \in Nat /\ \A i \in 1 .. n : stack[h][StackOffset(r) + i] \in Nat
    <3>1. \A g \in 0 .. Groups - 1 : AddrOffset(r) + g \in Nat
      BY Addresses DEF VWords
    <3> QED BY <2>1, <3>1, WindowAssumption DEF ListOK, EOS
  <2>3. Popped(h, r) = {stack[h][StackOffset(r) + i] : i \in 1 .. n}
    BY DEF Popped
  <2>4. \A i, j \in 1 .. n : stack[h][StackOffset(r) + i] = stack[h][StackOffset(r) + j] => i = j
    <3> SUFFICES ASSUME NEW i \in 1 .. n, NEW j \in 1 .. n, i # j
                 PROVE  stack[h][StackOffset(r) + i] # stack[h][StackOffset(r) + j]
      OBVIOUS
    <3>1. i < j \/ j < i
      BY <2>2
    <3> QED BY <2>1, <2>2, <3>1 DEF ListOK
  <2>5. Cardinality(Popped(h, r)) = n
    <3> HIDE DEF n
    <3>1. f \in Bijection(1 .. n, Popped(h, r))
      BY <2>3, <2>4 DEF Bijection, Injection, Surjection, IsInjective
    <3> QED BY <2>2, <3>1, FS_CountingElements DEF ExistsBijection
  <2>6. Popped(h, r) = ActiveWords(s, r)
    BY <2>1, EntriesAreActive, PoppedAreEntries
  <2>7. AddrOffset(r) = r * Groups
    BY WindowAssumption DEF AddrOffset, EOS
  <2>8. \A g \in 0 .. Groups - 1 : Active(s, g) <=> \E t \in s : g = t \div Group
    <3> SUFFICES ASSUME NEW g \in 0 .. Groups - 1
                 PROVE  Active(s, g) <=> \E t \in s : g = t \div Group
      OBVIOUS
    <3>1. Active(s, g) => \E t \in s : g = t \div Group
      BY LaneTimes DEF Active
    <3>2. ASSUME NEW t \in s, g = t \div Group PROVE Active(s, g)
      <4>1. t \in 0 .. Window - 1
        BY <2>1
      <4>2. t = Group * g + (t % Group) /\ t % Group \in Lane
        BY <3>2, <4>1, Lanes
      <4> QED BY <4>2 DEF Active
    <3> QED BY <3>1, <3>2
  <2>9. \A t \in s : t \div Group \in 0 .. Groups - 1
    <3>1. s \subseteq 0 .. Window - 1
      BY <2>1
    <3> QED BY <3>1, Lanes
  <2>10. Popped(h, r) = {r * Groups + t \div Group : t \in s}
    <3> HIDE DEF s
    <3>1. ActiveWords(s, r) = {AddrOffset(r) + t \div Group : t \in s}
      BY <2>8, <2>9 DEF ActiveWords
    <3> QED BY <2>6, <2>7, <3>1
  <2> QED BY <2>5, <2>10
<1>2. IInv => ListsAreExact
  BY <1>1 DEF ListsAreExact
<1> QED BY <1>2, Inductive, PTL

(* A row that was seen before pops the words of its active groups.         *)
LEMMA PoppedAreActive ==
  ASSUME TypeOK, RowsOK, now > 0, NEW h \in Head, NEW r \in Row
  PROVE  Popped(h, r)
           = ActiveWords(spikes[h][r], r)
<1>1. Seen(h, r) > 0
  BY Products DEF Seen
<1>2. ListOK(stack[h], stack[h][StackOffset(r)], spikes[h][r], r)
  BY <1>1 DEF RowsOK, RowOK
<1> QED BY <1>2, EntriesAreActive, PoppedAreEntries

(* The same of the next state.                                             *)
LEMMA PoppedAreActiveNext ==
  ASSUME TypeOK', RowsOK', now' > 0, NEW h \in Head, NEW r \in Row
  PROVE  Popped(h, r)'
           = ActiveWords(spikes'[h][r], r)
<1>1. now' \in Nat
  BY WindowAssumption DEF TypeOK, Window
<1>2. Seen(h, r)' > 0
  <2>1. Seen(h, r)' = now' \/ Seen(h, r)' = now' + 1
    BY DEF Seen
  <2> QED BY <1>1, <2>1
<1>3. ListOK(stack'[h], stack'[h][StackOffset(r)], spikes'[h][r], r)
  BY <1>2 DEF RowsOK, RowOK
<1> QED BY <1>3, EntriesAreActive, PoppedAreEntries

(* A group that has gone by keeps its words and its place in the lists     *)
(* until the window ends.                                                  *)
THEOREM HistoryKept == Spec => HistoryIsKept
<1> DEFINE Kept == \A h \in Head, r \in Row, g \in 0 .. Groups - 1 :
                     LET a == AddrOffset(r) + g
                     IN  Group * (g + 1) <= now =>
                           /\ v_mem'[h][a] = v_mem[h][a]
                           /\ (a \in Popped(h, r))' <=> a \in Popped(h, r)
<1>1. ASSUME UNCHANGED <<v_mem, stack>> PROVE Kept
  BY <1>1 DEF Popped
<1>2. ASSUME IInv, NEW spike \in BOOLEAN, VGen(spike) PROVE Kept
  <2> SUFFICES ASSUME NEW h \in Head, NEW r \in Row, NEW g \in 0 .. Groups - 1,
                      Group * (g + 1) <= now
               PROVE  /\ v_mem'[h][AddrOffset(r) + g] = v_mem[h][AddrOffset(r) + g]
                      /\ (AddrOffset(r) + g \in Popped(h, r))'
                             <=> AddrOffset(r) + g \in Popped(h, r)
    OBVIOUS
  <2>1. TypeOK /\ PointersAgree /\ RowsOK
    BY <1>2 DEF IInv
  <2>2. /\ head \in Head /\ beat \in Row
        /\ \A q \in Row \ {beat} : \A k \in 0 .. Groups - 1 :
             v_mem'[head][AddrOffset(q) + k] = v_mem[head][AddrOffset(q) + k]
        /\ \A q \in Head \ {head} : v_mem'[q] = v_mem[q]
    BY <1>2, <2>1, VGenRow
  <2>3. /\ now' = now /\ now \in Nat /\ now \in 0 .. Window - 1 /\ timestep = now
        /\ now \div Group \in 0 .. Groups - 1
    BY <1>2, <2>1, Products, Times, Lanes DEF VGen, TypeOK
  <2>4. Group * g + Group <= now /\ Group * g \in Nat /\ Group \in Nat \ {0}
    BY WindowAssumption, Parts
  <2>5. g # now \div Group
    BY <2>3, <2>4, Lanes DEF Lane
  <2>6. v_mem'[h][AddrOffset(r) + g] = v_mem[h][AddrOffset(r) + g]
    <3>1. CASE h = head /\ r = beat
      <4>1. /\ AddrOffset(beat) + g \in VWords
            /\ AddrOffset(beat) + g # AddrOffset(beat) + now \div Group
        BY <2>2, <2>3, <2>5, Addresses
      <4>2. v_mem' = [v_mem EXCEPT ![head][AddrOffset(beat) + now \div Group] =
                        data_out_V(v_mem[head][AddrOffset(beat) + now \div Group], spike)]
        BY <1>2, <2>3 DEF VGen
      <4> QED BY <2>1, <2>2, <3>1, <4>1, <4>2 DEF TypeOK
    <3>2. CASE ~(h = head /\ r = beat)
      BY <2>2, <3>2
    <3> QED BY <3>1, <3>2
  <2>7. Active(spikes'[h][r], g) <=> Active(spikes[h][r], g)
    <3>1. \A l \in Lane : Group * g + l # now
      BY <2>3, <2>4 DEF Lane
    <3>2. \A t \in Nat : t # now => (t \in spikes'[h][r] <=> t \in spikes[h][r])
      BY <1>2, <2>1, <2>2 DEF VGen, TypeOK
    <3>3. \A l \in Lane : Group * g + l \in Nat
      BY <2>4 DEF Lane
    <3> QED BY <3>1, <3>2, <3>3 DEF Active
  <2>8. TypeOK' /\ RowsOK' /\ now > 0
    BY <1>2, <2>1, <2>3, <2>4, TypeStep, RowsStep DEF Next
  <2>9. Popped(h, r)
          = ActiveWords(spikes[h][r], r)
    BY <2>1, <2>8, PoppedAreActive
  <2>10. Popped(h, r)'
          = ActiveWords(spikes'[h][r], r)
    BY <2>3, <2>8, PoppedAreActiveNext
  <2>11. \A k \in 0 .. Groups - 1 : AddrOffset(r) + k = AddrOffset(r) + g => k = g
    BY Addresses
  <2>12. (AddrOffset(r) + g \in Popped(h, r))' <=> AddrOffset(r) + g \in Popped(h, r)
    <3>1. AddrOffset(r) + g \in Popped(h, r) <=> Active(spikes[h][r], g)
      BY <2>9, <2>11 DEF ActiveWords
    <3>2. AddrOffset(r) + g \in Popped(h, r)' <=> Active(spikes'[h][r], g)
      BY <2>10, <2>11 DEF ActiveWords
    <3> QED BY <2>7, <3>1, <3>2
  <2> QED BY <2>6, <2>12
<1>3. IInv /\ [Next]_vars => [Kept]_vars
  <2> SUFFICES ASSUME IInv, Next PROVE Kept
    OBVIOUS
  <2>1. CASE KGen \/ QKt \/ UseV \/ Last \/ Reset
    <3>1. UNCHANGED <<v_mem, stack>>
      BY <2>1 DEF KGen, QKt, UseV, Last, Reset, Age
    <3> QED BY <1>1, <3>1
  <2>2. CASE \E spike \in BOOLEAN : VGen(spike)
    BY <1>2, <2>2
  <2> QED BY <2>1, <2>2 DEF Next
<1> QED BY <1>3, Inductive, PTL DEF Spec, HistoryIsKept
=============================================================================
