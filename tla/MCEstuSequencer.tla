---------------------------- MODULE MCEstuSequencer ----------------------------
(***************************************************************************)
(* A program with one instruction of each kind, in the order of the        *)
(* microcode, two products in a row: a dense one, a sum, the products, one *)
(* that generates V, one that uses V, and the classifier, the last one.    *)
(***************************************************************************)
EXTENDS EstuSequencerProps, TLC

MCNeurons ==
  (0 :> 3) @@ (6 :> 5) @@ (12 :> 0) @@ (18 :> 0) @@ (24 :> 4) @@ (30 :> 2) @@ (36 :> 4)

MCDelay ==
  (0 :> 8) @@ (6 :> 1) @@ (12 :> 1) @@ (18 :> 1) @@ (24 :> 9) @@ (30 :> 8) @@ (36 :> 6)
=============================================================================
