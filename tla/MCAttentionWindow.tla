--------------------------- MODULE MCAttentionWindow ---------------------------
(***************************************************************************)
(* Two instances of the attention memory, both with words of two           *)
(* timesteps: several heads of one row over a window of four timesteps,    *)
(* and one head of several rows.  Windows and resets follow one another    *)
(* without bound, so every window starts from what others left.            *)
(***************************************************************************)
EXTENDS AttentionWindowProps
=============================================================================
