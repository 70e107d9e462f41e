----------------------------- MODULE MCLifPipeline -----------------------------
(***************************************************************************)
(* Three layers: one of two words whose pulses may come at every edge (a   *)
(* dense layer without input spikes), one of single spikes, as in V        *)
(* generation, and the classifier.                                         *)
(***************************************************************************)
EXTENDS LifPipelineProps

MCLayers == <<[nout |-> 2, single |-> FALSE, gap |-> 1],
              [nout |-> 2, single |-> TRUE,  gap |-> 8],
              [nout |-> 1, single |-> TRUE,  gap |-> 8]>>
MCBase == <<0, 8, 10, 11>>
=============================================================================
