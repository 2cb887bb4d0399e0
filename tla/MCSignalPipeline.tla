-------------------------- MODULE MCSignalPipeline --------------------------
(***************************************************************************)
(* Two exchanges, of which one has no endpoint to cancel its signals; one  *)
(* worker, or two that are interchangeable.                                *)
(***************************************************************************)
EXTENDS SignalPipeline, TLC

CONSTANTS bybit, binance, w1, w2

Interchangeable == Permutations(Workers)
=============================================================================
