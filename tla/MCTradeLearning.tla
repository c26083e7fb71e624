-------------------------- MODULE MCTradeLearning --------------------------
(***************************************************************************)
(* TradeLearning for TLC.                                                  *)
(***************************************************************************)
EXTENDS TradeLearning
=============================================================================
