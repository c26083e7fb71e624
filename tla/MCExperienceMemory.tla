------------------------- MODULE MCExperienceMemory -------------------------
(***************************************************************************)
(* ExperienceMemory for TLC.                                               *)
(***************************************************************************)
EXTENDS ExperienceMemory

\* Noise that add refuses, and a gain.
MCOutcomes == {[dir |-> "LONG", pnl |-> 0], [dir |-> "SHORT", pnl |-> 40]}
MCTrades == 1..2
=============================================================================
