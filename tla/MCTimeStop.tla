------------------------------ MODULE MCTimeStop ------------------------------
(***************************************************************************)
(* TimeStop for TLC, with what the documents say of it.                    *)
(***************************************************************************)
EXTENDS TimeStop

\* FILTERS_CURRENT.md:93, "Zombie retry | 60s | hardTimeStop + 60s -> force
\* close": a position does not outlive the zombie age for ever.
ZombieIsClosed == clock = "zombie" ~> size = 0
=============================================================================
