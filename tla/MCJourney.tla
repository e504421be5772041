----------------------------- MODULE MCJourney -----------------------------
(* Short journeys for TLC: the cfg gives the timers small lengths in the   *)
(* order of the code's.                                                    *)
EXTENDS Journey

MCTier == {"none", "silver"}
=============================================================================
