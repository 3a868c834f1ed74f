--------------------------- MODULE MCCounterWeight ---------------------------
(***************************************************************************)
(* A small instance of CounterWeight for TLC: a tempo of eight blocks,     *)
(* with rate limits below, at and above it.                                *)
(***************************************************************************)
EXTENDS CounterWeight

MCLeads == {0, 2, 3, 4}
MCRateLimits == {0, 3, 5, 6, 8, 10, 18}

=============================================================================
