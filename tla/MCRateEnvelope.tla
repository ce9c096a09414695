--------------------------- MODULE MCRateEnvelope ---------------------------
(* Three tokens, half-token refills, time 0 .. 3.                           *)
EXTENDS RateEnvelope, TLC

MCConfigs == {
    [rate_per_min |-> 2, burst |-> 1, batch_max |-> 3],   \* fast, no reserve
    [rate_per_min |-> 1, burst |-> 2, batch_max |-> 2],   \* ordinary
    [rate_per_min |-> 0, burst |-> 2, batch_max |-> 1],   \* paused
    [rate_per_min |-> 1, burst |-> 1, batch_max |-> -1] } \* a typing error

MCTimes == 0..3

MCSymmetry == Permutations(Tokens)

=============================================================================
