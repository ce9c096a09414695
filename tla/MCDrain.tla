------------------------------- MODULE MCDrain -------------------------------
(* Three tokens that come back for ever, readings up to a tick late, rates of  *)
(* a third and two thirds of a token a tick, a paused and a frozen event.    *)
EXTENDS Drain

MCConfigs == {
    [rate_per_min |-> 1, burst |-> 1, batch_max |-> 2],
    [rate_per_min |-> 2, burst |-> 2, batch_max |-> 1],
    [rate_per_min |-> 0, burst |-> 1, batch_max |-> 1],   \* paused
    [rate_per_min |-> 1, burst |-> 0, batch_max |-> 1] }  \* never a whole token

MCTimes == {0, -1}

=============================================================================
