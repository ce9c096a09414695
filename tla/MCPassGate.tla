------------------------------ MODULE MCPassGate ------------------------------
(* Two admitters, two tokens, three arrivals, a booking host whose clock is  *)
(* right, a tick behind or a tick ahead.                                     *)
EXTENDS PassGate, TLC

MCConfigs == {[rate_per_min |-> 1, burst |-> 2, batch_max |-> 2]}

MCTimes == 0..2

MCSkews == {-1, 0, 1}

MCSymmetry == Permutations(Tokens) \cup Permutations(Admitters)

=============================================================================
