----------------------------- MODULE MCWaiterView -----------------------------
(* Two tabs of one browser, two tokens, three arrivals, one admitter.        *)
EXTENDS WaiterView, TLC

CONSTANT b1

MCConfigs == {[rate_per_min |-> 2, burst |-> 1, batch_max |-> 1]}

MCTimes == 0..1

MCOwner == [x \in Tabs |-> b1]

MCSymmetry == Permutations(Tokens) \cup Permutations(Tabs)

=============================================================================
