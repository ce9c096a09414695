--------------------------- MODULE MCAdmissionLoop ---------------------------
(* Two processes, two tokens, one repetition of a command.                   *)
EXTENDS AdmissionLoop

MCConfigs == {[rate_per_min |-> 2, burst |-> 2, batch_max |-> 2]}

MCTimes == 0..2

=============================================================================
