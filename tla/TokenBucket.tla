---------------------------- MODULE TokenBucket ----------------------------
(***************************************************************************)
(* The arithmetic of the token bucket in lua/admit_batch.lua: how many     *)
(* tokens a call finds in the bucket and how many waiters it may pop.      *)
(*                                                                         *)
(* The script keeps a fractional number of tokens.  Here tokens are        *)
(* counted in 1/Unit of a token, so that a refill of elapsed * rate units  *)
(* is exact; with milliseconds and a rate per minute, Unit is 60000.       *)
(* Rounding of the doubles the script computes with is left out.           *)
(***************************************************************************)
EXTENDS Integers

CONSTANT Unit   \* units in one token: 60000 in the script

ASSUME UnitAssumption == Unit \in Nat \ {0}

Smaller(a, b) == IF a <= b THEN a ELSE b

\* Fault: a clock that stepped backwards is credited as if it had advanced.
ElapsedEitherWay(now, last) == IF now < last THEN last - now ELSE now - last

\* A clock that stepped backwards credits nothing.
Elapsed(now, last) == IF now < last THEN 0 ELSE now - last

\* Fault: only whole tokens are written back to the bucket.
RefilledWhole(cfg, tokens, elapsed) ==
    Smaller(cfg.burst, (tokens + elapsed * cfg.rate_per_min) \div Unit) * Unit

\* Units in the bucket after the refill; never more than a full burst.
Refilled(cfg, tokens, elapsed) ==
    Smaller(cfg.burst * Unit, tokens + elapsed * cfg.rate_per_min)

\* Fault: a batch is not limited by the tokens in the bucket.
BatchUnmetered(cfg, tokens, waiting) == Smaller(cfg.batch_max, waiting)

\* Fault: a waiter has to be less than what is in the bucket.
BatchStrict(cfg, tokens, waiting) ==
    Smaller(Smaller((tokens - 1) \div Unit, cfg.batch_max), waiting)

\* The three ceilings on a batch: the rate, the batch size, the queue length.
BatchSize(cfg, tokens, waiting) ==
    Smaller(Smaller(tokens \div Unit, cfg.batch_max), waiting)

=============================================================================
