------------------------- MODULE RateEnvelopeProofs -------------------------
(***************************************************************************)
(* Proofs about RateEnvelope, for any configurations within MaxBurst and   *)
(* MaxRate, a negative batch_max included, any clock readings and any lag. *)
(*                                                                         *)
(* The step of admit_batch.lua is split into what it computes (BatchFacts: *)
(* a batch costs Unit for each waiter and never more than the bucket       *)
(* holds; RefillFacts: the refill is at most the rate over the time        *)
(* credited) and what that does to the envelope (AdmitKeepsEnvelope).      *)
(***************************************************************************)
EXTENDS RateEnvelope, EventQueueProofs

-----------------------------------------------------------------------------
(* Arithmetic.                                                             *)

LEMMA ChargeEach ==
    ASSUME NEW c \in Int, NEW b \in Int, NEW u \in Int, NEW x \in Int
    PROVE  (c + b) * u + (x - b * u) = c * u + x
OBVIOUS

LEMMA CreditApart ==
    ASSUME NEW r \in Int, NEW x \in Int, NEW y \in Int
    PROVE  r * (x + y) = r * x + r * y
OBVIOUS

-----------------------------------------------------------------------------
(* The queue's invariant holds here too.                                   *)

LEMMA EnvelopeImplementsQueue == EnvelopeSpec => Spec
<1>1. EnvelopeInit => Init
  BY DEF EnvelopeInit
<1>2. [EnvelopeNext]_envelopeVars => [Next]_queueVars
  <2>1. ASSUME NEW now \in Readings, Admit(now) PROVE Next
    BY <2>1 DEF Admit, Readings, Next
  <2>2. CASE Restart
    BY <2>2 DEF Restart, Next
  <2>3. CASE Tick
    BY <2>3 DEF Tick
  <2>4. CASE \E t \in Tokens : Join(t) /\ UNCHANGED <<clock, window>>
    BY <2>4 DEF Next
  <2>5. CASE \E c \in Configs : PutConfig(c) /\ UNCHANGED <<clock, window>>
    BY <2>5 DEF Next
  <2>6. CASE UNCHANGED envelopeVars
    BY <2>6 DEF envelopeVars
  <2>7. QED
    BY <2>1, <2>2, <2>3, <2>4, <2>5, <2>6 DEF EnvelopeNext
<1>3. QED
  BY <1>1, <1>2, PTL DEF EnvelopeSpec, Spec

LEMMA EnvelopeKeepsQueue == EnvelopeSpec => [](TypeOK /\ Dense)
BY EnvelopeImplementsQueue, QueueInvariant, PTL

-----------------------------------------------------------------------------
(* What one call of admit_batch.lua computes.                              *)

LEMMA ConfigFacts ==
    ASSUME TypeOK, ~AdmissionClosed
    PROVE  /\ config.burst \in Nat /\ config.burst <= MaxBurst
           /\ config.rate_per_min \in Int /\ 0 < config.rate_per_min
           /\ config.rate_per_min <= MaxRate
           /\ config.batch_max \in Int
           /\ Unit \in Nat \ {0} /\ MaxBurst \in Nat /\ MaxRate \in Nat
<1>1. config \in Configs
  BY DEF TypeOK, AdmissionClosed
<1>2. config.rate_per_min \in Int /\ ~(config.rate_per_min <= 0)
  BY <1>1, ConfigAssumption DEF AdmissionClosed
<1>3. config.batch_max \in Int
  BY <1>1, ConfigAssumption
<1>4. QED
  BY <1>1, <1>2, <1>3, EnvelopeAssumption, UnitAssumption

\* The refilled bucket: never in debt, never above the brim, and filled by
\* at most MaxRate over the time credited.
LEMMA RefillFacts ==
    ASSUME TypeOK, ~AdmissionClosed, NEW now \in Times,
           bucket # NoBucket => 0 <= bucket.tokens
    PROVE  /\ TokensAt(now) \in Nat
           /\ TokensAt(now) <= MaxBurst * Unit
           /\ bucket # NoBucket =>
                TokensAt(now) <= bucket.tokens + MaxRate * Elapsed(now, bucket.last_refill_ms)
<1>1. PICK b \in Buckets : b = OpenBucket(now) /\ 0 <= b.tokens
  <2>1. OpenBucket(now) \in Buckets /\ 0 <= OpenBucket(now).tokens
    <3>1. config.burst * Unit \in Nat
      BY ConfigFacts
    <3>2. now \in Int
      BY TimesAssumption
    <3>3. QED
      BY <3>1, <3>2 DEF OpenBucket, Buckets, TypeOK
  <2>2. QED
    BY <2>1
<1>2. PICK e \in Nat : e = Elapsed(now, b.last_refill_ms)
  BY <1>1, TimesAssumption DEF Elapsed, Buckets
<1>3. TokensAt(now) = Smaller(config.burst * Unit, b.tokens + e * config.rate_per_min)
  BY <1>1, <1>2 DEF TokensAt, Refilled
<1>4. config.burst * Unit \in Nat /\ config.burst * Unit <= MaxBurst * Unit
  BY ConfigFacts, TimesMonotone
<1>5. e * config.rate_per_min \in Nat
  BY ConfigFacts
<1>6. e * config.rate_per_min <= MaxRate * e
  <2>1. e * config.rate_per_min <= e * MaxRate
    BY ConfigFacts, TimesMonotone
  <2>2. QED
    BY <2>1, ConfigFacts
<1>7. b.tokens \in Nat
  BY <1>1 DEF Buckets
<1>8. MaxBurst * Unit \in Nat /\ MaxRate * e \in Nat
  BY ConfigFacts
<1>9. QED
  <2>1. TokensAt(now) \in Nat /\ TokensAt(now) <= MaxBurst * Unit
    BY <1>3, <1>4, <1>5, <1>7, <1>8 DEF Smaller
  <2>2. TokensAt(now) <= b.tokens + MaxRate * e
    BY <1>3, <1>4, <1>5, <1>6, <1>7, <1>8 DEF Smaller
  <2>3. ASSUME bucket # NoBucket PROVE b = bucket
    BY <1>1, <2>3 DEF OpenBucket
  <2>4. QED
    BY <1>2, <2>1, <2>2, <2>3

\* The batch is what the counter gains, and the bucket can pay for it.
LEMMA BatchFacts ==
    ASSUME TypeOK, Dense, NEW now \in Times, AdmitBatch(now), config.batch_max >= 0,
           bucket # NoBucket => 0 <= bucket.tokens
    PROVE  /\ Batch(now) \in Nat
           /\ admitted' = admitted + Batch(now)
           /\ Batch(now) * Unit <= TokensAt(now)
           /\ bucket' = [tokens |-> TokensAt(now) - Batch(now) * Unit, last_refill_ms |-> now]
<1>1. ~AdmissionClosed
  BY DEF AdmitBatch
<1>2. TokensAt(now) \in Nat /\ Unit \in Nat \ {0}
  BY <1>1, RefillFacts, UnitAssumption
<1>3. PICK w : w = TokensAt(now) \div Unit
  OBVIOUS
<1>4. w \in Int /\ 0 <= w /\ w * Unit <= TokensAt(now)
  BY <1>2, <1>3, WholeTokens
<1>5. ZCard \in Nat
  BY QueueCard DEF TypeOK, Dense
<1>6. Batch(now) = Smaller(Smaller(w, config.batch_max), ZCard)
  BY <1>3 DEF Batch, BatchSize
<1>7. Batch(now) \in Nat /\ Batch(now) <= w
  BY <1>1, <1>4, <1>5, <1>6, ConfigFacts DEF Smaller
<1>8. Batch(now) * Unit <= w * Unit
  BY <1>2, <1>4, <1>7, TimesMonotone
<1>9. admitted' = admitted + Batch(now)
  <2>1. CASE Batch(now) <= 0
    BY <1>7, <2>1 DEF AdmitBatch, TypeOK
  <2>2. CASE ~(Batch(now) <= 0)
    BY <2>2 DEF AdmitBatch, Pop
  <2>3. QED
    BY <2>1, <2>2
<1>10. Batch(now) * Unit <= TokensAt(now)
  BY <1>2, <1>4, <1>7, <1>8
<1>11. QED
  BY <1>7, <1>9, <1>10 DEF AdmitBatch

-----------------------------------------------------------------------------
(* The envelope is inductive.                                              *)

EnvelopeInv ==
    /\ EnvelopeTypeOK
    /\ RateWithRewinds
    /\ MaxLag = 0 /\ window # NoWindow => window.rewound = 0

LEMMA ReadingFacts ==
    ASSUME EnvelopeTypeOK, NEW now \in Readings
    PROVE  /\ now \in Times /\ now \in Int /\ clock \in Int /\ now <= clock
           /\ MaxLag = 0 => now = clock
BY TimesAssumption, EnvelopeAssumption DEF Readings, EnvelopeTypeOK

LEMMA MeteredKeepsEnvelope ==
    ASSUME TypeOK, Dense, EnvelopeInv, NEW now \in Readings, Admit(now),
           config.batch_max >= 0
    PROVE  EnvelopeInv'
<1>1. AdmitBatch(now) /\ now \in Times /\ now \in Int /\ clock' = clock
  BY ReadingFacts DEF Admit, EnvelopeInv
<1>2. bucket # NoBucket => 0 <= bucket.tokens /\ bucket \in Buckets
  BY DEF EnvelopeInv, EnvelopeTypeOK, TypeOK
<1>3. PICK n \in Nat : n = Batch(now)
  BY <1>1, <1>2, BatchFacts
<1>4. PICK x \in Nat : x = TokensAt(now)
  BY <1>1, <1>2, RefillFacts DEF AdmitBatch
<1>5. /\ admitted' - admitted = n
      /\ bucket' = [tokens |-> x - n * Unit, last_refill_ms |-> now]
      /\ n * Unit <= x /\ n * Unit \in Nat
  BY <1>1, <1>2, <1>3, <1>4, BatchFacts, UnitAssumption DEF TypeOK
<1>6. /\ x <= MaxBurst * Unit
      /\ bucket # NoBucket => x <= bucket.tokens + MaxRate * Elapsed(now, bucket.last_refill_ms)
  BY <1>1, <1>2, <1>4, RefillFacts DEF AdmitBatch
<1>7. bucket' # NoBucket /\ bucket'.tokens = x - n * Unit /\ bucket'.last_refill_ms = now
  BY <1>1, <1>5, UnitAssumption, BucketAssumption DEF Buckets
<1>8. 0 <= bucket'.tokens /\ bucket'.last_refill_ms <= clock'
  BY <1>1, <1>5, <1>7, ReadingFacts DEF EnvelopeInv
<1>9. Unit \in Nat /\ MaxBurst \in Nat /\ MaxRate \in Nat
  BY UnitAssumption, EnvelopeAssumption
<1>10. CASE OpenWindow(now)
  <2>1. window' = [start |-> now, count |-> n, rewound |-> 0]
    BY <1>5, <1>10 DEF OpenWindow
  <2>2. window' \in Windows /\ window' # NoWindow
    BY <1>1, <2>1, WindowAssumption DEF Windows
  <2>3. n * Unit + (x - n * Unit) = x
    BY <1>5
  <2>4. RateWithRewinds'
    <3>1. window'.count * Unit + bucket'.tokens <= MaxBurst * Unit
      BY <1>6, <1>7, <2>1, <2>3
    <3>2. MaxRate * (bucket'.last_refill_ms - window'.start + window'.rewound) = 0
      BY <1>1, <1>7, <1>9, <2>1
    <3>3. MaxBurst * Unit \in Int
      BY <1>9
    <3>4. QED
      BY <3>1, <3>2, <3>3 DEF RateWithRewinds
  <2>5. EnvelopeTypeOK'
    BY <1>1, <1>7, <1>8, <2>2 DEF EnvelopeTypeOK, EnvelopeInv
  <2>6. QED
    BY <2>1, <2>4, <2>5 DEF EnvelopeInv
<1>11. CASE ExtendWindow(now)
  <2>1. window \in Windows /\ window # NoWindow /\ bucket # NoBucket
    BY <1>11 DEF ExtendWindow, EnvelopeInv, EnvelopeTypeOK
  <2>2. PICK e \in Nat : e = Elapsed(now, bucket.last_refill_ms)
    BY <1>1, <1>2, <2>1 DEF Elapsed, Buckets
  <2>3. /\ Rewind(now) \in Nat
        /\ now - bucket.last_refill_ms + Rewind(now) = e
        /\ MaxLag = 0 => Rewind(now) = 0
    <3>1. bucket.last_refill_ms \in Int /\ bucket.last_refill_ms <= clock
      BY <1>2, <2>1 DEF Buckets, EnvelopeInv, EnvelopeTypeOK
    <3>2. MaxLag = 0 => now = clock
      BY ReadingFacts DEF EnvelopeInv
    <3>3. QED
      BY <1>1, <2>1, <2>2, <3>1, <3>2 DEF Rewind, Elapsed
  <2>4. PICK c \in Nat, st \in Int, rw \in Nat :
           window = [start |-> st, count |-> c, rewound |-> rw]
    BY <2>1 DEF Windows
  <2>5. window' = [start |-> st, count |-> c + n, rewound |-> rw + Rewind(now)]
    BY <1>5, <1>11, <2>4 DEF ExtendWindow
  <2>6. window' \in Windows /\ window' # NoWindow
    BY <2>3, <2>5, WindowAssumption DEF Windows
  <2>7. PICK tk \in Int, last \in Int : tk = bucket.tokens /\ last = bucket.last_refill_ms
    BY <1>2, <2>1 DEF Buckets
  <2>8. c * Unit + tk <= MaxBurst * Unit + MaxRate * (last - st + rw)
    BY <2>1, <2>4, <2>7 DEF EnvelopeInv, RateWithRewinds
  <2>9. (c + n) * Unit + (x - n * Unit) = c * Unit + x
    BY <1>9, ChargeEach
  <2>10. x <= tk + MaxRate * e
    BY <1>6, <2>1, <2>2, <2>7
  <2>11. MaxRate * (now - st + (rw + Rewind(now)))
           = MaxRate * (last - st + rw) + MaxRate * e
    <3>1. now - st + (rw + Rewind(now)) = (last - st + rw) + e
      BY <1>1, <2>3, <2>7
    <3>2. QED
      BY <1>9, <3>1, CreditApart
  <2>12. RateWithRewinds'
    <3>1. /\ c * Unit \in Int /\ MaxBurst * Unit \in Int
          /\ MaxRate * (last - st + rw) \in Int /\ MaxRate * e \in Int
      BY <1>9
    <3>2. c * Unit + x <= MaxBurst * Unit + (MaxRate * (last - st + rw) + MaxRate * e)
      BY <2>8, <2>10, <3>1
    <3>3. (c + n) * Unit + (x - n * Unit)
             <= MaxBurst * Unit + MaxRate * (now - st + (rw + Rewind(now)))
      BY <2>9, <2>11, <3>2
    <3>4. QED
      BY <1>7, <2>5, <3>3 DEF RateWithRewinds
  <2>13. EnvelopeTypeOK'
    BY <1>1, <1>7, <1>8, <2>6 DEF EnvelopeTypeOK, EnvelopeInv
  <2>14. MaxLag = 0 => window'.rewound = 0
    BY <2>1, <2>3, <2>4, <2>5 DEF EnvelopeInv
  <2>15. QED
    BY <2>12, <2>13, <2>14 DEF EnvelopeInv
<1>12. QED
  <2>1. config.batch_max \in Int
    BY ConfigFacts DEF Admit, AdmitBatch
  <2>2. QED
    BY <1>10, <1>11, <2>1 DEF Admit

\* A call that pays into the bucket ends the stretch.
LEMMA PayingKeepsEnvelope ==
    ASSUME TypeOK, TypeOK', EnvelopeInv, NEW now \in Readings, Admit(now),
           config.batch_max < 0
    PROVE  EnvelopeInv'
<1>1. config.batch_max \in Int
  BY ConfigFacts DEF Admit, AdmitBatch
<1>2. AdmitBatch(now) /\ window' = NoWindow /\ clock' = clock
  BY <1>1 DEF Admit
<1>3. clock' \in Times /\ now <= clock'
  BY <1>2, ReadingFacts DEF EnvelopeInv, EnvelopeTypeOK
<1>4. bucket' # NoBucket => 0 <= bucket'.tokens
  BY DEF TypeOK, Buckets
<1>5. bucket'.last_refill_ms = now
  BY <1>2 DEF AdmitBatch
<1>6. EnvelopeTypeOK'
  BY <1>2, <1>3, <1>4, <1>5 DEF EnvelopeTypeOK
<1>7. QED
  BY <1>2, <1>6 DEF EnvelopeInv, RateWithRewinds

LEMMA AdmitKeepsEnvelope ==
    ASSUME TypeOK, Dense, TypeOK', EnvelopeInv, NEW now \in Readings, Admit(now)
    PROVE  EnvelopeInv'
<1>1. config.batch_max \in Int
  BY ConfigFacts DEF Admit, AdmitBatch
<1>2. QED
  BY <1>1, MeteredKeepsEnvelope, PayingKeepsEnvelope

\* Steps that touch neither the bucket nor the window.
LEMMA OthersKeepEnvelope ==
    ASSUME TypeOK, EnvelopeInv, UNCHANGED <<bucket, window>>,
           clock' \in Times, clock <= clock'
    PROVE  EnvelopeInv'
<1>1. clock \in Int /\ clock' \in Int
  BY TimesAssumption DEF EnvelopeInv, EnvelopeTypeOK
<1>2. ASSUME bucket # NoBucket PROVE bucket.last_refill_ms <= clock'
  <2>1. bucket.last_refill_ms \in Int /\ bucket.last_refill_ms <= clock
    BY <1>2 DEF EnvelopeInv, EnvelopeTypeOK, TypeOK, Buckets
  <2>2. QED
    BY <1>1, <2>1
<1>3. QED
  BY <1>2 DEF EnvelopeInv, EnvelopeTypeOK, RateWithRewinds

LEMMA EnvelopeInvInit == EnvelopeInit => EnvelopeInv
BY EnvelopeAssumption DEF EnvelopeInit, Init, EnvelopeInv, EnvelopeTypeOK, RateWithRewinds

LEMMA EnvelopeInvariant == EnvelopeSpec => []EnvelopeInv
<1>1. TypeOK /\ Dense /\ TypeOK' /\ EnvelopeInv /\ [EnvelopeNext]_envelopeVars => EnvelopeInv'
  <2> SUFFICES ASSUME TypeOK, Dense, TypeOK', EnvelopeInv, [EnvelopeNext]_envelopeVars
               PROVE  EnvelopeInv'
    OBVIOUS
  <2>1. clock \in Times /\ clock \in Int /\ clock <= clock
    BY TimesAssumption DEF EnvelopeInv, EnvelopeTypeOK
  <2>2. CASE Tick
    <3>1. clock' \in Times /\ clock <= clock' /\ UNCHANGED <<bucket, window>>
      BY <2>1, <2>2 DEF Tick, queueVars
    <3>2. QED
      BY <3>1, OthersKeepEnvelope
  <2>3. ASSUME NEW t \in Tokens, Join(t), UNCHANGED <<clock, window>> PROVE EnvelopeInv'
    BY <2>1, <2>3, OthersKeepEnvelope DEF Join
  <2>4. ASSUME NEW now \in Readings, Admit(now) PROVE EnvelopeInv'
    BY <2>4, AdmitKeepsEnvelope
  <2>5. ASSUME NEW c \in Configs, PutConfig(c), UNCHANGED <<clock, window>> PROVE EnvelopeInv'
    BY <2>1, <2>5, OthersKeepEnvelope DEF PutConfig
  <2>6. CASE Restart
    BY <2>1, <2>6 DEF Restart, ResetState, EnvelopeInv, EnvelopeTypeOK, RateWithRewinds
  <2>7. CASE UNCHANGED envelopeVars
    <3>1. clock' = clock /\ UNCHANGED <<bucket, window>>
      BY <2>7 DEF envelopeVars, queueVars
    <3>2. QED
      BY <2>1, <3>1, OthersKeepEnvelope
  <2>8. QED
    BY <2>2, <2>3, <2>4, <2>5, <2>6, <2>7 DEF EnvelopeNext
<1>2. QED
  BY <1>1, EnvelopeInvInit, EnvelopeKeepsQueue, PTL DEF EnvelopeSpec

\* The bucket is never in debt, and its refill is never ahead of the clock.
THEOREM EnvelopeTypes == EnvelopeSpec => []EnvelopeTypeOK
<1>1. EnvelopeInv => EnvelopeTypeOK
  BY DEF EnvelopeInv
<1>2. QED
  BY <1>1, EnvelopeInvariant, PTL

\* Whatever clock readings admit_batch.lua is called with, admissions stay
\* within a burst plus the rate over the bucket's own time, stretches by
\* which last_refill_ms was set back counted twice.
THEOREM RateWithinRewinds == EnvelopeSpec => []RateWithRewinds
<1>1. EnvelopeInv => RateWithRewinds
  BY DEF EnvelopeInv
<1>2. QED
  BY <1>1, EnvelopeInvariant, PTL

\* With readings that are never stale the documented contract holds: a burst
\* plus the rate times the elapsed time, in every stretch of time.
THEOREM ContractWhenFresh == MaxLag = 0 => (EnvelopeSpec => []RateContract)
<1> SUFFICES ASSUME MaxLag = 0 PROVE EnvelopeSpec => []RateContract
  OBVIOUS
<1>1. TypeOK /\ EnvelopeInv => RateContract
  <2> SUFFICES ASSUME TypeOK, EnvelopeInv, window # NoWindow
               PROVE  window.count * Unit <= MaxBurst * Unit + MaxRate * (clock - window.start)
    BY DEF RateContract
  <2>1. /\ bucket # NoBucket /\ bucket \in Buckets /\ window \in Windows /\ window.rewound = 0
        /\ 0 <= bucket.tokens /\ bucket.last_refill_ms <= clock
    BY DEF EnvelopeInv, EnvelopeTypeOK, TypeOK
  <2>2. PICK c \in Nat, st \in Int, tk \in Nat, last \in Int :
           c = window.count /\ st = window.start /\ tk = bucket.tokens /\ last = bucket.last_refill_ms
    BY <2>1 DEF Windows, Buckets
  <2>3. clock \in Int /\ Unit \in Nat /\ MaxRate \in Nat /\ MaxBurst \in Nat
    BY TimesAssumption, UnitAssumption, EnvelopeAssumption DEF EnvelopeInv, EnvelopeTypeOK
  <2>4. c * Unit + tk <= MaxBurst * Unit + MaxRate * (last - st)
    BY <2>1, <2>2 DEF EnvelopeInv, RateWithRewinds
  <2>5. MaxRate * (last - st) <= MaxRate * (clock - st)
    BY <2>1, <2>2, <2>3, TimesMonotone
  <2>6. /\ c * Unit \in Int /\ MaxBurst * Unit \in Int
        /\ MaxRate * (last - st) \in Int /\ MaxRate * (clock - st) \in Int
    BY <2>2, <2>3
  <2>7. c * Unit <= MaxBurst * Unit + MaxRate * (clock - st)
    BY <2>2, <2>4, <2>5, <2>6
  <2>8. QED
    BY <2>2, <2>7
<1>2. QED
  BY <1>1, EnvelopeKeepsQueue, EnvelopeInvariant, PTL

=============================================================================
