---------------------------- MODULE PassGateProofs ----------------------------
(***************************************************************************)
(* Proofs about PassGate, for any processes, tokens, configurations, clock *)
(* readings, repetitions and skews.                                        *)
(*                                                                         *)
(* Whatever is collected or sold rests on LoopInv of AdmissionLoopProofs.  *)
(* What has to be added is that a number is never signed with two expiries *)
(* (SignedOnce): the expiry comes from the reading of the tick that popped *)
(* it, which the process keeps while it repeats the pipeline, and no other *)
(* process holds the number.                                               *)
(*                                                                         *)
(* The bound on the crowd adds the argument of the token bucket to it, and *)
(* the last part puts the refinements of the other modules together.       *)
(***************************************************************************)
EXTENDS PassGate, AdmissionLoopProofs

\* A collected pass, a stored one or a batch in hand stands for number k with
\* the expiry e.
IssuedAs(k, e) ==
    \/ \E q \in wallet : q.claims.jti = k /\ q.exp = e
    \/ \E t \in Tokens : passes[t] # NoPass /\ passes[t].number = k /\ passes[t].exp = e
    \/ \E p \in Admitters : \E w \in Held(p) : w.number = k /\ Expiry(admitter[p].now) = e

SignedOnce == \A k, e, f : IssuedAs(k, e) /\ IssuedAs(k, f) => e = f

Collected ==
    \A q \in wallet : /\ q \in Credential
                      /\ q.iat = q.exp - PassTTL
                      /\ q.claims.jti \in recorded
                      /\ q.claims.user_id = arrivals[q.claims.jti]

Sold == sold \subseteq {q.claims : q \in wallet}

GateInv == LoopInv /\ SignedOnce /\ Collected /\ Sold /\ skew \in Skews

-----------------------------------------------------------------------------
(* The invariant.                                                          *)

\* The numbers that are issued as anything have been called.
LEMMA IssuedIsCalled ==
    LoopInv /\ Collected => \A k, e : IssuedAs(k, e) => k \in 1 .. admitted
<1> SUFFICES ASSUME LoopInv, Collected, NEW k, NEW e, IssuedAs(k, e)
             PROVE  k \in 1 .. admitted
  OBVIOUS
<1>1. \A j \in recorded : j \in 1 .. admitted
  BY DEF LoopInv, Ledger
<1>2. ASSUME NEW p \in Admitters, NEW w \in Held(p)
      PROVE  w.number \in 1 .. admitted
  <2>1. w.number \in 1 .. MaxSeq /\ w.number <= admitted
    BY RecordOf DEF Hands, Popped
  <2>2. admitted \in Nat
    BY DEF LoopInv, Types, TypeOK
  <2>3. QED
    BY <2>1, <2>2, MaxSeqAssumption
<1>3. k \in recorded \/ \E p \in Admitters : \E w \in Held(p) : w.number = k
  BY DEF IssuedAs, Collected, LoopInv, Kept
<1>4. QED
  BY <1>1, <1>2, <1>3

LEMMA IssuedIsCalledNext ==
    LoopInv' /\ Collected' => \A k, e : IssuedAs(k, e)' => k \in 1 .. admitted'
<1>1. (LoopInv /\ Collected => \A k, e : IssuedAs(k, e) => k \in 1 .. admitted)'
  BY IssuedIsCalled, PTL
<1>2. QED
  BY <1>1

\* A step of the queue service issues a number that was called before only as
\* what it was issued as.
LEMMA OldNumbersKeep ==
    ASSUME LoopInv, Collected, [LoopNext]_loopVars, UNCHANGED wallet,
           NEW k \in Int, NEW e, IssuedAs(k, e)'
    PROVE  \/ IssuedAs(k, e)
           \/ /\ admitted < k
              /\ \E p \in Admitters : \E w \in Held(p)' :
                    w.number = k /\ Expiry(admitter'[p].now) = e
<1>1. CASE \E q \in wallet' : q.claims.jti = k /\ q.exp = e
  BY <1>1 DEF IssuedAs
<1>2. ASSUME NEW p \in Admitters, NEW w \in Held(p)', w.number = k, Expiry(admitter'[p].now) = e
      PROVE  IssuedAs(k, e) \/ admitted < k
  BY <1>2, BatchesMove DEF Handed, IssuedAs
<1>3. ASSUME NEW t \in Tokens, passes'[t] # NoPass, passes'[t].number = k, passes'[t].exp = e
      PROVE  IssuedAs(k, e)
  <2>1. CASE passes'[t] = passes[t]
    BY <1>3, <2>1 DEF IssuedAs
  <2>2. CASE passes'[t] # passes[t]
    <3>1. PICK p \in Admitters : \E w \in Held(p) : Stored(p, w)
      BY <2>2, PassesMove
    <3>2. PICK w \in Held(p) : Stored(p, w)
      BY <3>1
    <3>3. passes'[t] = PassOf(p, w)
      BY <2>2, <3>2 DEF Stored, LoopInv, Types
    <3>4. w.number = k /\ Expiry(admitter[p].now) = e
      BY <1>3, <3>3 DEF PassOf
    <3>5. QED
      BY <3>2, <3>4 DEF IssuedAs
  <2>3. QED
    BY <2>1, <2>2
<1>4. QED
  BY <1>1, <1>2, <1>3 DEF IssuedAs

LEMMA LoopKeepsSigned ==
    ASSUME LoopInv, SignedOnce, Collected, [LoopNext]_loopVars, UNCHANGED wallet
    PROVE  SignedOnce' /\ Collected'
<1>1. LoopInv'
  BY LoopNextKeeps
<1>2. Collected'
  <2> SUFFICES ASSUME NEW q \in wallet
               PROVE  /\ q.claims.jti \in recorded'
                      /\ q.claims.user_id = arrivals'[q.claims.jti]
    BY DEF Collected
  <2>1. q.claims.jti \in recorded /\ q.claims.user_id = arrivals[q.claims.jti]
    BY DEF Collected
  <2>2. recorded \subseteq 1 .. seq
    BY DEF LoopInv, Ledger, Types, TypeOK, Dense
  <2>3. QED
    BY <2>1, <2>2, HistoryGrows
<1>3. SignedOnce'
  <2> SUFFICES ASSUME NEW k, NEW e, NEW f, IssuedAs(k, e)', IssuedAs(k, f)'
               PROVE  e = f
    BY DEF SignedOnce
  <2>1. k \in Int
    BY <1>1, <1>2, IssuedIsCalledNext
  <2>2. CASE IssuedAs(k, e) /\ IssuedAs(k, f)
    BY <2>2 DEF SignedOnce
  <2>3. CASE ~IssuedAs(k, e) \/ ~IssuedAs(k, f)
    <3>1. admitted < k
      BY <2>1, <2>3, OldNumbersKeep
    <3>2. ~IssuedAs(k, e) /\ ~IssuedAs(k, f)
      BY <2>1, <3>1, IssuedIsCalled DEF LoopInv, Types, TypeOK
    <3>3. PICK p \in Admitters : \E w \in Held(p)' : w.number = k /\ Expiry(admitter'[p].now) = e
      BY <2>1, <3>2, OldNumbersKeep
    <3>4. PICK q \in Admitters : \E w \in Held(q)' : w.number = k /\ Expiry(admitter'[q].now) = f
      BY <2>1, <3>2, OldNumbersKeep
    <3>5. p = q
      BY <1>1, <3>3, <3>4 DEF LoopInv, Ledger
    <3>6. QED
      BY <3>3, <3>4, <3>5
  <2>4. QED
    BY <2>2, <2>3
<1>4. QED
  BY <1>2, <1>3

\* A pass that is stored, as it is signed when it is collected.
LEMMA SignedFacts ==
    ASSUME GateInv, NEW t \in Tokens, passes[t] # NoPass
    PROVE  /\ Signed(t) \in Credential /\ Signed(t).iat = Signed(t).exp - PassTTL
           /\ Signed(t).claims.jti = passes[t].number /\ Signed(t).claims.user_id = t
           /\ Signed(t).exp = passes[t].exp
           /\ passes[t].number \in recorded /\ arrivals[passes[t].number] = t
<1>1. /\ passes[t] \in Keys /\ passes[t].number \in recorded
      /\ arrivals[passes[t].number] = t
  BY DEF GateInv, LoopInv, Kept
<1>2. passes[t].number \in 1 .. MaxSeq
  BY <1>1, MaxSeqAssumption DEF GateInv, LoopInv, Ledger, Types, TypeOK, Dense
<1>3. QED
  BY <1>1, <1>2, LoopAssumption DEF Signed, ClaimsFor, Credential, PassClaims, Keys

\* Collecting a pass issues nothing.
LEMMA CollectIssues ==
    ASSUME GateInv, NEW t \in Tokens, Collect(t), NEW k, NEW e, IssuedAs(k, e)'
    PROVE  IssuedAs(k, e)
<1>1. /\ UNCHANGED loopVars /\ wallet' = wallet \cup {Signed(t)}
      /\ passes[t] # NoPass
  BY DEF Collect, Offered, Live
<1>2. Signed(t).claims.jti = passes[t].number /\ Signed(t).exp = passes[t].exp
  BY <1>1, SignedFacts
<1>3. QED
  BY <1>1, <1>2 DEF IssuedAs, loopVars, Held

LEMMA CollectOK ==
    ASSUME GateInv, NEW t \in Tokens, Collect(t)
    PROVE  GateInv'
<1>1. /\ UNCHANGED <<loopVars, skew, sold>> /\ wallet' = wallet \cup {Signed(t)}
      /\ passes[t] # NoPass
  BY DEF Collect, Offered, Live
<1>2. LoopInv'
  BY <1>1, LoopStutterOK DEF GateInv
<1>3. /\ Signed(t) \in Credential /\ Signed(t).iat = Signed(t).exp - PassTTL
      /\ Signed(t).claims.jti \in recorded
      /\ arrivals[Signed(t).claims.jti] = Signed(t).claims.user_id
  BY <1>1, SignedFacts
<1>4. Collected'
  BY <1>1, <1>3 DEF GateInv, Collected, loopVars, history
<1>5. SignedOnce'
  BY CollectIssues DEF GateInv, SignedOnce
<1>6. QED
  BY <1>1, <1>2, <1>4, <1>5 DEF GateInv, Sold

LEMMA BookOK ==
    ASSUME GateInv, NEW pass \in wallet, NEW e, Book(pass, e)
    PROVE  GateInv'
<1>1. UNCHANGED <<loopVars, skew, wallet>> /\ sold' = sold \cup {pass.claims}
  BY DEF Book, TS!Sell
<1>2. LoopInv'
  BY <1>1, LoopStutterOK DEF GateInv
<1>3. Collected' /\ SignedOnce'
  BY <1>1, LoopKeepsSigned DEF GateInv, loopVars
<1>4. QED
  BY <1>1, <1>2, <1>3 DEF GateInv, Sold

LEMMA NothingIssued == GateInit => \A k, e : ~IssuedAs(k, e)
<1> SUFFICES ASSUME GateInit PROVE \A k, e : ~IssuedAs(k, e)
  OBVIOUS
<1>1. \A p \in Admitters : Held(p) = {}
  BY DEF GateInit, LoopInit, Asleep, Held
<1>2. wallet = {} /\ \A t \in Tokens : passes[t] = NoPass
  BY DEF GateInit, LoopInit
<1>3. QED
  BY <1>1, <1>2 DEF IssuedAs

\* Whatever was signed was signed once, collected or not, and whoever holds a
\* ticket collected the pass for it.
THEOREM GateInvariant == GateSpec => []GateInv
<1>1. GateInit => GateInv
  <2> SUFFICES ASSUME GateInit PROVE GateInv
    OBVIOUS
  <2>1. LoopInv /\ skew \in Skews /\ wallet = {} /\ sold = {}
    BY LoopInitOK DEF GateInit, TS!SaleInit
  <2>2. SignedOnce
    BY NothingIssued DEF SignedOnce
  <2>3. QED
    BY <2>1, <2>2 DEF GateInv, Collected, Sold
<1>2. GateInv /\ [GateNext]_allVars => GateInv'
  <2> SUFFICES ASSUME GateInv, [GateNext]_allVars PROVE GateInv'
    OBVIOUS
  <2>1. ASSUME [LoopNext]_loopVars, UNCHANGED <<skew, wallet, sold>> PROVE GateInv'
    <3>1. LoopInv'
      BY <2>1, LoopNextKeeps DEF GateInv
    <3>2. SignedOnce' /\ Collected'
      BY <2>1, LoopKeepsSigned DEF GateInv
    <3>3. QED
      BY <2>1, <3>1, <3>2 DEF GateInv, Sold
  <2>2. ASSUME NEW t \in Tokens, Collect(t) PROVE GateInv'
    BY <2>2, CollectOK
  <2>3. ASSUME NEW pass \in wallet, NEW e, Book(pass, e) PROVE GateInv'
    BY <2>3, BookOK
  <2>4. QED
    BY <2>1, <2>2, <2>3 DEF GateNext, QueueStep, allVars, gateVars
<1>3. QED
  BY <1>1, <1>2, PTL DEF GateSpec

-----------------------------------------------------------------------------
(* The theorems.                                                           *)

LEMMA ClaimsEqual ==
    ASSUME NEW c \in PassClaims, NEW d \in PassClaims, c.jti = d.jti, c.user_id = d.user_id
    PROVE  c = d
BY DEF PassClaims

\* A place in the line is worth one pass with one expiry, however often the
\* pass is stored or collected, and only who collected a pass holds a ticket.
THEOREM OnePassPerPlace == GateSpec => []GateTypeOK
<1>1. GateInv => GateTypeOK
  <2> SUFFICES ASSUME GateInv PROVE GateTypeOK
    OBVIOUS
  <2>1. ASSUME NEW p \in wallet, NEW q \in wallet, p.claims.jti = q.claims.jti
        PROVE  p = q
    <3>1. p \in Credential /\ q \in Credential
      BY DEF GateInv, Collected
    <3>2. p.exp = q.exp /\ p.iat = q.iat
      BY <2>1 DEF GateInv, Collected, SignedOnce, IssuedAs
    <3>3. p.claims = q.claims
      BY <2>1, <3>1, ClaimsEqual DEF GateInv, Collected, Credential
    <3>4. QED
      BY <3>1, <3>2, <3>3 DEF Credential
  <2>2. QED
    BY <2>1 DEF GateInv, GateTypeOK, Collected, Sold
<1>2. QED
  BY <1>1, GateInvariant, PTL

\* Behind every ticket stands one place in the line that its holder held
\* himself, that was called and whose pass was delivered.
THEOREM TicketsWereWaitedFor == GateSpec => []EveryTicketWaited
<1>1. GateInv => EveryTicketWaited
  <2> SUFFICES ASSUME GateInv PROVE EveryTicketWaited
    OBVIOUS
  <2>1. ASSUME NEW c \in sold
        PROVE  /\ c \in PassClaims /\ c.jti \in recorded
               /\ arrivals[c.jti] = c.user_id
    BY DEF GateInv, Sold, Collected, Credential
  <2>2. recorded \cap stranded = {} /\ \A k \in recorded : k <= admitted
    BY DEF GateInv, LoopInv, Ledger, Types, TypeOK
  <2>3. ASSUME NEW c \in sold, NEW d \in sold, c.jti = d.jti PROVE c = d
    BY <2>1, <2>3, ClaimsEqual
  <2>4. ASSUME NEW c \in sold PROVE c.event_id = ThisEvent
    BY <2>1 DEF PassClaims
  <2>5. QED
    BY <2>1, <2>2, <2>3, <2>4 DEF EveryTicketWaited
<1>2. QED
  BY <1>1, GateInvariant, PTL

-----------------------------------------------------------------------------
(* The crowd, with configurations that meter.                              *)
(*                                                                         *)
(* What the counter has gained since number k was popped is paid for by    *)
(* one full bucket and by the time since, in which every stretch that a    *)
(* late reading set last_refill_ms back counts twice (Pace); hence two     *)
(* numbers are as far apart in time as they are in the line (Spread), and  *)
(* the passes that verify at one moment, issued within one life of a pass, *)
(* are few.                                                                *)

\* A full bucket, and the fastest refill over a time.
Allowance(time) == MaxBurst * Unit + MaxRate * time

Pace ==
    \A k, e : IssuedAs(k, e) =>
        /\ bucket # NoBucket
        /\ (admitted - k + 1) * Unit + bucket.tokens
             <= Allowance(bucket.last_refill_ms - (e - PassTTL) * Second + rewound[k])

Spread ==
    \A k, l, e, f : IssuedAs(k, e) /\ IssuedAs(l, f) /\ k <= l =>
        (l - k + 1) * Unit <= Allowance((f - e) * Second + (Second - 1) + rewound[k])

CrowdInv == /\ rewound \in [1 .. admitted -> Nat]
            /\ Pace
            /\ Spread

LEMMA Amounts ==
    /\ Unit \in Nat \ {0} /\ Second \in Nat \ {0} /\ PassTTL \in Nat \ {0}
    /\ MaxBurst \in Nat /\ MaxRate \in Nat
    /\ \A c \in Configs : c \in [rate_per_min : Int, burst : Int, batch_max : Int]
BY UnitAssumption, LoopAssumption, GateAssumption, ConfigAssumption

LEMMA TimesExact ==
    ASSUME NEW b \in Int, NEW u \in Nat \ {0}
    PROVE  (b * u) \div u = b
OBVIOUS

LEMMA AllowanceGrows ==
    ASSUME NEW s \in Int, NEW t \in Int, s <= t
    PROVE  Allowance(s) \in Int /\ Allowance(t) \in Int /\ Allowance(s) <= Allowance(t)
<1>1. MaxRate * s <= MaxRate * t /\ MaxRate * s \in Int /\ MaxRate * t \in Int
  BY Amounts, TimesMonotone
<1>2. MaxBurst * Unit \in Int
  BY Amounts
<1>3. QED
  BY <1>1, <1>2 DEF Allowance

LEMMA AllowanceAdds ==
    ASSUME NEW s \in Int, NEW t \in Int
    PROVE  Allowance(s + t) = Allowance(s) + MaxRate * t /\ MaxRate * t \in Int
<1>1. MaxRate * (s + t) = MaxRate * s + MaxRate * t
  BY Amounts
<1>2. /\ MaxRate * s \in Int /\ MaxRate * t \in Int /\ MaxRate * (s + t) \in Int
      /\ MaxBurst * Unit \in Int
  BY Amounts
<1>3. QED
  BY <1>1, <1>2 DEF Allowance

\* What a call finds in the bucket is no more than a full one, and no more
\* than what was left and the refill since.
LEMMA RefillBounds ==
    ASSUME TypeOK, Metering, ~AdmissionClosed, NEW now \in Times
    PROVE  /\ TokensAt(now) \in Int
           /\ TokensAt(now) <= MaxBurst * Unit
           /\ bucket # NoBucket =>
                TokensAt(now) <= bucket.tokens + MaxRate * Elapsed(now, bucket.last_refill_ms)
           /\ TokensAt(now) < 0 => TokensAt(now) = config.burst * Unit
<1>1. /\ config.burst \in Int /\ config.burst <= MaxBurst
      /\ config.rate_per_min \in Nat /\ config.rate_per_min <= MaxRate
  <2>1. config \in Configs /\ ~(config.rate_per_min <= 0)
    BY DEF TypeOK, AdmissionClosed
  <2>2. QED
    BY <2>1, Amounts DEF Metering
<1>2. config.burst * Unit \in Int /\ config.burst * Unit <= MaxBurst * Unit /\ MaxBurst * Unit \in Nat
  <2>1. Unit * config.burst <= Unit * MaxBurst
    BY <1>1, Amounts, TimesMonotone
  <2>2. QED
    BY <1>1, <2>1, Amounts
<1>3. now \in Int
  BY TimesAssumption
<1>4. CASE bucket = NoBucket
  <2>1. TokensAt(now) = config.burst * Unit
    BY <1>1, <1>2, <1>3, <1>4 DEF TokensAt, OpenBucket, Elapsed, Refilled, Smaller
  <2>2. QED
    BY <1>2, <1>4, <2>1
<1>5. CASE bucket # NoBucket
  <2>1. PICK tk \in Nat, last \in Int : tk = bucket.tokens /\ last = bucket.last_refill_ms
    BY <1>5 DEF TypeOK, Buckets
  <2>2. PICK e \in Nat : e = Elapsed(now, last)
    BY <1>3, <2>1 DEF Elapsed
  <2>3. TokensAt(now) = Smaller(config.burst * Unit, tk + e * config.rate_per_min)
    BY <1>5, <2>1, <2>2 DEF TokensAt, OpenBucket, Refilled
  <2>4. /\ e * config.rate_per_min \in Nat /\ MaxRate * e \in Nat
        /\ e * config.rate_per_min <= MaxRate * e
    <3>1. e * config.rate_per_min <= e * MaxRate
      BY <1>1, Amounts, TimesMonotone
    <3>2. QED
      BY <1>1, <3>1, Amounts
  <2>5. /\ TokensAt(now) \in Int /\ TokensAt(now) <= MaxBurst * Unit
        /\ TokensAt(now) <= tk + MaxRate * e
        /\ TokensAt(now) < 0 => TokensAt(now) = config.burst * Unit
    BY <1>2, <2>3, <2>4 DEF Smaller
  <2>6. QED
    BY <2>1, <2>2, <2>5
<1>6. QED
  BY <1>4, <1>5

\* What the bucket pays for the batch and what it keeps were in it.
LEMMA CallCharge ==
    ASSUME TypeOK, Dense, Metering, NEW now \in Times, AdmitBatch(now)
    PROVE  \E n, tk \in Nat :
             /\ admitted' = admitted + n
             /\ bucket' # NoBucket /\ bucket'.tokens = tk /\ bucket'.last_refill_ms = now
             /\ n * Unit + tk <= MaxBurst * Unit
             /\ bucket # NoBucket =>
                  n * Unit + tk <= bucket.tokens + MaxRate * Elapsed(now, bucket.last_refill_ms)
<1>1. ~AdmissionClosed
  BY DEF AdmitBatch
<1>2. config \in Configs /\ config.burst \in Int /\ config.batch_max \in Nat
  <2>1. config \in Configs
    BY <1>1 DEF TypeOK, AdmissionClosed
  <2>2. QED
    BY <2>1, Amounts DEF Metering
<1>3. PICK x \in Int : x = TokensAt(now)
  BY <1>1, RefillBounds
<1>4. /\ x <= MaxBurst * Unit
      /\ bucket # NoBucket => x <= bucket.tokens + MaxRate * Elapsed(now, bucket.last_refill_ms)
      /\ x < 0 => x = config.burst * Unit
  BY <1>1, <1>3, RefillBounds
<1>5. PICK w \in Int : w = x \div Unit /\ w * Unit <= x /\ (0 <= x => 0 <= w)
  BY Amounts, WholeTokens
<1>6. ZCard \in Nat
  BY QueueCard DEF TypeOK, Dense
<1>7. PICK n \in Int : n = Batch(now)
  BY <1>1, BatchBounds
<1>8. n = Smaller(Smaller(w, config.batch_max), ZCard)
  BY <1>3, <1>5, <1>7 DEF Batch, BatchSize
<1>9. /\ bucket' = [tokens |-> x - n * Unit, last_refill_ms |-> now]
      /\ x - n * Unit \in Nat
  BY <1>1, <1>3, <1>7, BatchBounds DEF AdmitBatch
<1>10. bucket' # NoBucket /\ bucket'.tokens = x - n * Unit /\ bucket'.last_refill_ms = now
  BY <1>9, BucketAssumption, TimesAssumption DEF Buckets
<1>11. CASE 0 <= x
  <2>1. n \in Nat
    BY <1>2, <1>5, <1>6, <1>8, <1>11 DEF Smaller
  <2>2. admitted' = admitted + n
    BY <1>7, <2>1 DEF AdmitBatch, Pop, TypeOK
  <2>3. n * Unit \in Int /\ n * Unit + (x - n * Unit) = x
    BY Amounts
  <2>4. QED
    BY <1>4, <1>9, <1>10, <2>1, <2>2, <2>3
<1>12. CASE x < 0
  <2>1. w = config.burst /\ x = config.burst * Unit
    BY <1>2, <1>4, <1>5, <1>12, Amounts, TimesExact
  <2>2. w < 0
    <3>1. ~(0 <= config.burst)
      BY <1>2, <1>12, <2>1, Amounts, TimesMonotone
    <3>2. QED
      BY <1>2, <2>1, <3>1
  <2>3. n = w /\ ~(0 < n)
    BY <1>2, <1>6, <1>8, <2>2 DEF Smaller
  <2>4. admitted' = admitted + 0
    BY <1>7, <2>3 DEF AdmitBatch, TypeOK
  <2>5. x - n * Unit = 0
    BY <1>2, <2>1, <2>3, Amounts
  <2>6. 0 * Unit + 0 <= MaxBurst * Unit
    BY Amounts
  <2>7. bucket # NoBucket =>
          0 * Unit + 0 <= bucket.tokens + MaxRate * Elapsed(now, bucket.last_refill_ms)
    <3> SUFFICES ASSUME bucket # NoBucket
                 PROVE  0 <= bucket.tokens + MaxRate * Elapsed(now, bucket.last_refill_ms)
      BY Amounts
    <3>1. PICK tk \in Nat, gone \in Nat :
             tk = bucket.tokens /\ gone = Elapsed(now, bucket.last_refill_ms)
      BY TimesAssumption DEF TypeOK, Buckets, Elapsed
    <3>2. MaxRate * gone \in Nat
      BY Amounts
    <3>3. QED
      BY <3>1, <3>2
  <2>8. QED
    BY <1>10, <2>4, <2>5, <2>6, <2>7
<1>13. QED
  BY <1>11, <1>12

\* Expiries are whole seconds, and the reading they were computed from lies
\* within the second they begin with.
LEMMA ExpiryOf ==
    ASSUME NEW now \in Nat
    PROVE  /\ Expiry(now) \in Int
           /\ (Expiry(now) - PassTTL) * Second <= now
           /\ now <= (Expiry(now) - PassTTL) * Second + (Second - 1)
<1>1. PICK s \in Int : s = now \div Second /\ s * Second <= now /\ now <= s * Second + (Second - 1)
  <2>1. now \div Second \in Int /\ Second \in Nat \ {0}
    BY Amounts, WholeTokens
  <2>2. (now \div Second) * Second <= now /\ now <= (now \div Second) * Second + (Second - 1)
    BY <2>1
  <2>3. QED
    BY <2>1, <2>2
<1>2. Expiry(now) \in Int /\ Expiry(now) - PassTTL = s
  BY <1>1, Amounts DEF Expiry
<1>3. QED
  BY <1>1, <1>2

LEMMA IssuedTyped ==
    LoopInv /\ Collected => \A k, e : IssuedAs(k, e) => k \in 1 .. admitted /\ e \in Int
<1> SUFFICES ASSUME LoopInv, Collected, NEW k, NEW e, IssuedAs(k, e)
             PROVE  k \in 1 .. admitted /\ e \in Int
  OBVIOUS
<1>1. \A p \in Admitters : Expiry(admitter[p].now) \in Int
  BY RecordOf, LoopAssumption, ExpiryOf
<1>2. \A t \in Tokens : passes[t] # NoPass => passes[t].exp \in Int
  BY DEF LoopInv, Kept, Keys
<1>3. \A q \in wallet : q.exp \in Int
  BY DEF Collected, Credential
<1>4. e \in Int
  BY <1>1, <1>2, <1>3 DEF IssuedAs
<1>5. QED
  BY <1>4, IssuedIsCalled

LEMMA IssuedTypedNext ==
    LoopInv' /\ Collected' =>
        \A k, e : IssuedAs(k, e)' => k \in 1 .. admitted' /\ e \in Int
<1>1. (LoopInv /\ Collected =>
          \A k, e : IssuedAs(k, e) => k \in 1 .. admitted /\ e \in Int)'
  BY IssuedTyped, PTL
<1>2. QED
  BY <1>1

\* The script as run by a process: nothing, or a call that counts.  What the
\* process holds after it, it holds with the reading of the call.
CalledBy(p) ==
    /\ AdmitBatch(admitter[p].now)
    /\ Held(p)' # {} => admitter'[p].now = admitter[p].now
    /\ \A q \in Admitters \ {p} : admitter'[q] = admitter[q]

\* Only the script changes the bucket or the counter.
LEMMA BucketMoves ==
    ASSUME LoopInv, [LoopNext]_loopVars
    PROVE  \/ UNCHANGED <<bucket, admitted>>
           \/ \E p \in Admitters : CalledBy(p)
<1> DEFINE Moved ==
             \/ UNCHANGED <<bucket, admitted>>
             \/ \E p \in Admitters : CalledBy(p)
<1>1. ASSUME NEW p \in Admitters, NEW r, admitter' = [admitter EXCEPT ![p] = r],
             RunScript(admitter[p].now), r.batch # {} => r.now = admitter[p].now
      PROVE  Moved
  <2>1. CASE AdmissionClosed
    BY <1>1, <2>1 DEF RunScript, queueVars
  <2>2. CASE ~AdmissionClosed
    <3>1. admitter'[p] = r /\ \A q \in Admitters \ {p} : admitter'[q] = admitter[q]
      BY <1>1, RecordReplaced
    <3>2. CalledBy(p)
      BY <1>1, <2>2, <3>1 DEF CalledBy, RunScript, Held
    <3>3. QED
      BY <3>2
  <2>3. QED
    BY <2>1, <2>2
<1>2. ASSUME NEW p \in Admitters, Again(p), At(p, "calling")
      PROVE  \E r : admitter' = [admitter EXCEPT ![p] = r] /\ r.batch = {}
  <2>1. CASE admitter[p].tries < MaxRetries
    <3>1. PICK r : r = [admitter[p] EXCEPT !.tries = @ + 1]
      OBVIOUS
    <3>2. admitter[p] \in Processes /\ Held(p) = {}
      BY <1>2, RecordOf DEF At
    <3>3. r.batch = {}
      BY <3>1, <3>2 DEF Processes, Held
    <3>4. admitter' = [admitter EXCEPT ![p] = r]
      BY <1>2, <2>1, <3>1 DEF Again
    <3>5. QED
      BY <3>3, <3>4
  <2>2. CASE ~(admitter[p].tries < MaxRetries)
    BY <1>2, <2>2, AsleepIs DEF Again
  <2>3. QED
    BY <2>1, <2>2
<1>3. ASSUME NEW p \in Admitters, ScriptAnswered(p) PROVE Moved
  <2> DEFINE now == admitter[p].now
  <2>1. PICK r : r = IF Reply(now) = {} THEN Asleep
                     ELSE [at |-> "recording", now |-> now, batch |-> Reply(now),
                           left |-> Reply(now), refused |-> {}, tries |-> 0]
    OBVIOUS
  <2>2. r.batch # {} => r.now = now
    BY <2>1, AsleepIs
  <2>3. admitter' = [admitter EXCEPT ![p] = r] /\ RunScript(now)
    BY <1>3, <2>1 DEF ScriptAnswered
  <2>4. QED
    BY <1>1, <2>2, <2>3
<1>4. ASSUME NEW p \in Admitters, ScriptReplyLost(p) PROVE Moved
  <2>1. Again(p) /\ At(p, "calling") /\ RunScript(admitter[p].now)
    BY <1>4 DEF ScriptReplyLost
  <2>2. QED
    BY <1>1, <1>2, <2>1
<1>5. ASSUME NEW p \in Admitters, Work(p) \/ Fail(p), ~ScriptAnswered(p), ~ScriptReplyLost(p)
      PROVE  UNCHANGED <<bucket, admitted>>
  BY <1>5 DEF Work, Fail, StartTick, StorePass, FinishTick, ScriptNotRun, RefusePass,
              PipelineFails, Die, queueVars
<1>6. CASE (\E t \in Tokens : JoinQueue(t)) \/ Tick \/ (\E c \in Configs : Reconfigure(c))
             \/ UNCHANGED loopVars
  BY <1>6 DEF JoinQueue, Join, Tick, Reconfigure, PutConfig, loopVars, queueVars
<1>7. QED
  BY <1>3, <1>4, <1>5, <1>6 DEF LoopNext

LEMMA PriceGrows ==
    ASSUME NEW a \in Int, NEW b \in Int, a <= b
    PROVE  a * Unit \in Int /\ b * Unit \in Int /\ a * Unit <= b * Unit
<1>1. Unit * a <= Unit * b /\ Unit \in Int
  BY Amounts, TimesMonotone
<1>2. QED
  BY <1>1

LEMMA FromGrows ==
    ASSUME NEW k \in Int, NEW a \in Int, NEW b \in Int, a <= b
    PROVE  /\ (a - k + 1) * Unit <= (b - k + 1) * Unit
           /\ (a - k + 1) * Unit \in Int /\ (b - k + 1) * Unit \in Int
<1>1. PICK c \in Int, d \in Int : c = a - k + 1 /\ d = b - k + 1 /\ c <= d
  OBVIOUS
<1>2. QED
  BY <1>1, PriceGrows

\* What a step issues anew was popped by it: the process holds it with the
\* reading of the call.
LEMMA NewlyIssued ==
    ASSUME GateInv, NEW p \in Admitters, CalledBy(p), [LoopNext]_loopVars, UNCHANGED wallet,
           NEW k, NEW e, IssuedAs(k, e)', ~IssuedAs(k, e)
    PROVE  admitted < k /\ e = Expiry(admitter[p].now)
<1>1. LoopInv' /\ Collected'
  BY LoopNextKeeps, LoopKeepsSigned DEF GateInv
<1>2. k \in Int
  BY <1>1, IssuedTypedNext
<1>3. PICK q \in Admitters :
         admitted < k /\ \E w \in Held(q)' : w.number = k /\ Expiry(admitter'[q].now) = e
  BY <1>2, OldNumbersKeep DEF GateInv
<1>4. q = p
  <2>1. \A w \in Held(q) : w.number \in Int /\ w.number <= admitted
    BY RecordOf DEF GateInv, Hands, Popped
  <2>2. admitted \in Int
    BY DEF GateInv, LoopInv, Types, TypeOK
  <2>3. Held(q)' # Held(q)
    BY <1>2, <1>3, <2>1, <2>2
  <2>4. QED
    BY <2>3 DEF CalledBy, Held
<1>5. QED
  BY <1>3, <1>4 DEF CalledBy

\* How the history variable follows a step of the queue service.
Rewinds == rewound' = [k \in 1 .. admitted' |-> IF k <= admitted THEN rewound[k] + SetBack ELSE 0]

LEMMA SetBackIs ==
    ASSUME TypeOK, TypeOK', UNCHANGED bucket \/ bucket' # NoBucket
    PROVE  /\ SetBack \in Nat
           /\ UNCHANGED bucket => SetBack = 0
           /\ bucket # NoBucket =>
                bucket.last_refill_ms + Elapsed(bucket'.last_refill_ms, bucket.last_refill_ms)
                  = bucket'.last_refill_ms + SetBack
<1>1. CASE bucket = NoBucket
  BY <1>1 DEF SetBack
<1>2. CASE bucket # NoBucket
  <2>1. bucket' # NoBucket
    BY <1>2
  <2>2. PICK last \in Int, now \in Int :
           last = bucket.last_refill_ms /\ now = bucket'.last_refill_ms
    BY <1>2, <2>1 DEF TypeOK, Buckets
  <2>3. SetBack = IF now < last THEN last - now ELSE 0
    BY <1>2, <2>2 DEF SetBack
  <2>4. UNCHANGED bucket => now = last
    BY <2>2
  <2>5. last + Elapsed(now, last) = now + SetBack
    BY <2>2, <2>3 DEF Elapsed
  <2>6. QED
    BY <2>2, <2>3, <2>4, <2>5
<1>3. QED
  BY <1>1, <1>2

\* The call of the script in a step, and what it sets back.
LEMMA BucketStep ==
    ASSUME LoopInv, [LoopNext]_loopVars
    PROVE  /\ SetBack \in Nat
           /\ UNCHANGED bucket => SetBack = 0
           /\ bucket # NoBucket =>
                bucket.last_refill_ms + Elapsed(bucket'.last_refill_ms, bucket.last_refill_ms)
                  = bucket'.last_refill_ms + SetBack
<1>1. TypeOK /\ TypeOK'
  BY LoopNextKeeps DEF LoopInv, Types
<1>2. UNCHANGED bucket \/ bucket' # NoBucket
  <2>1. ASSUME NEW p \in Admitters, CalledBy(p) PROVE bucket' # NoBucket
    <3>1. PICK now \in Times : now = admitter[p].now /\ AdmitBatch(now) /\ ~AdmissionClosed
      BY <2>1, RecordOf DEF CalledBy, AdmitBatch
    <3>2. TokensAt(now) - Batch(now) * Unit \in Nat
      BY <1>1, <3>1, BatchBounds DEF LoopInv, Types
    <3>3. QED
      BY <3>1, <3>2, BucketAssumption, TimesAssumption DEF AdmitBatch, Buckets
  <2>2. QED
    BY <2>1, BucketMoves
<1>3. QED
  BY <1>1, <1>2, SetBackIs

\* What is counted from an earlier number grows by what is set back, and
\* from a new one nothing has been.
LEMMA RewoundIs ==
    ASSUME LoopInv, [LoopNext]_loopVars, rewound \in [1 .. admitted -> Nat], Rewinds
    PROVE  /\ rewound' \in [1 .. admitted' -> Nat]
           /\ \A k \in 1 .. admitted : rewound'[k] = rewound[k] + SetBack
           /\ \A k \in 1 .. admitted' : admitted < k => rewound'[k] = 0
BY BucketStep, HistoryGrows DEF Rewinds

LEMMA PaceKept ==
    ASSUME GateInv, Metering, CrowdInv, [LoopNext]_loopVars, UNCHANGED wallet, Rewinds
    PROVE  Pace'
<1>1. /\ LoopInv /\ LoopInv' /\ Collected /\ Collected'
      /\ TypeOK /\ TypeOK' /\ Dense /\ admitted \in Nat /\ admitted' \in Nat
  BY LoopNextKeeps, LoopKeepsSigned DEF GateInv, LoopInv, Types, TypeOK
<1> SUFFICES ASSUME NEW k, NEW e, IssuedAs(k, e)'
             PROVE  /\ bucket' # NoBucket
                    /\ (admitted' - k + 1) * Unit + bucket'.tokens
                         <= Allowance(bucket'.last_refill_ms - (e - PassTTL) * Second + rewound'[k])
  BY DEF Pace, Allowance
<1>2. k \in 1 .. admitted' /\ k \in Int /\ e \in Int /\ (e - PassTTL) * Second \in Int
  <2>1. k \in 1 .. admitted' /\ e \in Int
    BY <1>1, IssuedTypedNext
  <2>2. QED
    BY <1>1, <2>1, Amounts
<1>3. PICK since \in Int : since = (e - PassTTL) * Second
  BY <1>2
<1>4. ASSUME IssuedAs(k, e)
      PROVE  \E old, spare \in Nat, last \in Int :
               /\ bucket # NoBucket /\ old = bucket.tokens /\ last = bucket.last_refill_ms
               /\ spare = rewound[k] /\ rewound'[k] = spare + SetBack
               /\ (admitted - k + 1) * Unit + old <= Allowance(last - since + spare)
  <2>1. k \in 1 .. admitted
    BY <1>1, <1>4, IssuedTyped
  <2>2. PICK spare \in Nat : spare = rewound[k] /\ rewound'[k] = spare + SetBack
    BY <1>1, <2>1, RewoundIs DEF CrowdInv
  <2>3. PICK old \in Nat, last \in Int :
           old = bucket.tokens /\ last = bucket.last_refill_ms /\ bucket # NoBucket
    BY <1>1, <1>4 DEF CrowdInv, Pace, TypeOK, Buckets
  <2>4. (admitted - k + 1) * Unit + old <= Allowance(last - since + spare)
    BY <1>3, <1>4, <2>2, <2>3 DEF CrowdInv, Pace
  <2>5. QED
    BY <2>2, <2>3, <2>4
<1>5. CASE UNCHANGED <<bucket, admitted>>
  <2>1. IssuedAs(k, e)
    BY <1>1, <1>2, <1>5, OldNumbersKeep
  <2>2. SetBack = 0
    BY <1>1, <1>5, BucketStep
  <2>3. PICK old \in Nat, spare \in Nat, last \in Int :
           /\ bucket # NoBucket /\ old = bucket.tokens /\ last = bucket.last_refill_ms
           /\ spare = rewound[k] /\ rewound'[k] = spare + SetBack
           /\ (admitted - k + 1) * Unit + old <= Allowance(last - since + spare)
    BY <1>4, <2>1
  <2>4. rewound'[k] = spare
    BY <2>2, <2>3
  <2>5. QED
    BY <1>3, <1>5, <2>3, <2>4
<1>6. ASSUME NEW p \in Admitters, CalledBy(p)
      PROVE  /\ bucket' # NoBucket
             /\ (admitted' - k + 1) * Unit + bucket'.tokens
                  <= Allowance(bucket'.last_refill_ms - (e - PassTTL) * Second + rewound'[k])
  <2>1. PICK now \in Times : now = admitter[p].now /\ now \in Nat
    BY <1>1, RecordOf, LoopAssumption
  <2>2. AdmitBatch(now)
    BY <1>6, <2>1 DEF CalledBy
  <2>3. PICK n \in Nat, tk \in Nat :
           /\ admitted' = admitted + n
           /\ bucket' # NoBucket /\ bucket'.tokens = tk /\ bucket'.last_refill_ms = now
           /\ n * Unit + tk <= MaxBurst * Unit
           /\ bucket # NoBucket =>
                n * Unit + tk <= bucket.tokens + MaxRate * Elapsed(now, bucket.last_refill_ms)
    BY <1>1, <2>2, CallCharge
  <2>4. n * Unit \in Nat /\ Unit \in Nat
    BY Amounts
  <2>5. CASE IssuedAs(k, e)
    <3>1. PICK old \in Nat, spare \in Nat, last \in Int :
             /\ bucket # NoBucket /\ old = bucket.tokens /\ last = bucket.last_refill_ms
             /\ spare = rewound[k] /\ rewound'[k] = spare + SetBack
             /\ (admitted - k + 1) * Unit + old <= Allowance(last - since + spare)
      BY <1>4, <2>5
    <3>2. PICK gone \in Nat, back \in Nat :
             gone = Elapsed(now, last) /\ back = SetBack /\ last + gone = now + back
      BY <1>1, <2>1, <2>3, <3>1, BucketStep DEF Elapsed
    <3>3. n * Unit + tk <= old + MaxRate * gone
      BY <2>3, <3>1, <3>2
    <3>4. /\ Allowance(now - since + rewound'[k]) = Allowance(last - since + spare) + MaxRate * gone
          /\ MaxRate * gone \in Int /\ Allowance(last - since + spare) \in Int
      <4>1. PICK s \in Int : s = last - since + spare
        OBVIOUS
      <4>2. now - since + rewound'[k] = s + gone
        BY <2>1, <3>1, <3>2, <4>1
      <4>3. /\ Allowance(s + gone) = Allowance(s) + MaxRate * gone
            /\ MaxRate * gone \in Int /\ Allowance(s) \in Int
        BY <4>1, AllowanceAdds, AllowanceGrows
      <4>4. QED
        BY <4>1, <4>2, <4>3
    <3>5. /\ (admitted' - k + 1) * Unit = (admitted - k + 1) * Unit + n * Unit
          /\ (admitted - k + 1) * Unit \in Int
      BY <1>1, <1>2, <2>3, Amounts
    <3>6. (admitted' - k + 1) * Unit + tk <= Allowance(now - since + rewound'[k])
      BY <2>4, <3>1, <3>3, <3>4, <3>5
    <3>7. QED
      BY <1>3, <2>3, <3>6
  <2>6. CASE ~IssuedAs(k, e)
    <3>1. admitted < k /\ e = Expiry(now)
      BY <1>6, <2>1, <2>6, NewlyIssued
    <3>2. since <= now /\ rewound'[k] = 0
      BY <1>1, <1>2, <1>3, <2>1, <3>1, ExpiryOf, RewoundIs DEF CrowdInv
    <3>3. Allowance(0) <= Allowance(now - since) /\ Allowance(0) = MaxBurst * Unit
      <4>1. Allowance(0) <= Allowance(now - since)
        BY <2>1, <3>2, AllowanceGrows
      <4>2. QED
        BY <4>1, Amounts DEF Allowance
    <3>4. PICK m \in Int : m = admitted' - k + 1 /\ m <= n
      BY <1>1, <1>2, <2>3, <3>1
    <3>5. m * Unit <= n * Unit /\ m * Unit \in Int
      BY <3>4, PriceGrows
    <3>6. Allowance(now - since) \in Int /\ Allowance(0) \in Int
      BY <2>1, AllowanceGrows
    <3>7. m * Unit + tk <= Allowance(now - since)
      BY <2>3, <2>4, <3>3, <3>5, <3>6
    <3>8. now - since + rewound'[k] = now - since
      BY <2>1, <3>2
    <3>9. QED
      BY <1>3, <2>3, <3>4, <3>7, <3>8
  <2>7. QED
    BY <2>5, <2>6
<1>7. QED
  BY <1>1, <1>5, <1>6, BucketMoves

LEMMA SpreadKept ==
    ASSUME GateInv, CrowdInv, Pace', [LoopNext]_loopVars, UNCHANGED wallet, Rewinds
    PROVE  Spread'
<1>1. /\ LoopInv /\ LoopInv' /\ Collected /\ Collected'
      /\ TypeOK' /\ admitted \in Nat /\ admitted' \in Nat
  BY LoopNextKeeps, LoopKeepsSigned DEF GateInv, LoopInv, Types, TypeOK
<1>2. \A k \in 1 .. admitted' : rewound'[k] \in Nat
  BY <1>1, RewoundIs DEF CrowdInv
<1>3. SUFFICES ASSUME NEW k \in 1 .. admitted', NEW l \in 1 .. admitted', NEW e \in Int,
                      NEW f \in Int, IssuedAs(k, e)', IssuedAs(l, f)', k <= l
               PROVE  (l - k + 1) * Unit
                        <= Allowance((f - e) * Second + (Second - 1) + rewound'[k])
  BY <1>1, IssuedTypedNext DEF Spread, Allowance
<1>4. PICK spare \in Nat, apart \in Int : spare = rewound'[k] /\ apart = (f - e) * Second
  BY <1>2, Amounts
<1>5. k \in Int /\ l \in Int
  BY <1>1
<1>6. CASE IssuedAs(k, e) /\ IssuedAs(l, f)
  <2>1. k \in 1 .. admitted
    BY <1>1, <1>6, IssuedTyped
  <2>2. PICK was \in Nat : was = rewound[k] /\ was <= spare
    BY <1>1, <1>4, <2>1, RewoundIs, BucketStep DEF CrowdInv
  <2>3. (l - k + 1) * Unit <= Allowance(apart + (Second - 1) + was)
    BY <1>3, <1>4, <1>6, <2>2 DEF CrowdInv, Spread
  <2>4. /\ Allowance(apart + (Second - 1) + was) <= Allowance(apart + (Second - 1) + spare)
        /\ Allowance(apart + (Second - 1) + was) \in Int
        /\ Allowance(apart + (Second - 1) + spare) \in Int
    <3>1. PICK s \in Int, t \in Int :
             s = apart + (Second - 1) + was /\ t = apart + (Second - 1) + spare /\ s <= t
      BY <2>2, Amounts
    <3>2. QED
      BY <3>1, AllowanceGrows
  <2>5. (l - k + 1) * Unit \in Int
    BY <1>5, Amounts
  <2>6. QED
    BY <1>4, <2>3, <2>4, <2>5
<1>7. CASE ~IssuedAs(l, f)
  <2>1. admitted < l
    BY <1>1, <1>3, <1>5, <1>7, OldNumbersKeep
  <2>2. PICK p \in Admitters : CalledBy(p)
    BY <1>1, <2>1, BucketMoves
  <2>3. PICK now \in Nat : now = admitter[p].now
    BY <1>1, RecordOf, LoopAssumption
  <2>4. f = Expiry(now) /\ bucket'.last_refill_ms = now
    <3>1. f = Expiry(now)
      BY <1>3, <1>7, <2>2, <2>3, NewlyIssued
    <3>2. bucket'.last_refill_ms = now
      BY <2>2, <2>3 DEF CalledBy, AdmitBatch
    <3>3. QED
      BY <3>1, <3>2
  <2>5. PICK tk \in Nat : tk = bucket'.tokens /\ bucket' # NoBucket
    BY <1>1, <1>3 DEF Pace, TypeOK, Buckets
  <2>6. PICK since \in Int, since2 \in Int :
           since = (e - PassTTL) * Second /\ since2 = (f - PassTTL) * Second
    BY Amounts
  <2>7. (admitted' - k + 1) * Unit + tk <= Allowance(now - since + spare)
    BY <1>3, <1>4, <2>4, <2>5, <2>6 DEF Pace, Allowance
  <2>8. now <= since2 + (Second - 1)
    BY <2>3, <2>4, <2>6, ExpiryOf
  <2>9. since2 - since = apart
    BY <1>4, <2>6, Amounts
  <2>10. /\ Allowance(now - since + spare) <= Allowance(apart + (Second - 1) + spare)
         /\ Allowance(now - since + spare) \in Int
         /\ Allowance(apart + (Second - 1) + spare) \in Int
    <3>1. PICK s \in Int, t \in Int :
             s = now - since + spare /\ t = apart + (Second - 1) + spare /\ s <= t
      BY <2>8, <2>9, Amounts
    <3>2. QED
      BY <3>1, AllowanceGrows
  <2>11. /\ (l - k + 1) * Unit <= (admitted' - k + 1) * Unit
         /\ (l - k + 1) * Unit \in Int /\ (admitted' - k + 1) * Unit \in Int
    <3>1. PICK n \in Int : n = admitted' /\ l <= n
      BY <1>1
    <3>2. /\ (l - k + 1) * Unit <= (n - k + 1) * Unit
          /\ (l - k + 1) * Unit \in Int /\ (n - k + 1) * Unit \in Int
      BY <1>5, <3>1, FromGrows
    <3>3. QED
      BY <3>1, <3>2
  <2>12. QED
    BY <1>4, <2>5, <2>7, <2>10, <2>11
<1>8. CASE ~IssuedAs(k, e) /\ IssuedAs(l, f)
  <2>1. admitted < k /\ l <= admitted
    BY <1>1, <1>3, <1>5, <1>8, OldNumbersKeep, IssuedTyped
  <2>2. QED
    BY <1>1, <1>3, <1>5, <2>1
<1>9. QED
  BY <1>6, <1>7, <1>8

\* Two seconds of which the later one begins before the first has lasted ttl.
LEMMA SecondsApart ==
    ASSUME NEW e \in Int, NEW d \in Int, NEW b \in Int, NEW ttl \in Nat, NEW s \in Nat \ {0},
           b < e * s, (d - ttl) * s <= b
    PROVE  d - e <= ttl - 1
<1>1. CASE e <= d - ttl
  <2>1. s * e <= s * (d - ttl)
    BY <1>1, TimesMonotone
  <2>2. QED
    BY <2>1
<1>2. QED
  BY <1>1

LEMMA SecondsWithin ==
    ASSUME NEW x \in Int, NEW ttl \in Nat, NEW s \in Nat \ {0}, x <= ttl - 1
    PROVE  x * s + (s - 1) <= ttl * s - 1
<1>1. s * (x + 1) <= s * ttl
  BY TimesMonotone
<1>2. s * (x + 1) = x * s + s
  OBVIOUS
<1>3. x * s \in Int /\ s * ttl = ttl * s /\ ttl * s \in Int
  OBVIOUS
<1>4. QED
  BY <1>1, <1>2, <1>3

LEMMA CrowdInvKept ==
    ASSUME GateInv, Metering, CrowdInv, [GateNext]_allVars
    PROVE  CrowdInv'
<1>1. ASSUME QueueStep PROVE CrowdInv'
  <2>1. [LoopNext]_loopVars /\ UNCHANGED wallet /\ Rewinds
    BY <1>1 DEF QueueStep, Rewinds
  <2>2. Pace'
    BY <2>1, PaceKept
  <2>3. Spread'
    BY <2>1, <2>2, SpreadKept
  <2>4. rewound' \in [1 .. admitted' -> Nat]
    BY <2>1, RewoundIs DEF GateInv, CrowdInv
  <2>5. QED
    BY <2>2, <2>3, <2>4 DEF CrowdInv
<1>2. ASSUME UNCHANGED <<loopVars, rewound>>, \A k, e : IssuedAs(k, e)' => IssuedAs(k, e)
      PROVE  CrowdInv'
  <2>1. UNCHANGED <<bucket, admitted, rewound>>
    BY <1>2 DEF loopVars, queueVars
  <2>2. QED
    BY <1>2, <2>1 DEF CrowdInv, Pace, Spread, Allowance
<1>3. ASSUME NEW t \in Tokens, Collect(t) PROVE CrowdInv'
  BY <1>2, <1>3, CollectIssues DEF Collect
<1>4. ASSUME UNCHANGED <<loopVars, wallet, rewound>> PROVE CrowdInv'
  <2>1. \A k, e : IssuedAs(k, e)' => IssuedAs(k, e)
    BY <1>4 DEF IssuedAs, Held, loopVars
  <2>2. QED
    BY <1>2, <1>4, <2>1
<1>5. QED
  BY <1>1, <1>3, <1>4 DEF GateNext, Book, allVars, gateVars

LEMMA CrowdInvariant == GateSpec => [](Metering => CrowdInv)
<1>1. GateInit => CrowdInv
  <2> SUFFICES ASSUME GateInit PROVE CrowdInv
    OBVIOUS
  <2>1. \A k, e : ~IssuedAs(k, e)
    BY NothingIssued
  <2>2. rewound = <<>> /\ admitted = 0
    BY DEF GateInit, LoopInit, Init
  <2>3. QED
    BY <2>1, <2>2 DEF CrowdInv, Pace, Spread
<1>2. GateInv /\ (Metering => CrowdInv) /\ [GateNext]_allVars => (Metering => CrowdInv)'
  BY CrowdInvKept DEF Metering
<1>3. QED
  BY <1>1, <1>2, GateInvariant, PTL DEF GateSpec

\* Numbers from a first one on, within an interval that B pays for at U each.
LEMMA Packed ==
    ASSUME NEW S, NEW f \in [S -> Int], NEW B \in Nat, NEW U \in Nat \ {0}, NEW z \in S,
           \A x, y \in S : f[x] = f[y] => x = y,
           \A x \in S : f[z] <= f[x] /\ (f[x] - f[z] + 1) * U <= B
    PROVE  Cardinality(S) * U <= B
<1>1. PICK n \in Nat : n * U <= B /\ B < (n + 1) * U
  <2>1. B \div U \in Nat /\ (B \div U) * U <= B /\ B < ((B \div U) + 1) * U
    OBVIOUS
  <2>2. QED
    BY <2>1
<1>2. ASSUME NEW d \in Int, (d + 1) * U <= B PROVE d < n
  <2>1. CASE n <= d
    <3>1. U * (n + 1) <= U * (d + 1)
      BY <2>1, TimesMonotone
    <3>2. QED
      BY <1>1, <1>2, <3>1
  <2>2. QED
    BY <2>1
<1>3. PICK a \in Int : a = f[z]
  OBVIOUS
<1>4. \A x \in S : f[x] \in a .. a + n - 1
  <2> TAKE x \in S
  <2>1. PICK d \in Int : d = f[x] - a
    BY <1>3
  <2>2. a <= f[x] /\ d < n
    BY <1>2, <1>3, <2>1
  <2>3. QED
    BY <1>3, <2>1, <2>2
<1>5. f \in Injection(S, a .. a + n - 1)
  BY <1>4 DEF Injection, IsInjective
<1>6. IsFiniteSet(a .. a + n - 1) /\ Cardinality(a .. a + n - 1) = n
  <2>1. PICK c \in Int : c = a + n - 1 /\ (IF a > c THEN 0 ELSE c - a + 1) = n
    OBVIOUS
  <2>2. IsFiniteSet(a .. c) /\ Cardinality(a .. c) = IF a > c THEN 0 ELSE c - a + 1
    BY FS_Interval
  <2>3. QED
    BY <2>1, <2>2
<1>7. Cardinality(S) <= n /\ Cardinality(S) \in Nat
  BY <1>5, <1>6, FS_Injection, FS_CardinalityType
<1>8. U * Cardinality(S) <= U * n
  BY <1>7, TimesMonotone
<1>9. QED
  BY <1>1, <1>7, <1>8

\* Whoever can enter was issued his pass for a number and an expiry, and is
\* known by the number.
LEMMA CrowdFacts ==
    ASSUME GateInv
    PROVE  /\ \A q \in Crowd :
                /\ Verified(q) /\ q.exp \in Int /\ q.iat = q.exp - PassTTL
                /\ q.claims.jti \in Int /\ IssuedAs(q.claims.jti, q.exp)
           /\ \A q, r \in Crowd : q.claims.jti = r.claims.jti => q = r
<1>1. ASSUME NEW q \in Crowd
      PROVE  /\ q \in Credential /\ q.iat = q.exp - PassTTL /\ Verified(q)
             /\ IssuedAs(q.claims.jti, q.exp) /\ q.claims.user_id = arrivals[q.claims.jti]
  <2>1. CASE q \in wallet
    BY <1>1, <2>1 DEF GateInv, Collected, IssuedAs, Crowd
  <2>2. CASE q \notin wallet
    <3>1. PICK t \in Tokens : Offered(t) /\ q = Signed(t) /\ Verified(q)
      BY <1>1, <2>2 DEF Crowd
    <3>2. passes[t] # NoPass
      BY <3>1 DEF Offered, Live
    <3>3. QED
      BY <3>1, <3>2, SignedFacts DEF IssuedAs
  <2>3. QED
    BY <2>1, <2>2
<1>2. ASSUME NEW q \in Crowd, NEW r \in Crowd, q.claims.jti = r.claims.jti
      PROVE  q = r
  <2>1. q.exp = r.exp
    BY <1>1, <1>2 DEF GateInv, SignedOnce
  <2>2. q.claims = r.claims
    BY <1>1, <1>2, ClaimsEqual DEF Credential
  <2>3. QED
    BY <1>1, <2>1, <2>2 DEF Credential
<1>3. QED
  BY <1>1, <1>2 DEF Credential, PassClaims

\* Those who can enter at one moment with a pass or a later one are at most a
\* burst and the rate over the life of a pass, which late readings of any
\* number of admitters extend by what they were credited twice.
THEOREM CrowdAlwaysBounded == GateSpec => []CrowdBounded
<1>1. GateInv /\ (Metering => CrowdInv) => CrowdBounded
  <2> SUFFICES ASSUME GateInv, CrowdInv, NEW first \in Crowd
               PROVE  Cardinality({q \in Crowd : first.claims.jti <= q.claims.jti}) * Unit
                        <= Allowance(PassTTL * Second - 1 + rewound[first.claims.jti])
    BY DEF CrowdBounded, Allowance
  <2>1. PICK b \in Int : b = BookingClock
    BY GateAssumption, LoopAssumption DEF BookingClock, GateInv, LoopInv, Types
  <2>2. PICK S : S = {q \in Crowd : first.claims.jti <= q.claims.jti}
    OBVIOUS
  <2>3. PICK f : f = [q \in S |-> q.claims.jti]
    OBVIOUS
  <2>4. /\ f \in [S -> Int] /\ first \in S
        /\ \A q, r \in S : f[q] = f[r] => q = r
        /\ \A q \in S : f[first] <= f[q]
    BY <2>2, <2>3, CrowdFacts
  <2>5. PICK spare \in Nat : spare = rewound[first.claims.jti]
    <3>1. first.claims.jti \in 1 .. admitted
      BY CrowdFacts, IssuedIsCalled DEF GateInv
    <3>2. QED
      BY <3>1 DEF CrowdInv
  <2>6. PICK life \in Nat : life = PassTTL * Second - 1 + spare /\ Allowance(life) \in Nat
    <3>1. PassTTL * Second - 1 + spare \in Nat
      BY Amounts
    <3>2. MaxRate * (PassTTL * Second - 1 + spare) \in Nat /\ MaxBurst * Unit \in Nat
      BY <3>1, Amounts
    <3>3. QED
      BY <3>1, <3>2 DEF Allowance
  <2>7. ASSUME NEW r \in S
        PROVE  (f[r] - f[first] + 1) * Unit <= Allowance(life)
    <3>1. r \in Crowd
      BY <2>2
    <3>2. PICK e \in Int, d \in Int : e = first.exp /\ d = r.exp
      BY <3>1, CrowdFacts
    <3>3. (f[r] - f[first] + 1) * Unit <= Allowance((d - e) * Second + (Second - 1) + spare)
      <4>1. /\ IssuedAs(f[first], e) /\ IssuedAs(f[r], d)
            /\ f[first] <= f[r] /\ f[first] = first.claims.jti
        BY <2>3, <2>4, <3>1, <3>2, CrowdFacts
      <4>2. QED
        BY <2>5, <4>1 DEF CrowdInv, Spread
    <3>4. b < e * Second /\ (d - PassTTL) * Second <= b
      <4>1. ~(first.exp * Second <= b) /\ ~(b < r.iat * Second) /\ r.iat = d - PassTTL
        BY <2>1, <3>1, <3>2, CrowdFacts DEF Verified, Expired, Immature
      <4>2. e * Second \in Int /\ (d - PassTTL) * Second \in Int
        BY Amounts
      <4>3. QED
        BY <3>2, <4>1, <4>2
    <3>5. d - e <= PassTTL - 1
      BY <3>4, Amounts, SecondsApart
    <3>6. PICK s \in Int : s = (d - e) * Second + (Second - 1) /\ s <= PassTTL * Second - 1
      <4>1. (d - e) * Second + (Second - 1) <= PassTTL * Second - 1
        BY <3>5, Amounts, SecondsWithin
      <4>2. QED
        BY <4>1, Amounts
    <3>7. Allowance(s + spare) <= Allowance(life) /\ Allowance(s + spare) \in Int
      <4>1. s + spare \in Int /\ s + spare <= life
        BY <2>6, <3>6, Amounts
      <4>2. QED
        BY <4>1, AllowanceGrows
    <3>8. (f[r] - f[first] + 1) * Unit \in Int
      BY <2>4, Amounts
    <3>9. QED
      BY <2>6, <3>3, <3>6, <3>7, <3>8
  <2>8. QED
    BY <2>2, <2>4, <2>5, <2>6, <2>7, Amounts, Packed
<1>2. QED
  BY <1>1, GateInvariant, CrowdInvariant, PTL

-----------------------------------------------------------------------------
(* From the line to the box office.                                        *)

\* Collecting and booking leave the queue service as it is.
LEMMA GateImplementsLoop == GateSpec => LoopSpec
<1>1. GateInit => LoopInit
  BY DEF GateInit
<1>2. [GateNext]_allVars => [LoopNext]_loopVars
  BY DEF GateNext, QueueStep, Collect, Book, allVars
<1>3. QED
  BY <1>1, <1>2, PTL DEF GateSpec, LoopSpec

\* Only claims the queue service signed are ever sold, one ticket at a time.
LEMMA GateImplementsSale == GateSpec => TS!SaleSpec
<1>1. GateInit => TS!SaleInit
  BY DEF GateInit
<1>2. GateInv /\ [GateNext]_allVars => [TS!SaleNext]_sold
  <2> SUFFICES ASSUME GateInv, [GateNext]_allVars PROVE [TS!SaleNext]_sold
    OBVIOUS
  <2>1. ASSUME NEW pass \in wallet, NEW e, Book(pass, e) PROVE TS!SaleNext
    <3>1. pass.claims \in PassClaims
      BY DEF GateInv, Collected, Credential
    <3>2. QED
      BY <2>1, <3>1 DEF Book, TS!SaleNext
  <2>2. QED
    BY <2>1 DEF GateNext, QueueStep, Collect, allVars, gateVars
<1>3. QED
  BY <1>1, <1>2, GateInvariant, PTL DEF GateSpec, TS!SaleSpec

\* The two services together, which share nothing but a signed pass, are a
\* fair line in front of a box office, whatever clocks, retries and crashes
\* lie between them.
THEOREM FairLineToBoxOffice == GateSpec => IsFairLine /\ TS!SaleSpec
BY GateImplementsLoop, GateImplementsSale, LoopIsFairLine, PTL

=============================================================================
