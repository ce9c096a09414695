----------------------------- MODULE DrainProofs -----------------------------
(***************************************************************************)
(* Drain counts time from the present and numbers from the last admission. *)
(* Its state keeps the invariant of EventQueue for any tokens, rates and   *)
(* lags: neither way of counting can be told from inside the scripts.      *)
(*                                                                         *)
(* That the line moves is a ranking: a waiter's place, and the credit that *)
(* is missing until the next token is due.  Places never grow; under one   *)
(* configuration credit is lost only when somebody leaves the line; and a  *)
(* call that finds a token due lowers every place.  That fairness runs the *)
(* ranking down is left to TLC.                                            *)
(***************************************************************************)
EXTENDS Drain, EventQueueProofs

Aged == bucket # NoBucket => bucket.last_refill_ms \in -Horizon .. 0

DrainInv == TypeOK /\ Dense /\ Aged

LEMMA ReadingsAreRecent ==
    ASSUME NEW now \in Times
    PROVE  now \in -Horizon .. 0
BY DrainAssumption

LEMMA CallOK ==
    ASSUME DrainInv, Call
    PROVE  DrainInv'
<1>1. CASE UNCHANGED queueVars
  BY <1>1, StutterOK DEF DrainInv, Aged, queueVars
<1>2. ASSUME NEW now \in Times, AdmitBatch(now) PROVE DrainInv'
  <2>1. TypeOK' /\ Dense'
    BY <1>2, AdmitBatchOK DEF DrainInv
  <2>2. bucket'.last_refill_ms = now
    BY <1>2 DEF AdmitBatch
  <2>3. QED
    BY <2>1, <2>2, ReadingsAreRecent DEF DrainInv, Aged
<1>3. QED
  BY <1>1, <1>2 DEF Call

LEMMA PassOK ==
    ASSUME DrainInv, Pass
    PROVE  DrainInv'
<1>1. /\ bucket \in Buckets /\ bucket.last_refill_ms \in -Horizon .. 0
      /\ bucket.last_refill_ms > -Horizon
      /\ bucket' = [bucket EXCEPT !.last_refill_ms = bucket.last_refill_ms - 1]
      /\ UNCHANGED <<queue, seq, admitted, config>>
  BY DEF Pass, DrainInv, TypeOK, Aged
<1>2. bucket' \in Buckets /\ bucket'.last_refill_ms = bucket.last_refill_ms - 1
  BY <1>1 DEF Buckets
<1>3. TypeOK' /\ Dense'
  BY <1>1, <1>2 DEF DrainInv, TypeOK, Dense
<1>4. Aged'
  BY <1>1, <1>2, DrainAssumption DEF Aged
<1>5. QED
  BY <1>3, <1>4 DEF DrainInv

\* Numbers counted from the last admission are as dense as before.
LEMMA RenumberOK ==
    ASSUME DrainInv, Renumber
    PROVE  DrainInv'
<1>1. /\ TypeOK /\ Dense /\ seq \in Nat /\ admitted \in Nat /\ admitted <= seq
      /\ \A t \in DOMAIN queue : queue[t] \in admitted + 1 .. seq
  BY DEF DrainInv, TypeOK, Dense
<1>2. /\ DOMAIN queue' = DOMAIN queue
      /\ \A t \in DOMAIN queue : queue'[t] = queue[t] - admitted
      /\ seq' = seq - admitted /\ admitted' = 0
      /\ queue' = [t \in DOMAIN queue |-> queue[t] - admitted]
      /\ UNCHANGED <<bucket, config>>
  BY DEF Renumber
<1>3. \A t \in DOMAIN queue' : queue'[t] \in admitted' + 1 .. seq'
  BY <1>1, <1>2
<1>4. TypeOK'
  <2>1. queue' \in [DOMAIN queue' -> Nat]
    BY <1>1, <1>2
  <2>2. QED
    BY <1>1, <1>2, <2>1 DEF TypeOK
<1>5. \A t, u \in DOMAIN queue' : queue'[t] = queue'[u] => t = u
  BY <1>1, <1>2 DEF Dense
<1>6. ASSUME NEW k \in admitted' + 1 .. seq'
      PROVE  \E t \in DOMAIN queue' : queue'[t] = k
  <2>1. k + admitted \in admitted + 1 .. seq /\ k \in Int
    BY <1>1, <1>2
  <2>2. PICK t \in DOMAIN queue : queue[t] = k + admitted
    BY <1>1, <2>1 DEF Dense
  <2>3. QED
    BY <1>1, <1>2, <2>1, <2>2
<1>7. Dense'
  BY <1>1, <1>2, <1>3, <1>5, <1>6 DEF Dense
<1>8. QED
  BY <1>2, <1>4, <1>7 DEF DrainInv, Aged

-----------------------------------------------------------------------------
(* Credit, the measure behind the liveness of the line: a call that admits *)
(* nobody keeps all of it, time adds to it, and after Horizon without a    *)
(* call it is enough.                                                      *)

LEMMA ElapsedAtLeast ==
    ASSUME NEW now \in Int, NEW last \in Int
    PROVE  /\ Elapsed(now, last) \in Nat
           /\ now - last <= Elapsed(now, last)
           /\ now < last => Elapsed(now, last) = 0
           /\ ~(now < last) => Elapsed(now, last) = now - last
BY DEF Elapsed

\* A refill credits at least the time the last reading moved.
LEMMA RefillKeepsCredit ==
    ASSUME NEW rate \in Nat, NEW now \in Int, NEW last \in Int
    PROVE  rate * now - rate * last <= Elapsed(now, last) * rate
<1>1. PICK e : e = Elapsed(now, last)
  OBVIOUS
<1>2. e \in Int /\ now - last \in Int /\ now - last <= e
  BY <1>1, ElapsedAtLeast
<1>3. rate * (now - last) <= rate * e
  BY <1>2, TimesMonotone
<1>4. QED
  BY <1>1, <1>2, <1>3

\* A reading no older than `lag' finds the credit, less lag's worth of it.
LEMMA LateReading ==
    ASSUME NEW rate \in Nat, NEW lag \in Nat, NEW now \in Int, -lag <= now, NEW last \in Int
    PROVE  rate * last + Elapsed(now, last) * rate >= -(rate * lag)
<1>1. PICK e : e = Elapsed(now, last)
  OBVIOUS
<1>2. e \in Int /\ -lag <= last + e
  <2>1. CASE now < last
    BY <1>1, <2>1 DEF Elapsed
  <2>2. CASE ~(now < last)
    BY <1>1, <2>2 DEF Elapsed
  <2>3. QED
    BY <2>1, <2>2
<1>3. rate * (-lag) <= rate * (last + e)
  BY <1>2, TimesMonotone
<1>4. QED
  BY <1>1, <1>2, <1>3

LEMMA OpenConfig ==
    ASSUME TypeOK, Running
    PROVE  /\ config \in [rate_per_min : Int, burst : Int, batch_max : Int]
           /\ config.rate_per_min \in Nat /\ config.rate_per_min > 0
           /\ config.burst >= 1 /\ config.batch_max >= 1
           /\ Unit <= config.burst * Unit
<1>1. config \in [rate_per_min : Int, burst : Int, batch_max : Int]
  BY ConfigAssumption DEF TypeOK, Running, AdmissionClosed
<1>2. config.burst >= 1 /\ config.batch_max >= 1 /\ config.rate_per_min > 0
  BY <1>1 DEF Running, AdmissionClosed
<1>3. Unit * 1 <= Unit * config.burst
  BY <1>1, <1>2, UnitAssumption, TimesMonotone
<1>4. QED
  BY <1>1, <1>2, <1>3, UnitAssumption

\* A call to a running event with a line that finds a token admits somebody.
LEMMA RichMeansBatch ==
    ASSUME TypeOK, Dense, Running, DOMAIN queue # {}, NEW now \in Times, TokensAt(now) >= Unit
    PROVE  Batch(now) \in Int /\ Batch(now) >= 1
<1>1. config.batch_max \in Int /\ config.batch_max >= 1
  BY OpenConfig
<1>2. TokensAt(now) \in Int /\ Batch(now) \in Int
  BY BatchBounds DEF Running
<1>3. ZCard \in Nat /\ ZCard # 0
  BY QueueCard, FS_EmptySet, FS_CardinalityType DEF ZCard
<1>4. PICK whole : whole = TokensAt(now) \div Unit
  OBVIOUS
<1>5. whole \in Int /\ whole >= 1
  BY <1>2, <1>4, UnitAssumption
<1>6. QED
  BY <1>1, <1>2, <1>3, <1>4, <1>5 DEF Batch, BatchSize, Smaller

\* Only a call that finds less than a token admits nobody.
LEMMA NobodyMeansPoor ==
    ASSUME TypeOK, Dense, Running, DOMAIN queue # {}, NEW now \in Times, AdmitBatch(now),
           DOMAIN queue \subseteq DOMAIN queue'
    PROVE  ~(TokensAt(now) >= Unit)
<1> SUFFICES ASSUME TokensAt(now) >= Unit PROVE FALSE
  OBVIOUS
<1>1. Batch(now) \in Int /\ Batch(now) >= 1
  BY RichMeansBatch
<1>2. ZCard \in Nat /\ ZCard # 0 /\ ZCard = seq - admitted
  BY QueueCard, FS_EmptySet, FS_CardinalityType DEF ZCard
<1>3. PICK t \in DOMAIN queue : queue[t] = admitted + 1
  <2>1. admitted + 1 \in admitted + 1 .. seq
    BY <1>2 DEF TypeOK
  <2>2. QED
    BY <2>1 DEF Dense
<1>4. t \in ZPopMin(Batch(now))
  BY <1>1, <1>3, PopMinIsPrefix DEF TypeOK
<1>5. Pop(Batch(now))
  BY <1>1 DEF AdmitBatch
<1>6. QED
  BY <1>3, <1>4, <1>5 DEF Pop

\* What a call finds: all that is owed, or a full bucket.
LEMMA FoundInBucket ==
    ASSUME TypeOK, Running, bucket # NoBucket, NEW now \in Times
    PROVE  /\ bucket.tokens \in Nat /\ bucket.last_refill_ms \in Int /\ now \in Int
           /\ \/ TokensAt(now) = config.burst * Unit
              \/ TokensAt(now) = bucket.tokens
                     + Elapsed(now, bucket.last_refill_ms) * config.rate_per_min
<1>1. bucket.tokens \in Nat /\ bucket.last_refill_ms \in Int
  BY DEF TypeOK, Buckets
<1>2. QED
  BY <1>1, TimesAssumption DEF TokensAt, OpenBucket, Refilled, Smaller

LEMMA CallKeepsCredit ==
    ASSUME TypeOK, Dense, Running, bucket # NoBucket, NEW now \in Times, AdmitBatch(now),
           DOMAIN queue # {}, DOMAIN queue \subseteq DOMAIN queue'
    PROVE  Credit' >= Credit
<1>1. TokensAt(now) \in Int /\ Batch(now) \in Int
  BY BatchBounds DEF Running
<1>2. ~(TokensAt(now) >= Unit)
  BY NobodyMeansPoor
<1>3. TokensAt(now) = bucket.tokens
          + Elapsed(now, bucket.last_refill_ms) * config.rate_per_min
  BY <1>1, <1>2, OpenConfig, FoundInBucket, UnitAssumption
<1>4. ~(Batch(now) >= 1)
  <2>1. PICK whole : whole = TokensAt(now) \div Unit
    OBVIOUS
  <2>2. whole \in Int /\ whole < 1
    BY <1>1, <1>2, <2>1, UnitAssumption
  <2>3. ZCard \in Int
    BY QueueCard DEF TypeOK
  <2>4. QED
    BY <2>1, <2>2, <2>3, OpenConfig DEF Batch, BatchSize, Smaller
<1>5. PICK k \in Nat : k = TokensAt(now) - Batch(now) * Unit
  BY BatchBounds DEF Running
<1>6. k >= TokensAt(now)
  <2>1. Unit * Batch(now) <= Unit * 0
    BY <1>1, <1>4, UnitAssumption, TimesMonotone
  <2>2. QED
    BY <1>1, <1>5, <2>1, UnitAssumption
<1>7. bucket'.tokens = k /\ bucket'.last_refill_ms = now /\ config' = config
  BY <1>5 DEF AdmitBatch
<1>8. PICK rate \in Nat, last \in Int, tokens \in Nat :
          rate = config.rate_per_min /\ last = bucket.last_refill_ms /\ tokens = bucket.tokens
  BY OpenConfig, FoundInBucket
<1>9. PICK e \in Nat : e = Elapsed(now, last)
  BY <1>8, ElapsedAtLeast, TimesAssumption
<1>10. now \in Int /\ rate * now - rate * last <= e * rate
  BY <1>8, <1>9, RefillKeepsCredit, TimesAssumption
<1>11. k >= tokens + e * rate
  BY <1>3, <1>6, <1>8, <1>9
<1>12. k - rate * now >= tokens - rate * last
  BY <1>10, <1>11
<1>13. QED
  BY <1>7, <1>8, <1>12 DEF Credit

\* When a token is due, a call finds it, however late its reading.
LEMMA DueIsFound ==
    ASSUME TypeOK, Running, Due, NEW now \in Times
    PROVE  TokensAt(now) >= Unit
<1>1. now \in Int /\ Unit \in Nat /\ MaxLag \in Nat
  BY UnitAssumption, TimesAssumption, DrainAssumption
<1>2. CASE bucket = NoBucket
  <2>1. PICK full \in Int : full = config.burst * Unit
    BY <1>1, OpenConfig
  <2>2. TokensAt(now) = Refilled(config, full, 0) /\ full >= Unit
    BY <1>1, <1>2, <2>1, OpenConfig DEF TokensAt, OpenBucket, Elapsed
  <2>3. TokensAt(now) = full
    BY <2>1, <2>2, OpenConfig DEF Refilled, Smaller
  <2>4. QED
    BY <2>2, <2>3
<1>3. CASE bucket # NoBucket
  <2>1. CASE TokensAt(now) = config.burst * Unit
    BY <2>1, OpenConfig
  <2>2. CASE TokensAt(now) = bucket.tokens
                 + Elapsed(now, bucket.last_refill_ms) * config.rate_per_min
    <3>1. PICK rate \in Nat, last \in Int, tokens \in Nat :
              rate = config.rate_per_min /\ last = bucket.last_refill_ms /\ tokens = bucket.tokens
      BY <1>3, OpenConfig, FoundInBucket
    <3>2. PICK e \in Nat : e = Elapsed(now, last)
      BY <1>1, <3>1, ElapsedAtLeast
    <3>3. tokens - rate * last >= Unit + rate * MaxLag
      BY <1>3, <3>1 DEF Due, Credit
    <3>4. -MaxLag <= now
      BY <1>1, DrainAssumption
    <3>5. rate * last + e * rate >= -(rate * MaxLag)
      BY <1>1, <3>1, <3>2, <3>4, LateReading
    <3>6. tokens + e * rate >= Unit
      BY <1>1, <3>1, <3>2, <3>3, <3>5
    <3>7. QED
      BY <2>2, <3>1, <3>2, <3>6
  <2>3. QED
    BY <1>3, <2>1, <2>2, FoundInBucket
<1>4. QED
  BY <1>2, <1>3

\* A refill as old as Horizon makes a token due, whatever is in the bucket.
LEMMA OldIsDue ==
    ASSUME TypeOK, Running, bucket # NoBucket, bucket.last_refill_ms = -Horizon
    PROVE  Due
<1>1. PICK rate \in Nat, full \in Int, tokens \in Nat :
          /\ rate = config.rate_per_min /\ full = config.burst * Unit
          /\ tokens = bucket.tokens
  BY OpenConfig, UnitAssumption DEF TypeOK, Buckets
<1>2. config \in Configs /\ rate > 0
  BY <1>1, OpenConfig DEF TypeOK, Running, AdmissionClosed
<1>3. full <= rate * (Horizon - MaxLag)
  BY <1>1, <1>2, DrainAssumption
<1>4. Unit <= full
  BY <1>1, OpenConfig
<1>5. tokens - rate * (-Horizon) >= Unit + rate * MaxLag
  BY <1>1, <1>3, <1>4, DrainAssumption, UnitAssumption
<1>6. QED
  BY <1>1, <1>5 DEF Due, Credit

-----------------------------------------------------------------------------

LEMMA DrainInvariant == DrainSpec => []DrainInv
<1>1. Init => DrainInv
  BY InitOK DEF Init, DrainInv, Aged
<1>2. DrainInv /\ [DrainNext]_queueVars => DrainInv'
  <2> SUFFICES ASSUME DrainInv, [DrainNext]_queueVars PROVE DrainInv'
    OBVIOUS
  <2>1. ASSUME NEW t \in Tokens, Join(t) PROVE DrainInv'
    BY <2>1, JoinOK DEF Join, DrainInv, Aged
  <2>2. CASE ResetState
    BY <2>2, ResetStateOK DEF ResetState, DrainInv, Aged
  <2>3. ASSUME NEW c \in Configs, PutConfig(c) PROVE DrainInv'
    BY <2>3, PutConfigOK DEF PutConfig, DrainInv, Aged
  <2>4. CASE UNCHANGED queueVars
    BY <2>4, StutterOK DEF queueVars, DrainInv, Aged
  <2>5. QED
    BY <2>1, <2>2, <2>3, <2>4, CallOK, PassOK, RenumberOK DEF DrainNext
<1>3. QED
  BY <1>1, <1>2, PTL DEF DrainSpec

\* An event that is never over keeps its types and its dense numbers.
THEOREM DrainTypes == DrainSpec => []DrainTypeOK
<1>1. DrainInv => DrainTypeOK
  BY DEF DrainInv, DrainTypeOK, Aged
<1>2. QED
  BY <1>1, DrainInvariant, PTL

\* While nobody leaves the line of a running event, no step forfeits credit:
\* a call keeps what it cannot spend, and waiting only adds.
THEOREM NothingIsForfeited == DrainSpec => CreditIsKept
<1>1. DrainInv /\ [DrainNext]_queueVars =>
          (Running /\ config' = config /\ bucket # NoBucket
             /\ DOMAIN queue # {} /\ DOMAIN queue \subseteq DOMAIN queue'
           => Credit' >= Credit)
  <2> SUFFICES ASSUME DrainInv, [DrainNext]_queueVars, Running, config' = config,
                      bucket # NoBucket,
                      DOMAIN queue # {}, DOMAIN queue \subseteq DOMAIN queue'
               PROVE  Credit' >= Credit
    OBVIOUS
  <2> USE DEF DrainInv
  <2>1. Credit \in Int
    BY OpenConfig, FoundInBucket DEF Credit, TypeOK, Buckets
  <2>2. CASE bucket' = bucket
    BY <2>1, <2>2 DEF Credit
  <2>3. CASE Pass
    <3>1. PICK rate \in Nat, last \in Int, tokens \in Nat :
              rate = config.rate_per_min /\ last = bucket.last_refill_ms /\ tokens = bucket.tokens
      BY OpenConfig DEF TypeOK, Buckets
    <3>2. bucket'.last_refill_ms = last - 1 /\ bucket'.tokens = tokens
      BY <2>3, <3>1 DEF Pass, TypeOK, Buckets
    <3>3. tokens - rate * (last - 1) >= tokens - rate * last
      BY <3>1
    <3>4. QED
      BY <3>1, <3>2, <3>3 DEF Credit
  <2>4. CASE Call
    <3>1. PICK now \in Times : AdmitBatch(now)
      BY <2>4 DEF Call, Running
    <3>2. QED
      BY <3>1, CallKeepsCredit
  <2>5. CASE ResetState
    BY <2>5 DEF ResetState
  <2>6. QED
    BY <2>2, <2>3, <2>4, <2>5 DEF DrainNext, Join, Renumber, PutConfig, queueVars
<1>2. QED
  BY <1>1, DrainInvariant, PTL DEF DrainSpec, CreditIsKept

\* A step of an event's commands changes ranks as the counter moves.
LEMMA RankMoves ==
    ASSUME TypeOK, Dense, TypeOK', Dense', [Next]_queueVars,
           NEW t \in DOMAIN queue \cap DOMAIN queue'
    PROVE  /\ ZRank(t) \in Int /\ ZRank(t)' \in Int
           /\ ZRank(t)' = ZRank(t) - (admitted' - admitted)
<1>1. ZRank(t) = queue[t] - admitted - 1
  BY RankIsArithmetic
<1>2. ZRank(t)' = queue'[t] - admitted' - 1
  BY RanksNext
<1>3. queue'[t] = queue[t]
  BY NumbersKept
<1>4. queue[t] \in Int /\ admitted \in Int /\ admitted' \in Int
  BY DEF TypeOK
<1>5. QED
  BY <1>1, <1>2, <1>3, <1>4

\* Nobody's place grows, and a call that finds a token due brings everybody
\* who stays forward.
THEOREM LineMovesUp == DrainSpec => PlacesMoveUp
<1>1. DrainInv /\ DrainInv' /\ [DrainNext]_queueVars =>
          \A t \in DOMAIN queue \cap DOMAIN queue' :
              /\ ZRank(t)' <= ZRank(t)
              /\ Running /\ Due /\ Call => ZRank(t)' < ZRank(t)
  <2> SUFFICES ASSUME DrainInv, DrainInv', [DrainNext]_queueVars,
                      NEW t \in DOMAIN queue \cap DOMAIN queue'
               PROVE  /\ ZRank(t)' <= ZRank(t)
                      /\ Running /\ Due /\ Call => ZRank(t)' < ZRank(t)
    OBVIOUS
  <2>1. TypeOK /\ Dense /\ TypeOK' /\ Dense' /\ admitted \in Int
    BY DEF DrainInv, TypeOK
  <2>2. ASSUME [Next]_queueVars, admitted' \in Int, admitted' >= admitted
        PROVE  ZRank(t)' <= ZRank(t)
    BY <2>1, <2>2, RankMoves
  <2>3. ASSUME NEW now \in Times, AdmitBatch(now)
        PROVE  [Next]_queueVars /\ admitted' \in Int /\ admitted' >= admitted
    <3>1. [Next]_queueVars
      BY <2>3 DEF Next
    <3>2. PICK n \in Int : n = Batch(now)
      BY <2>1, <2>3, BatchBounds DEF AdmitBatch
    <3>3. admitted' = admitted \/ (~(n <= 0) /\ admitted' = admitted + n)
      BY <2>3, <3>2 DEF AdmitBatch, Pop
    <3>4. admitted' \in Int /\ admitted' >= admitted
      BY <2>1, <3>2, <3>3
    <3>5. QED
      BY <3>1, <3>4
  <2>4. ASSUME Running, Due, Call PROVE ZRank(t)' < ZRank(t)
    <3>1. PICK now \in Times : AdmitBatch(now)
      BY <2>4 DEF Call, Running
    <3>2. Batch(now) \in Int /\ Batch(now) >= 1
      BY <2>1, <2>4, DueIsFound, RichMeansBatch
    <3>3. admitted' = admitted + Batch(now)
      BY <3>1, <3>2 DEF AdmitBatch, Pop
    <3>4. QED
      BY <2>1, <2>3, <3>1, <3>2, <3>3, RankMoves
  <2>5. CASE Pass
    <3>1. UNCHANGED <<queue, admitted>>
      BY <2>5 DEF Pass
    <3>2. ZRank(t)' = ZRank(t) /\ ZRank(t) \in Int
      BY <2>1, <3>1, RankIsArithmetic, RanksNext DEF TypeOK
    <3>3. QED
      BY <2>4, <3>2
  <2>6. CASE Renumber
    <3>1. queue'[t] = queue[t] - admitted /\ admitted' = 0 /\ queue[t] \in Int
      BY <2>1, <2>6 DEF Renumber, TypeOK
    <3>2. ZRank(t) = queue[t] - admitted - 1 /\ ZRank(t)' = queue'[t] - admitted' - 1
      BY <2>1, RankIsArithmetic, RanksNext
    <3>3. ZRank(t)' = ZRank(t) /\ ZRank(t) \in Int
      BY <2>1, <3>1, <3>2
    <3>4. QED
      BY <2>4, <3>3
  <2>7. ASSUME NEW u \in Tokens, Join(u) PROVE ZRank(t)' <= ZRank(t)
    BY <2>1, <2>2, <2>7 DEF Join, Next
  <2>8. ASSUME NEW c \in Configs, PutConfig(c) PROVE ZRank(t)' <= ZRank(t)
    BY <2>1, <2>2, <2>8 DEF PutConfig, Next
  <2>9. CASE ResetState
    BY <2>9 DEF ResetState
  <2>10. ASSUME UNCHANGED queueVars PROVE ZRank(t)' <= ZRank(t)
    BY <2>1, <2>2, <2>10 DEF queueVars
  <2>11. ASSUME Call PROVE ZRank(t)' <= ZRank(t)
    <3>1. CASE UNCHANGED queueVars
      BY <2>10, <3>1
    <3>2. CASE \E now \in Times : AdmitBatch(now)
      BY <2>2, <2>3, <3>2
    <3>3. QED
      BY <2>11, <3>1, <3>2 DEF Call
  <2>12. QED
    BY <2>4, <2>5, <2>6, <2>7, <2>8, <2>9, <2>10, <2>11 DEF DrainNext
<1>2. QED
  BY <1>1, DrainInvariant, PTL DEF DrainSpec, PlacesMoveUp

\* Waiting long enough makes a token due: a running event whose last refill
\* is Horizon old owes one, at any rate and with an empty bucket.
THEOREM WaitingBecomesDue ==
    DrainSpec => [](Running /\ bucket # NoBucket /\ bucket.last_refill_ms = -Horizon => Due)
<1>1. DrainInv => (Running /\ bucket # NoBucket /\ bucket.last_refill_ms = -Horizon => Due)
  BY OldIsDue DEF DrainInv
<1>2. QED
  BY <1>1, DrainInvariant, PTL

=============================================================================
