-------------------------- MODULE EventQueueProofs --------------------------
(***************************************************************************)
(* Proofs about EventQueue, for any tokens, configurations and clock       *)
(* readings.  The invariant is TypeOK /\ Dense: the numbers in the queue   *)
(* are admitted + 1 .. seq.  Everything else follows from one consequence  *)
(* of it, that ZCARD is seq - admitted and that ZRANK is the token's       *)
(* number minus admitted + 1 (lemmas QueueCard and RankIsArithmetic).      *)
(***************************************************************************)
EXTENDS EventQueue, Sequences, FiniteSetTheorems, FunctionTheorems, TLAPS

-----------------------------------------------------------------------------
(* Arithmetic.                                                             *)

LEMMA TimesMonotone ==
    ASSUME NEW a \in Nat, NEW b \in Int, NEW c \in Int, b <= c
    PROVE  a * b <= a * c
OBVIOUS

LEMMA WholeTokens ==
    ASSUME NEW x \in Int, NEW u \in Nat \ {0}
    PROVE  (x \div u) \in Int /\ (x \div u) * u <= x /\ (0 <= x => 0 <= x \div u)
OBVIOUS

-----------------------------------------------------------------------------
(* Counting.                                                               *)

\* A set numbered by an interval, one element to a number, has as many
\* elements as the interval.
LEMMA Numbered ==
    ASSUME NEW S, NEW a \in Int, NEW b \in Int, a <= b + 1,
           NEW f \in [S -> a .. b],
           \A x, y \in S : f[x] = f[y] => x = y,
           \A k \in a .. b : \E x \in S : f[x] = k
    PROVE  IsFiniteSet(S) /\ Cardinality(S) = b - a + 1
<1>1. f \in Bijection(S, a .. b)
  BY Fun_IsBij
<1>2. ExistsBijection(a .. b, S)
  BY <1>1, Fun_BijInverse DEF ExistsBijection
<1>3. IsFiniteSet(a .. b) /\ Cardinality(a .. b) = b - a + 1
  BY FS_Interval
<1>4. QED
  BY <1>2, <1>3, FS_Bijection

\* ZCARD is the difference of the two counters.
LEMMA QueueCard ==
    ASSUME TypeOK, Dense
    PROVE  IsFiniteSet(DOMAIN queue) /\ ZCard = seq - admitted
<1>1. queue \in [DOMAIN queue -> admitted + 1 .. seq]
  BY DEF TypeOK, Dense
<1>2. \A x, y \in DOMAIN queue : queue[x] = queue[y] => x = y
  BY DEF Dense
<1>3. \A k \in admitted + 1 .. seq : \E x \in DOMAIN queue : queue[x] = k
  BY DEF Dense
<1>4. admitted + 1 \in Int /\ seq \in Int /\ admitted + 1 <= seq + 1
  BY DEF TypeOK, Dense
<1>5. IsFiniteSet(DOMAIN queue) /\ Cardinality(DOMAIN queue) = seq - (admitted + 1) + 1
  BY <1>1, <1>2, <1>3, <1>4, Numbered
<1>6. QED
  BY <1>5 DEF ZCard, TypeOK

\* ZRANK is a token's number minus the next number to be admitted.
LEMMA RankIsArithmetic ==
    ASSUME TypeOK, Dense, NEW t \in DOMAIN queue
    PROVE  ZRank(t) = queue[t] - admitted - 1
<1>1. PICK S : S = Ahead(t)
  OBVIOUS
<1>2. PICK f : f = [u \in S |-> queue[u]]
  OBVIOUS
<1>3. PICK last : last = queue[t] - 1
  OBVIOUS
<1>4. queue[t] \in admitted + 1 .. seq
  BY DEF Dense
<1>5. admitted + 1 \in Int /\ last \in Int /\ admitted + 1 <= last + 1
  BY <1>3, <1>4 DEF TypeOK
<1>6. f \in [S -> admitted + 1 .. last]
  BY <1>1, <1>2, <1>3, <1>4 DEF Ahead, Dense, TypeOK
<1>7. \A x, y \in S : f[x] = f[y] => x = y
  BY <1>1, <1>2 DEF Ahead, Dense
<1>8. \A k \in admitted + 1 .. last : \E x \in S : f[x] = k
  <2> TAKE k \in admitted + 1 .. last
  <2>1. k \in admitted + 1 .. seq /\ k < queue[t]
    BY <1>3, <1>4 DEF TypeOK
  <2>2. PICK x \in DOMAIN queue : queue[x] = k
    BY <2>1 DEF Dense
  <2>3. QED
    BY <1>1, <1>2, <2>1, <2>2 DEF Ahead
<1>9. IsFiniteSet(S) /\ Cardinality(S) = last - (admitted + 1) + 1
  BY <1>5, <1>6, <1>7, <1>8, Numbered
<1>10. QED
  BY <1>1, <1>3, <1>4, <1>9 DEF ZRank, TypeOK

\* ZPOPMIN takes the n smallest numbers.
LEMMA PopMinIsPrefix ==
    ASSUME TypeOK, Dense, NEW n \in Int
    PROVE  ZPopMin(n) = {t \in DOMAIN queue : queue[t] <= admitted + n}
<1>1. \A t \in DOMAIN queue : ZRank(t) < n <=> queue[t] <= admitted + n
  <2> TAKE t \in DOMAIN queue
  <2>1. queue[t] \in Int /\ admitted \in Int
    BY DEF TypeOK
  <2>2. QED
    BY <2>1, RankIsArithmetic
<1>2. QED
  BY <1>1 DEF ZPopMin

\* A batch is an integer, no larger than the queue and no dearer than what
\* is in the bucket.
LEMMA BatchBounds ==
    ASSUME TypeOK, Dense, ~AdmissionClosed, NEW now \in Times
    PROVE  /\ TokensAt(now) \in Int
           /\ Batch(now) \in Int
           /\ Batch(now) <= seq - admitted
           /\ TokensAt(now) - Batch(now) * Unit \in Nat
<1>1. config \in [rate_per_min : Int, burst : Int, batch_max : Int]
  BY ConfigAssumption DEF TypeOK, AdmissionClosed
<1>2. now \in Int /\ Unit \in Nat \ {0}
  BY TimesAssumption, UnitAssumption
<1>3. OpenBucket(now) \in [tokens : Int, last_refill_ms : Int]
  BY <1>1, <1>2 DEF OpenBucket, Buckets, TypeOK
<1>4. TokensAt(now) \in Int
  BY <1>1, <1>2, <1>3 DEF TokensAt, Refilled, Elapsed, Smaller
<1>5. PICK whole : whole = TokensAt(now) \div Unit
  OBVIOUS
<1>6. whole \in Int /\ whole * Unit <= TokensAt(now)
  BY <1>2, <1>4, <1>5, WholeTokens
<1>7. ZCard = seq - admitted /\ seq \in Int /\ admitted \in Int
  BY QueueCard DEF TypeOK
<1>8. Batch(now) \in Int /\ Batch(now) <= seq - admitted /\ Batch(now) <= whole
  BY <1>1, <1>5, <1>6, <1>7 DEF Batch, BatchSize, Smaller
<1>9. Unit * Batch(now) <= Unit * whole
  BY <1>2, <1>6, <1>8, TimesMonotone
<1>10. TokensAt(now) - Batch(now) * Unit \in Nat
  BY <1>2, <1>4, <1>6, <1>8, <1>9
<1>11. QED
  BY <1>4, <1>8, <1>10

-----------------------------------------------------------------------------
(* The inductive invariant, action by action.                              *)

LEMMA InitOK == Init => TypeOK /\ Dense
<1> SUFFICES ASSUME Init PROVE TypeOK /\ Dense
  OBVIOUS
<1>1. queue = [t \in {} |-> 0] /\ DOMAIN queue = {} /\ seq = 0 /\ admitted = 0
  BY DEF Init
<1>2. TypeOK
  BY <1>1 DEF Init, TypeOK
<1>3. Dense
  BY <1>1 DEF Dense
<1>4. QED
  BY <1>2, <1>3

LEMMA EnqueueOK ==
    ASSUME TypeOK, Dense, NEW t \in Tokens, ~Queued(t), Enqueue(t),
           UNCHANGED <<admitted, bucket, config>>
    PROVE  TypeOK' /\ Dense'
<1>1. /\ DOMAIN queue' = DOMAIN queue \cup {t}
      /\ queue'[t] = seq + 1
      /\ \A u \in DOMAIN queue : u # t /\ queue'[u] = queue[u]
      /\ seq' = seq + 1 /\ admitted' = admitted
  BY DEF Enqueue, Queued
<1>2. TypeOK'
  <2>1. queue' \in [DOMAIN queue' -> Nat]
    BY DEF Enqueue, TypeOK
  <2>2. QED
    BY <1>1, <2>1 DEF TypeOK
<1>3. \A u \in DOMAIN queue' : queue'[u] \in admitted' + 1 .. seq'
  BY <1>1 DEF TypeOK, Dense
<1>4. \A u, v \in DOMAIN queue' : queue'[u] = queue'[v] => u = v
  BY <1>1 DEF TypeOK, Dense
<1>5. \A k \in admitted' + 1 .. seq' : \E u \in DOMAIN queue' : queue'[u] = k
  <2> TAKE k \in admitted' + 1 .. seq'
  <2>1. CASE k = seq + 1
    BY <1>1, <2>1
  <2>2. CASE k # seq + 1
    <3>1. k \in admitted + 1 .. seq
      BY <1>1, <2>2 DEF TypeOK
    <3>2. PICK u \in DOMAIN queue : queue[u] = k
      BY <3>1 DEF Dense
    <3>3. QED
      BY <1>1, <3>2
  <2>3. QED
    BY <2>1, <2>2
<1>6. admitted' <= seq'
  BY <1>1 DEF TypeOK, Dense
<1>7. QED
  BY <1>2, <1>3, <1>4, <1>5, <1>6 DEF Dense

LEMMA JoinOK ==
    ASSUME TypeOK, Dense, NEW t \in Tokens, Join(t)
    PROVE  TypeOK' /\ Dense'
<1>1. CASE Queued(t)
  BY <1>1 DEF Join, TypeOK, Dense
<1>2. CASE ~Queued(t)
  BY <1>2, EnqueueOK DEF Join
<1>3. QED
  BY <1>1, <1>2

\* The n smallest numbers leave and the counter passes them.
LEMMA PopOK ==
    ASSUME TypeOK, Dense, NEW n \in Int, 0 < n, n <= seq - admitted, Pop(n),
           UNCHANGED <<seq, config>>, bucket' \in Buckets \cup {NoBucket}
    PROVE  TypeOK' /\ Dense'
<1>1. /\ DOMAIN queue' = {t \in DOMAIN queue : queue[t] > admitted + n}
      /\ \A t \in DOMAIN queue' : queue'[t] = queue[t]
      /\ admitted' = admitted + n /\ seq' = seq
  <2>1. \A t \in DOMAIN queue : ~(queue[t] <= admitted + n) <=> queue[t] > admitted + n
    BY DEF TypeOK
  <2>2. QED
    BY <2>1, PopMinIsPrefix DEF Pop
<1>2. TypeOK'
  <2>1. queue' \in [DOMAIN queue' -> Nat]
    BY DEF Pop, TypeOK
  <2>2. QED
    BY <1>1, <2>1 DEF TypeOK
<1>3. \A t \in DOMAIN queue' : queue'[t] \in admitted' + 1 .. seq'
  BY <1>1 DEF TypeOK, Dense
<1>4. \A t, u \in DOMAIN queue' : queue'[t] = queue'[u] => t = u
  BY <1>1 DEF Dense
<1>5. \A k \in admitted' + 1 .. seq' : \E t \in DOMAIN queue' : queue'[t] = k
  <2> TAKE k \in admitted' + 1 .. seq'
  <2>1. k \in admitted + 1 .. seq /\ k > admitted + n
    BY <1>1 DEF TypeOK
  <2>2. PICK t \in DOMAIN queue : queue[t] = k
    BY <2>1 DEF Dense
  <2>3. QED
    BY <1>1, <2>1, <2>2
<1>6. admitted' <= seq'
  BY <1>1 DEF TypeOK
<1>7. QED
  BY <1>2, <1>3, <1>4, <1>5, <1>6 DEF Dense

LEMMA AdmitBatchOK ==
    ASSUME TypeOK, Dense, NEW now \in Times, AdmitBatch(now)
    PROVE  TypeOK' /\ Dense'
<1>1. ~AdmissionClosed
  BY DEF AdmitBatch
<1>2. /\ Batch(now) \in Int /\ Batch(now) <= seq - admitted
      /\ TokensAt(now) - Batch(now) * Unit \in Nat
  BY <1>1, BatchBounds
<1>3. bucket' \in Buckets
  BY <1>2, TimesAssumption DEF AdmitBatch, Buckets
<1>4. CASE Batch(now) <= 0
  BY <1>3, <1>4 DEF AdmitBatch, TypeOK, Dense
<1>5. CASE ~(Batch(now) <= 0)
  <2>1. Pop(Batch(now)) /\ UNCHANGED <<seq, config>>
    BY <1>5 DEF AdmitBatch
  <2>2. 0 < Batch(now)
    BY <1>2, <1>5
  <2>3. QED
    BY <1>2, <1>3, <2>1, <2>2, PopOK
<1>6. QED
  BY <1>4, <1>5

LEMMA ResetStateOK ==
    ASSUME TypeOK, ResetState
    PROVE  TypeOK' /\ Dense'
<1>1. queue' = [t \in {} |-> 0] /\ DOMAIN queue' = {} /\ seq' = 0 /\ admitted' = 0
  BY DEF ResetState
<1>2. TypeOK'
  BY <1>1 DEF ResetState, TypeOK
<1>3. Dense'
  BY <1>1 DEF Dense
<1>4. QED
  BY <1>2, <1>3

LEMMA PutConfigOK ==
    ASSUME TypeOK, Dense, NEW c \in Configs, PutConfig(c)
    PROVE  TypeOK' /\ Dense'
BY DEF PutConfig, TypeOK, Dense

LEMMA StutterOK ==
    ASSUME TypeOK, Dense, UNCHANGED queueVars
    PROVE  TypeOK' /\ Dense'
BY DEF queueVars, TypeOK, Dense

\* The state of an event has its types, and the numbers in its queue are
\* exactly those the two counters delimit, under any interleaving of joins,
\* admissions, resets and reconfigurations.
THEOREM QueueInvariant == Spec => [](TypeOK /\ Dense)
<1>1. Init => TypeOK /\ Dense
  BY InitOK
<1>2. TypeOK /\ Dense /\ [Next]_queueVars => TypeOK' /\ Dense'
  <2> SUFFICES ASSUME TypeOK, Dense, [Next]_queueVars
               PROVE  TypeOK' /\ Dense'
    OBVIOUS
  <2>1. ASSUME NEW t \in Tokens, Join(t) PROVE TypeOK' /\ Dense'
    BY <2>1, JoinOK
  <2>2. ASSUME NEW now \in Times, AdmitBatch(now) PROVE TypeOK' /\ Dense'
    BY <2>2, AdmitBatchOK
  <2>3. CASE ResetState
    BY <2>3, ResetStateOK
  <2>4. ASSUME NEW c \in Configs, PutConfig(c) PROVE TypeOK' /\ Dense'
    BY <2>4, PutConfigOK
  <2>5. CASE UNCHANGED queueVars
    BY <2>5, StutterOK
  <2>6. QED
    BY <2>1, <2>2, <2>3, <2>4, <2>5 DEF Next
<1>3. QED
  BY <1>1, <1>2, PTL DEF Spec

\* The types of an event's state; no batch is larger than the bucket can pay.
THEOREM QueueTypes == Spec => []TypeOK
<1>1. QED
  BY QueueInvariant, PTL

-----------------------------------------------------------------------------
(* What the invariant gives.                                               *)

\* The join that subtracts two counters and the poll that counts the queue
\* show a waiter the same place.
THEOREM PlacesAlwaysAgree == Spec => []PlacesAgree
<1>1. TypeOK /\ Dense => PlacesAgree
  <2> SUFFICES ASSUME TypeOK, Dense, NEW t \in DOMAIN queue
               PROVE  PlaceFromJoin(t) = PlaceFromPoll(t)
    BY DEF PlacesAgree
  <2>1. queue[t] \in admitted + 1 .. seq
    BY DEF Dense
  <2>2. ZRank(t) = queue[t] - admitted - 1
    BY RankIsArithmetic
  <2>3. QED
    BY <2>1, <2>2 DEF PlaceFromJoin, PlaceFromPoll, TypeOK
<1>2. QED
  BY <1>1, QueueInvariant, PTL

-----------------------------------------------------------------------------
\* RankIsArithmetic in the form that can be primed.
LEMMA Ranks ==
    TypeOK /\ Dense => \A t \in DOMAIN queue : ZRank(t) = queue[t] - admitted - 1
BY RankIsArithmetic

LEMMA RanksNext ==
    TypeOK' /\ Dense' => (\A t \in DOMAIN queue : ZRank(t) = queue[t] - admitted - 1)'
BY Ranks, PTL

\* What every step does to the numbers: those who stay keep theirs, and those
\* who leave had one the counter has passed, unless the queue was cleared.
LEMMA NumbersKept ==
    ASSUME TypeOK, Dense, [Next]_queueVars
    PROVE  /\ \A t \in DOMAIN queue \cap DOMAIN queue' : queue'[t] = queue[t]
           /\ \/ DOMAIN queue' = {}
              \/ \A t \in DOMAIN queue \ DOMAIN queue' : queue[t] <= admitted'
<1> DEFINE Kept ==
             /\ \A t \in DOMAIN queue \cap DOMAIN queue' : queue'[t] = queue[t]
             /\ \/ DOMAIN queue' = {}
                \/ \A t \in DOMAIN queue \ DOMAIN queue' : queue[t] <= admitted'
<1>1. ASSUME UNCHANGED queue PROVE Kept
  BY <1>1
<1>2. ASSUME NEW t \in Tokens, Join(t) PROVE Kept
  <2>1. CASE Queued(t)
    BY <1>1, <1>2, <2>1 DEF Join
  <2>2. CASE ~Queued(t)
    BY <1>2, <2>2 DEF Join, Enqueue, Queued
  <2>3. QED
    BY <2>1, <2>2
<1>3. ASSUME NEW now \in Times, AdmitBatch(now) PROVE Kept
  <2>1. CASE Batch(now) <= 0
    BY <1>1, <1>3, <2>1 DEF AdmitBatch
  <2>2. CASE ~(Batch(now) <= 0)
    <3>1. Batch(now) \in Int
      BY <1>3, BatchBounds DEF AdmitBatch
    <3>2. Pop(Batch(now))
      BY <1>3, <2>2 DEF AdmitBatch
    <3>3. QED
      BY <3>1, <3>2, PopMinIsPrefix DEF Pop
  <2>3. QED
    BY <2>1, <2>2
<1>4. CASE ResetState
  BY <1>4 DEF ResetState
<1>5. ASSUME NEW c \in Configs, PutConfig(c) PROVE Kept
  BY <1>1, <1>5 DEF PutConfig
<1>6. CASE UNCHANGED queueVars
  BY <1>1, <1>6 DEF queueVars
<1>7. QED
  BY <1>2, <1>3, <1>4, <1>5, <1>6 DEF Next

\* Nobody is admitted before somebody ahead of him.
THEOREM ServedInOrder == Spec => FirstComeFirstServed
<1>1. TypeOK /\ Dense /\ TypeOK' /\ Dense' /\ [Next]_queueVars
        => [\A t \in DOMAIN queue \ DOMAIN queue' : Ahead(t) \cap DOMAIN queue' = {}]_queueVars
  <2> SUFFICES ASSUME TypeOK, Dense, TypeOK', Dense', [Next]_queueVars,
                      NEW t \in DOMAIN queue \ DOMAIN queue',
                      NEW u \in Ahead(t), u \in DOMAIN queue'
               PROVE  FALSE
    OBVIOUS
  <2>1. u \in DOMAIN queue /\ queue[u] < queue[t]
    BY DEF Ahead
  <2>2. queue'[u] = queue[u] /\ queue[t] <= admitted'
    BY <2>1, NumbersKept
  <2>3. queue'[u] \in admitted' + 1 .. seq'
    BY DEF Dense
  <2>4. queue[t] \in Int /\ queue[u] \in Int /\ admitted' \in Int
    BY <2>1 DEF TypeOK
  <2>5. QED
    BY <2>1, <2>2, <2>3, <2>4
<1>2. QED
  BY <1>1, QueueInvariant, PTL DEF Spec, FirstComeFirstServed

\* A waiter's place falls by exactly the number just admitted, in every step.
THEOREM PlaceMovesByAdmissions == Spec => PlaceFollowsAdmissions
<1>1. TypeOK /\ Dense /\ TypeOK' /\ Dense' /\ [Next]_queueVars
        => [\A t \in DOMAIN queue \cap DOMAIN queue' :
              ZRank(t)' = ZRank(t) - (admitted' - admitted)]_queueVars
  <2> SUFFICES ASSUME TypeOK, Dense, TypeOK', Dense', [Next]_queueVars,
                      NEW t \in DOMAIN queue \cap DOMAIN queue'
               PROVE  ZRank(t)' = ZRank(t) - (admitted' - admitted)
    OBVIOUS
  <2>1. ZRank(t) = queue[t] - admitted - 1
    BY RankIsArithmetic
  <2>2. ZRank(t)' = queue'[t] - admitted' - 1
    BY RanksNext
  <2>3. queue'[t] = queue[t]
    BY NumbersKept
  <2>4. queue[t] \in Int /\ admitted \in Int /\ admitted' \in Int
    BY DEF TypeOK
  <2>5. QED
    BY <2>1, <2>2, <2>3, <2>4
<1>2. QED
  BY <1>1, QueueInvariant, PTL DEF Spec, PlaceFollowsAdmissions

-----------------------------------------------------------------------------
(* The Redis state implements the fair line.                               *)

\* Line is a sequence of length ZCARD whose i-th entry holds number
\* admitted + i.
LEMMA LineIsSeq ==
    ASSUME TypeOK, Dense
    PROVE  /\ Line \in Seq(SUBSET Tokens)
           /\ Len(Line) = seq - admitted
           /\ seq - admitted \in Nat
           /\ \A i \in 1 .. seq - admitted :
                 Line[i] = {t \in DOMAIN queue : queue[t] = admitted + i}
<1>1. seq - admitted \in Nat
  BY DEF TypeOK, Dense
<1>2. \A i \in 1 .. seq - admitted : {t \in DOMAIN queue : queue[t] = admitted + i} \in SUBSET Tokens
  BY DEF TypeOK
<1>3. QED
  BY <1>1, <1>2 DEF Line

LEMMA LineIsSeqNext ==
    ASSUME TypeOK', Dense'
    PROVE  /\ Line' \in Seq(SUBSET Tokens)
           /\ Len(Line') = seq' - admitted'
           /\ seq' - admitted' \in Nat
           /\ \A i \in 1 .. seq' - admitted' :
                 Line'[i] = {t \in DOMAIN queue' : queue'[t] = admitted' + i}
<1>1. seq' - admitted' \in Nat
  BY DEF TypeOK, Dense
<1>2. \A i \in 1 .. seq' - admitted' :
        {t \in DOMAIN queue' : queue'[t] = admitted' + i} \in SUBSET Tokens
  BY DEF TypeOK
<1>3. QED
  BY <1>1, <1>2 DEF Line

\* Two sequences of the same length that agree everywhere are equal.
LEMMA SeqEqual ==
    ASSUME NEW S, NEW r \in Seq(S), NEW s \in Seq(S), Len(r) = Len(s),
           \A i \in 1 .. Len(r) : r[i] = s[i]
    PROVE  r = s
OBVIOUS

LEMMA EnqueueIsJoin ==
    ASSUME TypeOK, Dense, TypeOK', Dense',
           NEW t \in Tokens, ~Queued(t), Enqueue(t), UNCHANGED admitted
    PROVE  FL!Join({t})
<1>1. /\ DOMAIN queue' = DOMAIN queue \cup {t} /\ t \notin DOMAIN queue
      /\ queue'[t] = seq + 1
      /\ \A u \in DOMAIN queue : queue'[u] = queue[u]
      /\ seq' = seq + 1 /\ admitted' = admitted
  BY DEF Enqueue, Queued
<1>2. ~FL!InLine({t})
  BY <1>1, LineIsSeq DEF FL!InLine
<1>3. Append(Line, {t}) \in Seq(SUBSET Tokens) /\ Len(Append(Line, {t})) = Len(Line')
  BY <1>1, LineIsSeq, LineIsSeqNext DEF TypeOK
<1>4. \A i \in 1 .. Len(Line') : Line'[i] = Append(Line, {t})[i]
  <2> TAKE i \in 1 .. Len(Line')
  <2>1. i \in 1 .. seq' - admitted' /\ Line'[i] = {u \in DOMAIN queue' : queue'[u] = admitted' + i}
    BY LineIsSeqNext
  <2>2. CASE i = seq - admitted + 1
    <3>1. \A u \in DOMAIN queue' : queue'[u] = admitted' + i <=> u = t
      BY <1>1, <2>2 DEF TypeOK, Dense
    <3>2. Line'[i] = {t}
      BY <1>1, <2>1, <3>1
    <3>3. Append(Line, {t})[i] = {t}
      BY <2>2, LineIsSeq
    <3>4. QED
      BY <3>2, <3>3
  <2>3. CASE i # seq - admitted + 1
    <3>1. i \in 1 .. seq - admitted
      BY <1>1, <2>1, <2>3 DEF TypeOK
    <3>2. Append(Line, {t})[i] = {u \in DOMAIN queue : queue[u] = admitted + i}
      BY <3>1, LineIsSeq
    <3>3. queue'[t] # admitted' + i
      BY <1>1, <2>3 DEF TypeOK
    <3>4. QED
      BY <1>1, <2>1, <3>2, <3>3
  <2>4. QED
    BY <2>2, <2>3
<1>5. Line' = Append(Line, {t})
  BY <1>3, <1>4, LineIsSeqNext, SeqEqual
<1>6. QED
  BY <1>1, <1>2, <1>5 DEF FL!Join

LEMMA PopIsCall ==
    ASSUME TypeOK, Dense, TypeOK', Dense',
           NEW n \in Int, 0 < n, n <= seq - admitted, Pop(n), UNCHANGED seq
    PROVE  FL!Call(n)
<1>1. /\ DOMAIN queue' = {t \in DOMAIN queue : ~(queue[t] <= admitted + n)}
      /\ \A t \in DOMAIN queue' : queue'[t] = queue[t]
      /\ admitted' = admitted + n /\ seq' = seq
  BY PopMinIsPrefix DEF Pop
<1>2. PICK s : s = SubSeq(Line, n + 1, Len(Line))
  OBVIOUS
<1>3. /\ s \in Seq(SUBSET Tokens) /\ Len(s) = seq - admitted - n
      /\ \A i \in 1 .. seq - admitted - n : s[i] = Line[i + n]
  BY <1>2, LineIsSeq
<1>4. \A i \in 1 .. Len(Line') : Line'[i] = s[i]
  <2> TAKE i \in 1 .. Len(Line')
  <2>1. i \in 1 .. seq' - admitted' /\ Line'[i] = {u \in DOMAIN queue' : queue'[u] = admitted' + i}
    BY LineIsSeqNext
  <2>2. i \in 1 .. seq - admitted - n /\ i + n \in 1 .. seq - admitted
    BY <1>1, <2>1 DEF TypeOK
  <2>3. s[i] = {u \in DOMAIN queue : queue[u] = admitted + (i + n)}
    BY <1>3, <2>2, LineIsSeq
  <2>4. \A u \in DOMAIN queue : queue[u] = admitted + (i + n) => ~(queue[u] <= admitted + n)
    BY <2>1 DEF TypeOK
  <2>5. admitted' + i = admitted + (i + n)
    BY <1>1, <2>1 DEF TypeOK
  <2>6. QED
    BY <1>1, <2>1, <2>3, <2>4, <2>5
<1>5. Len(s) = Len(Line')
  BY <1>1, <1>3, LineIsSeqNext DEF TypeOK
<1>6. Line' = s
  BY <1>3, <1>4, <1>5, LineIsSeqNext, SeqEqual
<1>7. QED
  BY <1>1, <1>2, <1>6 DEF FL!Call

LEMMA ClearedLine == seq = 0 /\ admitted = 0 => Line = <<>>
BY DEF Line

\* The Redis state of an event is a fair line: every command maps to one of
\* its steps or to none.
THEOREM EventQueueIsFairLine == Spec => IsFairLine
<1>1. Init => FL!Init
  BY ClearedLine DEF Init, FL!Init
<1>2. TypeOK /\ Dense /\ TypeOK' /\ Dense' /\ [Next]_queueVars => [FL!Next]_FL!lineVars
  <2> SUFFICES ASSUME TypeOK, Dense, TypeOK', Dense', [Next]_queueVars
               PROVE  [FL!Next]_FL!lineVars
    OBVIOUS
  <2>1. ASSUME UNCHANGED <<queue, seq, admitted>> PROVE UNCHANGED FL!lineVars
    BY <2>1 DEF FL!lineVars, Line
  <2>2. ASSUME NEW t \in Tokens, Join(t) PROVE [FL!Next]_FL!lineVars
    <3>1. CASE Queued(t)
      BY <2>1, <2>2, <3>1 DEF Join
    <3>2. CASE ~Queued(t)
      BY <2>2, <3>2, EnqueueIsJoin DEF Join, FL!Next
    <3>3. QED
      BY <3>1, <3>2
  <2>3. ASSUME NEW now \in Times, AdmitBatch(now) PROVE [FL!Next]_FL!lineVars
    <3>1. CASE Batch(now) <= 0
      BY <2>1, <2>3, <3>1 DEF AdmitBatch
    <3>2. CASE ~(Batch(now) <= 0)
      <4>1. Batch(now) \in Int /\ Batch(now) <= seq - admitted
        BY <2>3, BatchBounds DEF AdmitBatch
      <4>2. Pop(Batch(now)) /\ UNCHANGED seq /\ 0 < Batch(now)
        BY <2>3, <3>2, <4>1 DEF AdmitBatch
      <4>3. FL!Call(Batch(now)) /\ Batch(now) \in 1 .. Len(Line)
        BY <4>1, <4>2, PopIsCall, LineIsSeq
      <4>4. QED
        BY <4>3 DEF FL!Next
    <3>3. QED
      BY <3>1, <3>2
  <2>4. CASE ResetState
    <3>1. Line' = <<>> /\ admitted' = 0
      BY <2>4 DEF ResetState, Line
    <3>2. QED
      BY <3>1 DEF FL!Next, FL!Clear
  <2>5. ASSUME NEW c \in Configs, PutConfig(c) PROVE [FL!Next]_FL!lineVars
    BY <2>1, <2>5 DEF PutConfig
  <2>6. CASE UNCHANGED queueVars
    BY <2>1, <2>6 DEF queueVars
  <2>7. QED
    BY <2>2, <2>3, <2>4, <2>5, <2>6 DEF Next
<1>3. QED
  BY <1>1, <1>2, QueueInvariant, PTL DEF Spec, IsFairLine, FL!Spec

=============================================================================
