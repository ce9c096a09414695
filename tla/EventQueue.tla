----------------------------- MODULE EventQueue -----------------------------
(***************************************************************************)
(* The Redis state of one event of queue_service and the commands that     *)
(* change it: the scripts lua/join.lua and lua/admit_batch.lua, and the    *)
(* two commands of the management command create_event.  A Lua script runs *)
(* to its end before Redis serves anybody else, so each is one action;     *)
(* create_event's DEL and HSET are separate round trips, so they are two.  *)
(*                                                                         *)
(*   queue     the sorted set qf:{event}:queue, a function from its        *)
(*             members (queue tokens) to their scores                      *)
(*   seq       qf:{event}:seq, 0 while the key does not exist              *)
(*   admitted  qf:{event}:admitted, 0 while the key does not exist         *)
(*   bucket    the hash qf:{event}:bucket, NoBucket while it is absent     *)
(*   config    the hash qf:{event}:config, NoConfig while it is absent     *)
(***************************************************************************)
EXTENDS TokenBucket, FiniteSets

CONSTANTS Tokens,    \* queue tokens that callers present
          Configs,   \* configurations the operator may write
          NoConfig,  \* the configuration hash does not exist
          NoBucket,  \* the bucket hash does not exist
          Times,     \* clock readings an admitter may pass
          MaxSeq     \* bound on exploration: arrivals since the last reset

\* A call leaves a bucket that is not in debt, whatever the configuration.
Buckets == [tokens : Nat, last_refill_ms : Int]

\* create_event accepts any three integers (argparse type=int).
ASSUME ConfigAssumption ==
    /\ Configs \subseteq [rate_per_min : Int, burst : Int, batch_max : Int]
    /\ NoConfig \notin Configs

ASSUME BucketAssumption == NoBucket \notin Buckets

ASSUME TimesAssumption == Times \subseteq Int

ASSUME MaxSeqAssumption == MaxSeq \in Nat

VARIABLES queue, seq, admitted, bucket, config

queueVars == <<queue, seq, admitted, bucket, config>>

-----------------------------------------------------------------------------
(* The sorted-set commands the scripts use.                                *)

Queued(t) == t \in DOMAIN queue

ZCard == Cardinality(DOMAIN queue)

Ahead(t) == {u \in DOMAIN queue : queue[u] < queue[t]}

\* ZRANK: how many members have a smaller score.  Scores never tie (see
\* Dense), so the order Redis gives equal scores does not matter.
ZRank(t) == Cardinality(Ahead(t))

\* Fault: ZPOPMAX in its place.
ZPopMax(n) == {t \in DOMAIN queue : ZCard - ZRank(t) <= n}

\* The members ZPOPMIN removes.
ZPopMin(n) == {t \in DOMAIN queue : ZRank(t) < n}

-----------------------------------------------------------------------------
(* join.lua                                                                *)

\* A token that is not queued takes the next arrival number.
Enqueue(t) ==
    /\ seq' = seq + 1
    /\ queue' = [u \in DOMAIN queue \cup {t} |-> IF u = t THEN seq + 1 ELSE queue[u]]

\* Fault: the ZSCORE test is missing, a retry is queued anew.
JoinForgetsScore(t) ==
    /\ config # NoConfig
    /\ seq < MaxSeq
    /\ Enqueue(t)
    /\ UNCHANGED <<admitted, bucket, config>>

\* A token that is queued keeps its number and none is consumed.
Join(t) ==
    /\ config # NoConfig
    /\ seq < MaxSeq
    /\ IF Queued(t) THEN UNCHANGED <<seq, queue>> ELSE Enqueue(t)
    /\ UNCHANGED <<admitted, bucket, config>>

-----------------------------------------------------------------------------
(* admit_batch.lua                                                         *)

\* The two early returns: no such event, and a paused one.
AdmissionClosed ==
    \/ config = NoConfig
    \/ config.rate_per_min <= 0

\* The bucket a call at `now' starts from; the first call finds a full one.
OpenBucket(now) ==
    IF bucket = NoBucket
    THEN [tokens |-> config.burst * Unit, last_refill_ms |-> now]
    ELSE bucket

TokensAt(now) ==
    LET b == OpenBucket(now)
    IN  Refilled(config, b.tokens, Elapsed(now, b.last_refill_ms))

Batch(now) == BatchSize(config, TokensAt(now), ZCard)

\* Fault: INCRBY counts the batch allowed, not the batch popped.
PopCountsAllowance(n) ==
    /\ queue' = [t \in DOMAIN queue \ ZPopMin(n) |-> queue[t]]
    /\ admitted' = admitted + config.batch_max

\* ZPOPMIN and INCRBY, which run only for a batch that is not empty.
Pop(n) ==
    /\ queue' = [t \in DOMAIN queue \ ZPopMin(n) |-> queue[t]]
    /\ admitted' = admitted + n

AdmitBatch(now) ==
    /\ ~AdmissionClosed
    /\ bucket' = [tokens |-> TokensAt(now) - Batch(now) * Unit,
                  last_refill_ms |-> now]
    /\ IF Batch(now) <= 0 THEN UNCHANGED <<queue, admitted>> ELSE Pop(Batch(now))
    /\ UNCHANGED <<seq, config>>

-----------------------------------------------------------------------------
(* create_event.  Without --reset it only writes the configuration; with   *)
(* it, the four keys go first and the process may die before the HSET.     *)

\* Fault: the admitted counter is left out of the DEL.
ResetKeepsAdmitted ==
    /\ queue' = [t \in {} |-> 0]
    /\ seq' = 0
    /\ bucket' = NoBucket
    /\ UNCHANGED <<admitted, config>>

ResetState ==
    /\ queue' = [t \in {} |-> 0]
    /\ seq' = 0
    /\ admitted' = 0
    /\ bucket' = NoBucket
    /\ UNCHANGED config

PutConfig(c) ==
    /\ config' = c
    /\ UNCHANGED <<queue, seq, admitted, bucket>>

-----------------------------------------------------------------------------

Init ==
    /\ queue = [t \in {} |-> 0]
    /\ seq = 0
    /\ admitted = 0
    /\ bucket = NoBucket
    /\ config = NoConfig

Next ==
    \/ \E t \in Tokens : Join(t)
    \/ \E now \in Times : AdmitBatch(now)
    \/ ResetState
    \/ \E c \in Configs : PutConfig(c)

Spec == Init /\ [][Next]_queueVars

-----------------------------------------------------------------------------
(* Properties.                                                             *)

\* Types.  A batch is never larger than the bucket can pay for (Buckets).
TypeOK ==
    /\ DOMAIN queue \subseteq Tokens
    /\ queue \in [DOMAIN queue -> Nat]
    /\ seq \in Nat
    /\ admitted \in Nat
    /\ bucket \in Buckets \cup {NoBucket}
    /\ config \in Configs \cup {NoConfig}

\* The numbers in the queue are exactly those from admitted + 1 to seq, each
\* held by one token: INCR and ZADD, ZPOPMIN and INCRBY never drift apart,
\* which is what the position arithmetic of join.lua's reply rests on.
Dense ==
    /\ admitted <= seq
    /\ \A t \in DOMAIN queue : queue[t] \in admitted + 1 .. seq
    /\ \A t, u \in DOMAIN queue : queue[t] = queue[u] => t = u
    /\ \A k \in admitted + 1 .. seq : \E t \in DOMAIN queue : queue[t] = k

\* The place shown by POST /join: core/state.py clamps it to at least 1.
PlaceFromJoin(t) == IF queue[t] - admitted < 1 THEN 1 ELSE queue[t] - admitted

\* The place shown by GET /position: position.lua adds 1 to ZRANK.
PlaceFromPoll(t) == ZRank(t) + 1

\* A waiter is told the same place by the join that computes it from two
\* counters and by the poll that counts the queue; a page reload, which
\* joins again, never contradicts the poll before it.
PlacesAgree == \A t \in DOMAIN queue : PlaceFromJoin(t) = PlaceFromPoll(t)

\* Nobody leaves the queue before somebody who is ahead of him.
FirstComeFirstServed ==
    [][\A t \in DOMAIN queue \ DOMAIN queue' : Ahead(t) \cap DOMAIN queue' = {}]_queueVars

\* The place of a waiter who stays falls by exactly the number just
\* admitted: it never grows, whoever joins, retries or reconfigures.
PlaceFollowsAdmissions ==
    [][\A t \in DOMAIN queue \cap DOMAIN queue' :
          ZRank(t)' = ZRank(t) - (admitted' - admitted)]_queueVars

\* The abstract line.  A waiter stands in it as the set of those who hold
\* his number, which Dense makes a singleton.
Line == [i \in 1 .. seq - admitted |-> {t \in DOMAIN queue : queue[t] = admitted + i}]

FL == INSTANCE FairLine
        WITH Waiters <- {{t} : t \in Tokens}, line <- Line, called <- admitted

\* The Redis state of an event is a fair line: a sorted set and two counters
\* that are changed by separate commands behave as one sequence.
IsFairLine == FL!Spec

=============================================================================
