------------------------- MODULE AdmissionLoopProofs -------------------------
(***************************************************************************)
(* Proofs about AdmissionLoop, for any processes, tokens, configurations   *)
(* and clock readings, and any number of repetitions.                      *)
(*                                                                         *)
(* LoopInv says where a number the counter has passed can be.  Ledger:     *)
(* every such number is recorded, stranded or in the batch of a process,   *)
(* and never twice.  Hands: what a process holds in its batch is distinct, *)
(* has the tokens that were given those numbers, and is recorded from its  *)
(* beginning but for what was refused.  Lined ties the numbers in the      *)
(* queue to the arrivals.                                                  *)
(***************************************************************************)
EXTENDS AdmissionLoop, EventQueueProofs

Processes == [at : {"asleep", "calling", "recording"}, now : Times,
              batch : SUBSET Popped, left : SUBSET Popped, refused : SUBSET Popped,
              tries : 0 .. MaxRetries]

Types ==
    /\ TypeOK
    /\ Dense
    /\ seq <= MaxSeq
    /\ clock \in Times
    /\ admitter \in [Admitters -> Processes]
    /\ \A p \in Admitters : admitter[p].now <= clock
    /\ DOMAIN passes = Tokens
    /\ arrivals \in Seq(Tokens)
    /\ Len(arrivals) = seq

Lined == \A t \in DOMAIN queue : arrivals[queue[t]] = t

Held(p) == admitter[p].batch

Hands(p) ==
    /\ ~At(p, "recording") => Held(p) = {}
    /\ admitter[p].left \subseteq Held(p) /\ admitter[p].refused \subseteq Held(p)
    /\ \A w, v \in Held(p) : w.number = v.number => w = v
    /\ \A w \in Held(p) : w.number <= admitted /\ arrivals[w.number] = w.token
    /\ \A w \in Held(p) \ admitter[p].left :
         w.number \in recorded \/ w \in admitter[p].refused
    /\ \A w, v \in Held(p) :
         w.number \in recorded /\ v.number \notin recorded =>
             w.number < v.number \/ v \in admitter[p].refused

Ledger ==
    /\ recorded \subseteq 1 .. admitted
    /\ stranded \subseteq 1 .. admitted
    /\ recorded \cap stranded = {}
    /\ \A k \in 1 .. admitted :
         \/ k \in recorded \cup stranded
         \/ \E p \in Admitters : \E w \in Held(p) : w.number = k
    /\ \A p \in Admitters : \A w \in Held(p) : w.number \notin stranded
    /\ \A p, q \in Admitters : p # q =>
         \A w \in Held(p), v \in Held(q) : w.number # v.number

Kept ==
    \A t \in Tokens : passes[t] # NoPass =>
        /\ passes[t] \in Keys
        /\ passes[t].number \in recorded
        /\ arrivals[passes[t].number] = t
        /\ passes[t].exp * Second <= passes[t].until

LoopInv ==
    /\ Types
    /\ Lined
    /\ \A p \in Admitters : Hands(p)
    /\ Ledger
    /\ Kept

-----------------------------------------------------------------------------
(* What a step leaves alone.                                               *)

\* A batch nobody touches stays in good hands while other numbers are
\* recorded and waiters arrive.
LEMMA HandsKept ==
    ASSUME NEW p \in Admitters, Types, Hands(p),
           admitter'[p] = admitter[p],
           admitted <= admitted', admitted' \in Int,
           \A w \in Held(p) : w.number \in recorded' <=> w.number \in recorded,
           \A k \in 1 .. seq : arrivals'[k] = arrivals[k]
    PROVE  Hands(p)'
<1>1. /\ Held(p)' = Held(p) /\ admitter'[p].left = admitter[p].left
      /\ admitter'[p].refused = admitter[p].refused
  BY DEF Held
<1>2. \A w \in Held(p) : w.number \in 1 .. seq
  BY DEF Hands, Held, Types, Processes, Popped, TypeOK, Dense
<1>3. \A w \in Held(p)' : w.number <= admitted' /\ arrivals'[w.number] = w.token
  BY <1>1, <1>2 DEF Hands, Types, TypeOK
<1>4. (~At(p, "recording"))' => Held(p)' = {}
  BY <1>1 DEF Hands, At
<1>5. QED
  BY <1>1, <1>3, <1>4 DEF Hands

\* A process with nothing in hand.
LEMMA HandsEmpty ==
    ASSUME NEW p \in Admitters, admitter'[p].batch = {}, admitter'[p].left = {},
           admitter'[p].refused = {}
    PROVE  Hands(p)'
BY DEF Hands, Held

\* The entries of a batch: numbers of waiters in the queue.
LEMMA ReplyFacts ==
    ASSUME Types, Lined, NEW now \in Times, RunScript(now)
    PROVE  /\ TypeOK' /\ Dense' /\ seq' = seq
           /\ admitted' \in Nat /\ admitted <= admitted'
           /\ \A t \in DOMAIN queue' : t \in DOMAIN queue /\ queue'[t] = queue[t]
           /\ Reply(now) \subseteq Popped
           /\ \A w \in Reply(now) : /\ w.number \in admitted + 1 .. admitted'
                                    /\ arrivals[w.number] = w.token
           /\ \A w, v \in Reply(now) : w.number = v.number => w = v
           /\ \A k \in admitted + 1 .. admitted' : \E w \in Reply(now) : w.number = k
<1>0. TypeOK /\ Dense /\ seq \in Nat /\ admitted \in Nat /\ MaxSeq \in Nat
  BY MaxSeqAssumption DEF Types, TypeOK
<1>1. CASE AdmissionClosed
  <2>1. UNCHANGED queueVars /\ Reply(now) = {}
    BY <1>1 DEF RunScript, Reply
  <2>2. QED
    BY <1>0, <2>1, StutterOK DEF queueVars
<1>2. CASE ~AdmissionClosed
  <2>1. AdmitBatch(now)
    BY <1>2 DEF RunScript
  <2>2. TypeOK' /\ Dense' /\ seq' = seq
    BY <1>0, <2>1, AdmitBatchOK DEF AdmitBatch
  <2>3. Batch(now) \in Int /\ Batch(now) <= seq - admitted
    BY <1>0, <1>2, BatchBounds
  <2>4. CASE Batch(now) <= 0
    <3>1. UNCHANGED <<queue, admitted>> /\ Reply(now) = {}
      BY <2>1, <2>4 DEF AdmitBatch, Reply
    <3>2. QED
      BY <1>0, <2>2, <3>1
  <2>5. CASE ~(Batch(now) <= 0)
    <3>1. PICK n \in Int : n = Batch(now) /\ 0 < n /\ n <= seq - admitted
      BY <2>3, <2>5
    <3>2. Pop(n)
      BY <2>1, <2>5, <3>1 DEF AdmitBatch
    <3>3. admitted' = admitted + n
      BY <3>2 DEF Pop
    <3>4. ZPopMin(n) = {t \in DOMAIN queue : queue[t] <= admitted + n}
      BY <1>0, PopMinIsPrefix
    <3>5. Reply(now) = {[token |-> t, number |-> queue[t]] : t \in ZPopMin(n)}
      BY <1>2, <2>5, <3>1 DEF Reply
    <3>6. \A t \in DOMAIN queue : /\ t \in Tokens /\ queue[t] \in admitted + 1 .. seq
                                /\ arrivals[queue[t]] = t
      BY <1>0 DEF TypeOK, Dense, Lined
    <3>7. \A t \in ZPopMin(n) : /\ t \in Tokens /\ queue[t] \in 1 .. MaxSeq
                              /\ queue[t] \in admitted + 1 .. admitted'
                              /\ arrivals[queue[t]] = t
      BY <1>0, <3>1, <3>3, <3>4, <3>6 DEF Types
    <3>8. Reply(now) \subseteq Popped
      BY <3>5, <3>7 DEF Popped
    <3>9. \A w \in Reply(now) : /\ w.number \in admitted + 1 .. admitted'
                              /\ arrivals[w.number] = w.token
      BY <3>5, <3>7
    <3>10. \A w, v \in Reply(now) : w.number = v.number => w = v
      BY <1>0, <3>4, <3>5 DEF Dense
    <3>11. ASSUME NEW k \in admitted + 1 .. admitted'
           PROVE  \E w \in Reply(now) : w.number = k
      <4>1. k \in admitted + 1 .. seq /\ k <= admitted + n
        BY <1>0, <3>1, <3>3
      <4>2. PICK t \in DOMAIN queue : queue[t] = k
        BY <1>0, <4>1 DEF Dense
      <4>3. t \in ZPopMin(n)
        BY <3>4, <4>1, <4>2
      <4>4. [token |-> t, number |-> queue[t]] \in Reply(now)
        BY <3>5, <4>3
      <4>5. QED
        BY <4>2, <4>4
    <3>12. \A t \in DOMAIN queue' : t \in DOMAIN queue /\ queue'[t] = queue[t]
      BY <3>2 DEF Pop
    <3>13. admitted' \in Nat /\ admitted <= admitted'
      BY <1>0, <3>1, <3>3
    <3>14. QED
      BY <2>2, <3>8, <3>9, <3>10, <3>11, <3>12, <3>13
  <2>6. QED
    BY <2>4, <2>5
<1>3. QED
  BY <1>1, <1>2

-----------------------------------------------------------------------------
(* The invariant, action by action.                                        *)

LEMMA LoopInitOK == LoopInit => LoopInv
<1> SUFFICES ASSUME LoopInit PROVE LoopInv
  OBVIOUS
<1>1. TypeOK /\ Dense
  BY InitOK DEF LoopInit
<1>2. seq = 0 /\ admitted = 0 /\ DOMAIN queue = {}
  BY DEF LoopInit, Init
<1>3. \A p \in Admitters : admitter[p] = Asleep
  BY DEF LoopInit
<1>4. /\ Asleep \in Processes /\ Asleep.now = 0
      /\ Asleep.batch = {} /\ Asleep.left = {} /\ Asleep.refused = {}
  BY LoopAssumption DEF Asleep, Processes
<1>5. Types
  <2>1. admitter \in [Admitters -> Processes]
    BY <1>4 DEF LoopInit
  <2>2. arrivals \in Seq(Tokens) /\ Len(arrivals) = 0
    BY DEF LoopInit
  <2>3. clock \in Times /\ clock = 0 /\ DOMAIN passes = Tokens
    BY LoopAssumption DEF LoopInit
  <2>4. \A p \in Admitters : admitter[p].now <= clock
    BY <1>3, <1>4, <2>3
  <2>5. QED
    BY <1>1, <1>2, <2>1, <2>2, <2>3, <2>4, MaxSeqAssumption DEF Types
<1>6. \A p \in Admitters : Hands(p)
  BY <1>3, <1>4 DEF Hands, Held
<1>7. Ledger
  BY <1>2, <1>3, <1>4 DEF LoopInit, Ledger, Held
<1>8. Lined /\ Kept
  BY <1>2 DEF LoopInit, Lined, Kept
<1>9. QED
  BY <1>5, <1>6, <1>7, <1>8 DEF LoopInv

LEMMA JoinQueueOK ==
    ASSUME LoopInv, NEW t \in Tokens, JoinQueue(t)
    PROVE  LoopInv'
<1>1. /\ Types /\ Lined /\ Ledger /\ Kept
      /\ TypeOK /\ Dense /\ seq \in Nat /\ admitted \in Nat /\ admitted <= seq
      /\ Len(arrivals) = seq /\ arrivals \in Seq(Tokens)
  BY DEF LoopInv, Types, TypeOK, Dense
<1>2. /\ Join(t) /\ admitted' = admitted
      /\ UNCHANGED <<clock, admitter, passes, recorded, stranded>>
  BY DEF JoinQueue, Join
<1>3. TypeOK' /\ Dense'
  BY <1>1, <1>2, JoinOK
<1>4. /\ arrivals' \in Seq(Tokens) /\ Len(arrivals') = seq' /\ seq' <= MaxSeq
      /\ \A k \in 1 .. seq : arrivals'[k] = arrivals[k]
      /\ Lined'
  <2>1. CASE Queued(t)
    <3>1. seq' = seq /\ queue' = queue /\ arrivals' = arrivals
      BY <1>2, <2>1 DEF Join, JoinQueue
    <3>2. QED
      BY <1>1, <3>1 DEF Types, Lined
  <2>2. CASE ~Queued(t)
    <3>1. /\ seq' = seq + 1 /\ arrivals' = Append(arrivals, t) /\ seq < MaxSeq
          /\ DOMAIN queue' = DOMAIN queue \cup {t} /\ queue'[t] = seq + 1
          /\ \A u \in DOMAIN queue : queue'[u] = queue[u]
      BY <1>1, <1>2, <2>2 DEF Join, JoinQueue, Enqueue, Queued
    <3>2. /\ arrivals' \in Seq(Tokens) /\ Len(arrivals') = seq + 1
          /\ arrivals'[seq + 1] = t
          /\ \A k \in 1 .. seq : arrivals'[k] = arrivals[k]
      BY <1>1, <3>1
    <3>3. \A u \in DOMAIN queue : queue[u] \in 1 .. seq
      BY <1>1 DEF Dense
    <3>4. Lined'
      BY <1>1, <3>1, <3>2, <3>3 DEF Lined
    <3>5. QED
      BY <1>1, <3>1, <3>2, <3>4, MaxSeqAssumption
  <2>3. QED
    BY <2>1, <2>2
<1>5. Types'
  BY <1>1, <1>2, <1>3, <1>4 DEF Types
<1>6. ASSUME NEW p \in Admitters PROVE Hands(p)'
  BY <1>1, <1>2, <1>4, HandsKept DEF LoopInv
<1>7. Ledger'
  BY <1>1, <1>2 DEF Ledger, Held
<1>8. Kept'
  <2>1. recorded \subseteq 1 .. seq
    BY <1>1 DEF Ledger
  <2>2. QED
    BY <1>1, <1>2, <1>4, <2>1 DEF Kept
<1>9. QED
  BY <1>4, <1>5, <1>6, <1>7, <1>8 DEF LoopInv

-----------------------------------------------------------------------------
(* The steps of a process.                                                 *)

\* A process that changes its own record, and nothing the types speak of.
LEMMA ProcessMoves ==
    ASSUME LoopInv, NEW p \in Admitters, NEW r \in Processes, r.now <= clock,
           admitter' = [admitter EXCEPT ![p] = r],
           TypeOK', Dense', UNCHANGED <<seq, clock, arrivals>>,
           DOMAIN passes' = Tokens
    PROVE  /\ Types'
           /\ admitter'[p] = r
           /\ \A q \in Admitters \ {p} : admitter'[q] = admitter[q]
<1>1. Types
  BY DEF LoopInv
<1>2. /\ admitter' \in [Admitters -> Processes]
      /\ admitter'[p] = r
      /\ \A q \in Admitters \ {p} : admitter'[q] = admitter[q]
  BY <1>1 DEF Types
<1>3. \A q \in Admitters : admitter'[q].now <= clock'
  BY <1>1, <1>2 DEF Types
<1>4. Types'
  BY <1>1, <1>2, <1>3 DEF Types
<1>5. QED
  BY <1>2, <1>4

\* A process that keeps its batch and owes all of it again.
LEMMA SameBatch ==
    ASSUME LoopInv, NEW p \in Admitters, NEW r \in Processes, r.now <= clock,
           r.batch = Held(p), r.left = r.batch, r.refused = admitter[p].refused,
           r.at # "recording" => r.batch = {},
           admitter' = [admitter EXCEPT ![p] = r],
           UNCHANGED <<queueVars, clock, passes, history>>
    PROVE  LoopInv'
<1>1. Types /\ Lined /\ Ledger /\ Kept /\ Hands(p)
  BY DEF LoopInv
<1>2. UNCHANGED <<seq, admitted, queue, clock, arrivals, recorded, stranded, passes>>
  BY DEF queueVars, history
<1>3. /\ Types'
      /\ admitter'[p] = r
      /\ \A q \in Admitters \ {p} : admitter'[q] = admitter[q]
  BY <1>1, <1>2, ProcessMoves, StutterOK DEF Types
<1>4. \A q \in Admitters : Held(q)' = Held(q)
  BY <1>3 DEF Held
<1>5. Hands(p)'
  BY <1>1, <1>2, <1>3, <1>4 DEF Hands, At, Held
<1>6. ASSUME NEW q \in Admitters, q # p PROVE Hands(q)'
  BY <1>1, <1>2, <1>3, <1>6, HandsKept DEF LoopInv, Types, TypeOK
<1>7. Ledger'
  BY <1>1, <1>2, <1>4 DEF Ledger
<1>8. Lined' /\ Kept'
  BY <1>1, <1>2 DEF Lined, Kept
<1>9. QED
  BY <1>3, <1>5, <1>6, <1>7, <1>8 DEF LoopInv

LEMMA AsleepIs ==
    /\ Asleep \in Processes
    /\ Asleep.at = "asleep" /\ Asleep.now = 0 /\ Asleep.tries = 0
    /\ Asleep.batch = {} /\ Asleep.left = {} /\ Asleep.refused = {}
BY LoopAssumption DEF Asleep, Processes

\* A process that lets go of its batch, and strands whoever is still owed.
LEMMA LetGo ==
    ASSUME LoopInv, NEW p \in Admitters,
           admitter' = [admitter EXCEPT ![p] = Asleep],
           stranded' = stranded \cup Owed(p),
           UNCHANGED <<queueVars, clock, passes, arrivals, recorded>>
    PROVE  LoopInv'
<1>1. Types /\ Lined /\ Ledger /\ Kept /\ Hands(p)
  BY DEF LoopInv
<1>2. UNCHANGED <<seq, admitted, queue>>
  BY DEF queueVars
<1>3. /\ Types'
      /\ admitter'[p] = Asleep
      /\ \A q \in Admitters \ {p} : admitter'[q] = admitter[q]
  <2>1. Asleep.now <= clock
    BY <1>1, AsleepIs, LoopAssumption DEF Types
  <2>2. QED
    BY <1>1, <1>2, <2>1, AsleepIs, ProcessMoves, StutterOK DEF Types
<1>4. Held(p)' = {} /\ \A q \in Admitters \ {p} : Held(q)' = Held(q)
  BY <1>3, AsleepIs DEF Held
<1>5. Hands(p)'
  BY <1>3, AsleepIs, HandsEmpty
<1>6. ASSUME NEW q \in Admitters, q # p PROVE Hands(q)'
  BY <1>1, <1>2, <1>3, <1>6, HandsKept DEF LoopInv, Types, TypeOK
<1>7. \A k \in Owed(p) : k \notin recorded /\ \E w \in Held(p) : w.number = k
  BY DEF Owed, Numbers, Held
<1>8. \A w \in Held(p) : w.number \in recorded \/ w.number \in Owed(p)
  BY DEF Owed, Numbers, Held
<1>9. Ledger'
  <2>1. stranded' \subseteq 1 .. admitted'
    <3>1. \A w \in Held(p) : w.number \in 1 .. admitted
      BY <1>1 DEF Hands, Held, Types, Processes, Popped, TypeOK
    <3>2. Owed(p) \subseteq 1 .. admitted
      BY <1>7, <3>1
    <3>3. QED
      BY <1>1, <1>2, <3>2 DEF Ledger
  <2>2. recorded' \subseteq 1 .. admitted' /\ recorded' \cap stranded' = {}
    BY <1>1, <1>2, <1>7 DEF Ledger
  <2>3. ASSUME NEW k \in 1 .. admitted'
        PROVE  \/ k \in recorded' \cup stranded'
               \/ \E q \in Admitters : \E w \in Held(q)' : w.number = k
    <3>1. CASE k \in recorded \cup stranded
      BY <3>1
    <3>2. CASE k \notin recorded \cup stranded
      <4>1. PICK q \in Admitters : \E w \in Held(q) : w.number = k
        BY <1>1, <1>2, <3>2 DEF Ledger
      <4>2. QED
        BY <1>4, <1>8, <4>1
    <3>3. QED
      BY <3>1, <3>2
  <2>4. \A q \in Admitters : \A w \in Held(q)' : w.number \notin stranded'
    BY <1>1, <1>4, <1>7 DEF Ledger
  <2>5. \A q, s \in Admitters : q # s =>
          \A w \in Held(q)', v \in Held(s)' : w.number # v.number
    BY <1>1, <1>4 DEF Ledger
  <2>6. QED
    BY <2>1, <2>2, <2>3, <2>4, <2>5 DEF Ledger
<1>10. Lined' /\ Kept'
  BY <1>1, <1>2 DEF Lined, Kept
<1>11. QED
  BY <1>3, <1>5, <1>6, <1>9, <1>10 DEF LoopInv

-----------------------------------------------------------------------------
(* The script's reply reaches the process, or is lost on the way.          *)

\* What the two outcomes share: the queue and the counters after the script,
\* everybody else's batch, and the numbers just popped, which nobody holds.
LEMMA ScriptRan ==
    ASSUME LoopInv, NEW p \in Admitters, At(p, "calling"),
           NEW r \in Processes, r.now <= clock,
           admitter' = [admitter EXCEPT ![p] = r],
           RunScript(admitter[p].now),
           UNCHANGED <<clock, passes, arrivals, recorded>>
    PROVE  /\ Types' /\ Lined' /\ Kept'
           /\ admitter'[p] = r
           /\ Held(p) = {}
           /\ \A q \in Admitters \ {p} : Hands(q)' /\ Held(q)' = Held(q)
           /\ \A q \in Admitters : \A w \in Held(q) : w.number <= admitted
           /\ admitted \in Nat /\ admitted' \in Nat /\ admitted <= admitted'
<1> DEFINE now == admitter[p].now
<1>1. Types /\ Lined /\ Ledger /\ Kept /\ \A q \in Admitters : Hands(q)
  BY DEF LoopInv
<1>2. now \in Times
  BY <1>1 DEF Types, Processes
<1>3. /\ TypeOK' /\ Dense' /\ seq' = seq
      /\ admitted' \in Nat /\ admitted <= admitted'
      /\ \A t \in DOMAIN queue' : t \in DOMAIN queue /\ queue'[t] = queue[t]
  BY <1>1, <1>2, ReplyFacts
<1>4. /\ Types'
      /\ admitter'[p] = r
      /\ \A q \in Admitters \ {p} : admitter'[q] = admitter[q]
  BY <1>1, <1>3, ProcessMoves DEF Types
<1>5. Held(p) = {}
  BY <1>1 DEF Hands, At
<1>6. ASSUME NEW q \in Admitters \ {p} PROVE Hands(q)' /\ Held(q)' = Held(q)
  <2>1. admitter'[q] = admitter[q]
    BY <1>4
  <2>2. Hands(q)'
    BY <1>1, <1>3, <2>1, HandsKept
  <2>3. QED
    BY <2>1, <2>2 DEF Held
<1>7. Lined' /\ Kept'
  BY <1>1, <1>3 DEF Lined, Kept
<1>8. admitted \in Nat
  BY <1>1 DEF Types, TypeOK
<1>9. QED
  BY <1>1, <1>3, <1>4, <1>5, <1>6, <1>7, <1>8 DEF Hands

\* The process takes the reply in hand.
LEMMA ReplyTaken ==
    ASSUME LoopInv, NEW p \in Admitters, At(p, "calling"),
           NEW r \in Processes, r.now <= clock,
           r.batch = Reply(admitter[p].now), r.left = r.batch, r.refused = {},
           r.at # "recording" => r.batch = {},
           admitter' = [admitter EXCEPT ![p] = r],
           RunScript(admitter[p].now),
           UNCHANGED <<clock, passes, history>>
    PROVE  LoopInv'
<1> DEFINE reply == Reply(admitter[p].now)
<1>1. /\ Ledger /\ Types /\ Lined
      /\ UNCHANGED <<arrivals, recorded, stranded>>
  BY DEF LoopInv, history
<1>2. /\ Types' /\ Lined' /\ Kept'
      /\ admitter'[p] = r
      /\ Held(p) = {}
      /\ \A q \in Admitters \ {p} : Hands(q)' /\ Held(q)' = Held(q)
      /\ \A q \in Admitters : \A w \in Held(q) : w.number <= admitted
      /\ admitted \in Nat /\ admitted' \in Nat /\ admitted <= admitted'
  BY <1>1, ScriptRan
<1>3. admitter[p].now \in Times
  BY <1>1 DEF Types, Processes
<1>4. /\ \A w \in reply : /\ w.number \in admitted + 1 .. admitted'
                          /\ arrivals[w.number] = w.token
      /\ \A w, v \in reply : w.number = v.number => w = v
      /\ \A k \in admitted + 1 .. admitted' : \E w \in reply : w.number = k
  BY <1>1, <1>3, ReplyFacts
<1>5. Held(p)' = reply
  BY <1>2 DEF Held
<1>6. \A w \in reply : w.number \notin recorded /\ w.number \notin stranded
  BY <1>1, <1>2, <1>4 DEF Ledger
<1>7. Hands(p)'
  <2>1. (~At(p, "recording"))' => Held(p)' = {}
    BY <1>2, <1>5 DEF At
  <2>2. (admitter[p].left)' = reply /\ (admitter[p].refused)' = {}
    BY <1>2
  <2>3. \A w \in reply : w.number <= admitted'
    BY <1>2, <1>4
  <2>4. QED
    BY <1>1, <1>4, <1>5, <1>6, <2>1, <2>2, <2>3 DEF Hands
<1>8. Ledger'
  <2>1. /\ recorded' \subseteq 1 .. admitted' /\ stranded' \subseteq 1 .. admitted'
        /\ recorded' \cap stranded' = {}
    BY <1>1, <1>2 DEF Ledger
  <2>2. ASSUME NEW k \in 1 .. admitted'
        PROVE  \/ k \in recorded' \cup stranded'
               \/ \E q \in Admitters : \E w \in Held(q)' : w.number = k
    <3>1. CASE k <= admitted
      <4>1. k \in 1 .. admitted
        BY <1>2, <3>1
      <4>2. CASE k \in recorded \cup stranded
        BY <1>1, <4>2
      <4>3. CASE k \notin recorded \cup stranded
        <5>1. PICK q \in Admitters : \E w \in Held(q) : w.number = k
          BY <1>1, <4>1, <4>3 DEF Ledger
        <5>2. q # p
          BY <1>2, <5>1
        <5>3. QED
          BY <1>2, <5>1, <5>2
      <4>4. QED
        BY <4>2, <4>3
    <3>2. CASE ~(k <= admitted)
      <4>1. k \in admitted + 1 .. admitted'
        BY <1>2, <3>2
      <4>2. QED
        BY <1>4, <1>5, <4>1
    <3>3. QED
      BY <3>1, <3>2
  <2>3. ASSUME NEW q \in Admitters PROVE \A w \in Held(q)' : w.number \notin stranded'
    BY <1>1, <1>2, <1>5, <1>6 DEF Ledger
  <2>4. ASSUME NEW q \in Admitters, NEW s \in Admitters, q # s,
               NEW w \in Held(q)', NEW v \in Held(s)'
        PROVE  w.number # v.number
    <3>1. \A o \in Admitters : \A x \in reply, y \in Held(o) : x.number # y.number
      <4>1. \A x \in reply : x.number \in Int /\ ~(x.number <= admitted)
        BY <1>2, <1>4
      <4>2. QED
        BY <1>2, <4>1
    <3>2. CASE q = p
      <4>1. w \in reply /\ v \in Held(s)
        BY <1>2, <1>5, <2>4, <3>2
      <4>2. QED
        BY <3>1, <4>1
    <3>3. CASE s = p
      <4>1. v \in reply /\ w \in Held(q)
        BY <1>2, <1>5, <2>4, <3>3
      <4>2. QED
        BY <3>1, <4>1
    <3>4. CASE q # p /\ s # p
      BY <1>1, <1>2, <2>4, <3>4 DEF Ledger
    <3>5. QED
      BY <3>2, <3>3, <3>4
  <2>5. QED
    BY <2>1, <2>2, <2>3, <2>4 DEF Ledger
<1>9. \A q \in Admitters : Hands(q)'
  BY <1>2, <1>7
<1>10. QED
  BY <1>2, <1>8, <1>9 DEF LoopInv

\* The script popped a batch and no process knows of it.
LEMMA ReplyForgotten ==
    ASSUME LoopInv, NEW p \in Admitters, At(p, "calling"),
           NEW r \in Processes, r.now <= clock,
           r.batch = {}, r.left = {}, r.refused = {},
           admitter' = [admitter EXCEPT ![p] = r],
           RunScript(admitter[p].now),
           stranded' = stranded \cup Numbers(Reply(admitter[p].now)),
           UNCHANGED <<clock, passes, arrivals, recorded>>
    PROVE  LoopInv'
<1> DEFINE lost == Numbers(Reply(admitter[p].now))
<1>1. Ledger /\ Types /\ Lined
  BY DEF LoopInv
<1>2. /\ Types' /\ Lined' /\ Kept'
      /\ admitter'[p] = r
      /\ Held(p) = {}
      /\ \A q \in Admitters \ {p} : Hands(q)' /\ Held(q)' = Held(q)
      /\ \A q \in Admitters : \A w \in Held(q) : w.number <= admitted
      /\ admitted \in Nat /\ admitted' \in Nat /\ admitted <= admitted'
  BY <1>1, ScriptRan
<1>3. admitter[p].now \in Times
  BY <1>1 DEF Types, Processes
<1>4. lost = admitted + 1 .. admitted'
  BY <1>1, <1>3, ReplyFacts DEF Numbers
<1>5. Held(p)' = {} /\ Hands(p)'
  BY <1>2, HandsEmpty DEF Held
<1>6. \A k \in lost : k \in 1 .. admitted' /\ k > admitted
  BY <1>2, <1>4
<1>7. Ledger'
  <2>1. /\ recorded' \subseteq 1 .. admitted' /\ stranded' \subseteq 1 .. admitted'
        /\ recorded' \cap stranded' = {}
    <3>1. stranded' = stranded \cup lost /\ recorded' = recorded
      OBVIOUS
    <3>2. 1 .. admitted \subseteq 1 .. admitted' /\ \A k \in lost : k \notin 1 .. admitted
      BY <1>2, <1>6
    <3>3. QED
      BY <1>1, <1>6, <3>1, <3>2 DEF Ledger
  <2>2. ASSUME NEW k \in 1 .. admitted'
        PROVE  \/ k \in recorded' \cup stranded'
               \/ \E q \in Admitters : \E w \in Held(q)' : w.number = k
    <3>1. CASE k \in recorded \cup stranded \cup lost
      BY <3>1
    <3>2. CASE k \notin recorded \cup stranded \cup lost
      <4>1. k \in 1 .. admitted
        BY <1>2, <1>4, <3>2
      <4>2. PICK q \in Admitters : \E w \in Held(q) : w.number = k
        BY <1>1, <3>2, <4>1 DEF Ledger
      <4>3. QED
        BY <1>2, <4>2
    <3>3. QED
      BY <3>1, <3>2
  <2>3. ASSUME NEW q \in Admitters, NEW w \in Held(q)' PROVE w.number \notin stranded'
    <3>1. q # p /\ w \in Held(q) /\ w.number <= admitted
      BY <1>2, <1>5, <2>3
    <3>2. QED
      BY <1>1, <1>2, <1>6, <3>1 DEF Ledger
  <2>4. \A q, s \in Admitters : q # s =>
          \A w \in Held(q)', v \in Held(s)' : w.number # v.number
    BY <1>1, <1>2, <1>5 DEF Ledger
  <2>5. QED
    BY <2>1, <2>2, <2>3, <2>4 DEF Ledger
<1>8. \A q \in Admitters : Hands(q)'
  BY <1>2, <1>5
<1>9. QED
  BY <1>2, <1>7, <1>8 DEF LoopInv

-----------------------------------------------------------------------------
(* A pass is stored.                                                       *)

\* The expiry of a pass comes before the end of its key.
LEMMA ExpiryFirst ==
    ASSUME NEW now \in Nat, NEW c \in Nat, now <= c
    PROVE  /\ Expiry(now) \in Int
           /\ c + PassTTL * Second \in Int
           /\ Expiry(now) * Second <= c + PassTTL * Second
<1>1. Second \in Nat \ {0} /\ PassTTL \in Nat
  BY LoopAssumption
<1>2. PICK s \in Int : s = now \div Second /\ s * Second <= now
  BY <1>1, WholeTokens
<1>3. PassTTL * Second \in Int /\ (s + PassTTL) * Second = s * Second + PassTTL * Second
  BY <1>1
<1>4. s * Second \in Int
  BY <1>1
<1>5. Expiry(now) = s + PassTTL
  BY <1>2 DEF Expiry
<1>6. Expiry(now) * Second = s * Second + PassTTL * Second
  BY <1>3, <1>5
<1>7. s * Second + PassTTL * Second <= c + PassTTL * Second
  BY <1>2, <1>3, <1>4
<1>8. QED
  BY <1>1, <1>3, <1>5, <1>6, <1>7

LEMMA StorePassOK ==
    ASSUME LoopInv, NEW p \in Admitters, StorePass(p)
    PROVE  LoopInv'
<1>1. PICK w \in First(admitter[p].left) :
        /\ At(p, "recording")
        /\ passes' = [passes EXCEPT ![w.token] = PassOf(p, w)]
        /\ admitter' = [admitter EXCEPT ![p].left = @ \ {w}]
        /\ recorded' = recorded \cup {w.number}
        /\ UNCHANGED <<queueVars, clock, arrivals, stranded>>
  BY DEF StorePass
<1>2. /\ Types /\ Lined /\ Ledger /\ Kept /\ Hands(p)
      /\ UNCHANGED <<seq, admitted, queue>>
  BY <1>1 DEF LoopInv, queueVars
<1>3. /\ w \in admitter[p].left /\ w \in Held(p) /\ w \in Popped
      /\ \A v \in admitter[p].left : w.number <= v.number
      /\ \A v \in Held(p) : v.number \in Int
  BY <1>2 DEF First, Hands, Held, Types, Processes, Popped
<1>4. PICK r : r = [admitter[p] EXCEPT !.left = @ \ {w}]
  OBVIOUS
<1>5. /\ r \in Processes /\ r.now <= clock
      /\ r.at = "recording" /\ r.batch = Held(p) /\ r.left = admitter[p].left \ {w}
      /\ r.refused = admitter[p].refused
  BY <1>1, <1>2, <1>4 DEF Types, Processes, Held, At
<1>6. admitter' = [admitter EXCEPT ![p] = r]
  BY <1>1, <1>2, <1>4 DEF Types
<1>7. /\ Types'
      /\ admitter'[p] = r
      /\ \A q \in Admitters \ {p} : admitter'[q] = admitter[q]
  <2>1. TypeOK' /\ Dense'
    BY <1>1, <1>2, StutterOK DEF Types
  <2>2. DOMAIN passes' = Tokens
    BY <1>1, <1>2 DEF Types
  <2>3. QED
    BY <1>1, <1>2, <1>5, <1>6, <2>1, <2>2, ProcessMoves
<1>8. \A q \in Admitters : Held(q)' = Held(q)
  BY <1>5, <1>7 DEF Held
<1>9. Hands(p)'
  <2>1. \A v \in Held(p) \ (admitter[p].left \ {w}) :
          v.number \in recorded' \/ v \in admitter[p].refused
    BY <1>1, <1>2 DEF Hands
  <2>2. ASSUME NEW u \in Held(p), NEW v \in Held(p),
               u.number \in recorded', v.number \notin recorded', v \notin admitter[p].refused
        PROVE  u.number < v.number
    <3>1. v.number \notin recorded /\ v.number # w.number
      BY <1>1, <2>2
    <3>2. CASE u.number \in recorded
      BY <1>2, <2>2, <3>1, <3>2 DEF Hands
    <3>3. CASE u.number = w.number
      <4>1. v \in admitter[p].left
        BY <1>2, <2>2, <3>1 DEF Hands
      <4>2. QED
        BY <1>3, <3>1, <3>3, <4>1
    <3>4. QED
      BY <1>1, <2>2, <3>2, <3>3
  <2>3. /\ (admitter[p].left)' = admitter[p].left \ {w} /\ At(p, "recording")'
        /\ (admitter[p].refused)' = admitter[p].refused
    BY <1>5, <1>7 DEF At
  <2>4. \A v \in Held(p) : v.number <= admitted' /\ arrivals'[v.number] = v.token
    BY <1>1, <1>2 DEF Hands
  <2>5. \A u, v \in Held(p) : u.number = v.number => u = v
    BY <1>2 DEF Hands
  <2>6. admitter[p].left \subseteq Held(p) /\ admitter[p].refused \subseteq Held(p)
    BY <1>2 DEF Hands
  <2>7. QED
    BY <1>8, <2>1, <2>2, <2>3, <2>4, <2>5, <2>6 DEF Hands
<1>10. ASSUME NEW q \in Admitters, q # p PROVE Hands(q)'
  <2>1. \A v \in Held(q) : v.number # w.number
    BY <1>2, <1>3, <1>10 DEF Ledger
  <2>2. \A v \in Held(q) : v.number \in recorded' <=> v.number \in recorded
    BY <1>1, <2>1
  <2>3. admitted <= admitted' /\ admitted' \in Int
    BY <1>2 DEF Types, TypeOK
  <2>4. Hands(q)
    BY DEF LoopInv
  <2>5. QED
    BY <1>1, <1>2, <1>7, <1>10, <2>2, <2>3, <2>4, HandsKept
<1>11. Ledger'
  <2>1. w.number \in 1 .. admitted /\ w.number \notin stranded
    BY <1>2, <1>3 DEF Ledger, Hands, Popped, Types, TypeOK
  <2>2. QED
    BY <1>1, <1>2, <1>8, <2>1 DEF Ledger
<1>12. Lined'
  BY <1>1, <1>2 DEF Lined
<1>13. Kept'
  <2> SUFFICES ASSUME NEW t \in Tokens, passes'[t] # NoPass
               PROVE  /\ passes'[t] \in Keys
                      /\ passes'[t].number \in recorded'
                      /\ arrivals'[passes'[t].number] = t
                      /\ passes'[t].exp * Second <= passes'[t].until
    BY DEF Kept
  <2>1. CASE t = w.token
    <3>1. passes'[t] = PassOf(p, w)
      BY <1>1, <1>2, <2>1 DEF Types
    <3>2. w.number \in Nat /\ arrivals'[w.number] = t
      BY <1>1, <1>2, <1>3, <2>1 DEF Hands, Popped
    <3>3. admitter[p].now \in Nat /\ clock \in Nat /\ admitter[p].now <= clock
      BY <1>2, LoopAssumption DEF Types, Processes
    <3>4. PICK x \in Int, y \in Int :
            /\ x = Expiry(admitter[p].now) /\ y = clock + PassTTL * Second
            /\ x * Second <= y
      BY <3>3, ExpiryFirst
    <3>5. passes'[t] = [number |-> w.number, exp |-> x, until |-> y]
      BY <3>1, <3>4 DEF PassOf
    <3>6. QED
      BY <1>1, <3>2, <3>4, <3>5 DEF Keys
  <2>2. CASE t # w.token
    <3>1. passes'[t] = passes[t]
      BY <1>1, <1>2, <2>2 DEF Types
    <3>2. QED
      BY <1>1, <1>2, <3>1 DEF Kept
  <2>3. QED
    BY <2>1, <2>2
<1>14. \A q \in Admitters : Hands(q)'
  BY <1>9, <1>10
<1>15. QED
  BY <1>7, <1>11, <1>12, <1>13, <1>14 DEF LoopInv

-----------------------------------------------------------------------------
(* The other actions.                                                      *)

\* A process's record, with its fields.
LEMMA RecordOf ==
    ASSUME LoopInv, NEW p \in Admitters
    PROVE  /\ admitter[p] \in Processes
           /\ admitter[p].now \in Times /\ admitter[p].now <= clock
           /\ Held(p) \in SUBSET Popped /\ admitter[p].tries \in 0 .. MaxRetries
           /\ ~At(p, "recording") =>
                Held(p) = {} /\ admitter[p].left = {} /\ admitter[p].refused = {}
           /\ admitter[p].left \subseteq Held(p) /\ admitter[p].refused \subseteq Held(p)
           /\ clock \in Times /\ clock \in Nat /\ MaxRetries \in Nat
           /\ Types /\ Hands(p)
BY LoopAssumption DEF LoopInv, Types, Processes, Hands, Held

LEMMA StartTickOK ==
    ASSUME LoopInv, NEW p \in Admitters, StartTick(p)
    PROVE  LoopInv'
<1>1. PICK r : r = [Asleep EXCEPT !.at = "calling", !.now = clock]
  OBVIOUS
<1>2. /\ r \in Processes /\ r.now <= clock
      /\ r.at = "calling" /\ r.batch = {} /\ r.left = {} /\ r.refused = {}
  <2>1. clock \in Times /\ clock <= clock /\ MaxRetries \in Nat
    BY RecordOf
  <2>2. r = [at |-> "calling", now |-> clock, batch |-> {}, left |-> {}, refused |-> {},
             tries |-> 0]
    BY <1>1 DEF Asleep
  <2>3. QED
    BY <2>1, <2>2 DEF Processes
<1>3. Held(p) = {} /\ admitter[p].refused = {}
  BY RecordOf DEF StartTick, At
<1>4. QED
  BY <1>1, <1>2, <1>3, SameBatch DEF StartTick

LEMMA ScriptAnsweredOK ==
    ASSUME LoopInv, NEW p \in Admitters, ScriptAnswered(p)
    PROVE  LoopInv'
<1> DEFINE now   == admitter[p].now
           reply == Reply(now)
<1>1. PICK r : r = IF reply = {} THEN Asleep
                   ELSE [at |-> "recording", now |-> now, batch |-> reply,
                         left |-> reply, refused |-> {}, tries |-> 0]
  OBVIOUS
<1>2. /\ At(p, "calling") /\ RunScript(now)
      /\ admitter' = [admitter EXCEPT ![p] = r]
      /\ UNCHANGED <<clock, passes, history>>
  BY <1>1 DEF ScriptAnswered
<1>3. reply \subseteq Popped
  BY <1>2, RecordOf, ReplyFacts DEF LoopInv
<1>4. /\ r \in Processes /\ r.now <= clock
      /\ r.batch = reply /\ r.left = r.batch /\ r.refused = {}
      /\ r.at # "recording" => r.batch = {}
  <2>1. CASE reply = {}
    <3>1. r = Asleep /\ 0 <= clock
      BY <1>1, <2>1, RecordOf
    <3>2. QED
      BY <2>1, <3>1, AsleepIs
  <2>2. CASE reply # {}
    BY <1>1, <1>3, <2>2, RecordOf DEF Processes
  <2>3. QED
    BY <2>1, <2>2
<1>5. QED
  BY <1>1, <1>2, <1>4, ReplyTaken

\* A command that failed is repeated or given up: the process holds nothing.
LEMMA AgainIs ==
    ASSUME LoopInv, NEW p \in Admitters, At(p, "calling"), Again(p)
    PROVE  \E r \in Processes :
              /\ r.now <= clock /\ r.batch = {} /\ r.left = {} /\ r.refused = {}
              /\ r.at # "recording"
              /\ admitter' = [admitter EXCEPT ![p] = r]
<1>1. CASE admitter[p].tries < MaxRetries
  <2>1. PICK r : r = [admitter[p] EXCEPT !.tries = @ + 1]
    OBVIOUS
  <2>2. admitter' = [admitter EXCEPT ![p] = r]
    BY <1>1, <2>1 DEF Again
  <2>3. /\ r.now <= clock /\ r.batch = {} /\ r.left = {} /\ r.refused = {} /\ r.at = "calling"
        /\ r \in Processes
    BY <1>1, <2>1, RecordOf DEF At, Held, Processes
  <2>4. QED
    BY <2>2, <2>3
<1>2. CASE ~(admitter[p].tries < MaxRetries)
  <2>1. admitter' = [admitter EXCEPT ![p] = Asleep]
    BY <1>2 DEF Again
  <2>2. 0 <= clock
    BY RecordOf
  <2>3. QED
    BY <2>1, <2>2, AsleepIs
<1>3. QED
  BY <1>1, <1>2

LEMMA ScriptReplyLostOK ==
    ASSUME LoopInv, NEW p \in Admitters, ScriptReplyLost(p)
    PROVE  LoopInv'
<1>1. /\ At(p, "calling") /\ RunScript(admitter[p].now) /\ Again(p)
      /\ stranded' = stranded \cup Numbers(Reply(admitter[p].now))
      /\ UNCHANGED <<clock, passes, arrivals, recorded>>
  BY DEF ScriptReplyLost
<1>2. PICK r \in Processes :
        /\ r.now <= clock /\ r.batch = {} /\ r.left = {} /\ r.refused = {}
        /\ admitter' = [admitter EXCEPT ![p] = r]
  BY <1>1, AgainIs
<1>3. QED
  BY <1>1, <1>2, ReplyForgotten

LEMMA ScriptNotRunOK ==
    ASSUME LoopInv, NEW p \in Admitters, ScriptNotRun(p)
    PROVE  LoopInv'
<1>1. At(p, "calling") /\ UNCHANGED <<queueVars, clock, passes, history>>
  BY DEF ScriptNotRun
<1>2. PICK r \in Processes :
        /\ r.now <= clock /\ r.batch = {} /\ r.left = {} /\ r.refused = {} /\ r.at # "recording"
        /\ admitter' = [admitter EXCEPT ![p] = r]
  <2>1. CASE Again(p)
    BY <1>1, <2>1, AgainIs
  <2>2. CASE admitter' = [admitter EXCEPT ![p] = Asleep]
    <3>1. 0 <= clock
      BY RecordOf
    <3>2. QED
      BY <2>2, <3>1, AsleepIs
  <2>3. QED
    BY <2>1, <2>2 DEF ScriptNotRun
<1>3. Held(p) = {} /\ admitter[p].refused = {}
  BY <1>1, RecordOf DEF At
<1>4. QED
  BY <1>1, <1>2, <1>3, SameBatch

LEMMA FinishTickOK ==
    ASSUME LoopInv, NEW p \in Admitters, FinishTick(p)
    PROVE  LoopInv'
BY LetGo DEF FinishTick

\* A refused SET leaves the keys and the history alone.
LEMMA RefusePassOK ==
    ASSUME LoopInv, NEW p \in Admitters, RefusePass(p)
    PROVE  LoopInv'
<1>1. /\ Types /\ Lined /\ Ledger /\ Kept /\ Hands(p)
      /\ UNCHANGED <<queueVars, clock, passes, history>>
      /\ UNCHANGED <<seq, admitted, queue, arrivals, recorded, stranded>>
  BY DEF RefusePass, LoopInv, queueVars, history
<1>2. PICK w \in admitter[p].left :
        /\ At(p, "recording")
        /\ admitter' = [admitter EXCEPT ![p].left = admitter[p].left \ {w},
                                       ![p].refused = admitter[p].refused \cup {w}]
  BY DEF RefusePass, First
<1>3. PICK r : r = [admitter[p] EXCEPT !.left = admitter[p].left \ {w},
                                       !.refused = admitter[p].refused \cup {w}]
  OBVIOUS
<1>4. /\ r \in Processes /\ r.now <= clock
      /\ r.at = "recording" /\ r.batch = Held(p) /\ r.left = admitter[p].left \ {w}
      /\ r.refused = admitter[p].refused \cup {w}
  BY <1>1, <1>2, <1>3 DEF Types, Processes, Held, At
<1>5. admitter' = [admitter EXCEPT ![p] = r]
  BY <1>1, <1>2, <1>3 DEF Types
<1>6. /\ Types'
      /\ admitter'[p] = r
      /\ \A q \in Admitters \ {p} : admitter'[q] = admitter[q]
  BY <1>1, <1>4, <1>5, ProcessMoves, StutterOK DEF Types
<1>7. \A q \in Admitters : Held(q)' = Held(q)
  BY <1>4, <1>6 DEF Held
<1>8. Hands(p)'
  <2>1. /\ (admitter[p].left)' = admitter[p].left \ {w} /\ At(p, "recording")'
        /\ (admitter[p].refused)' = admitter[p].refused \cup {w}
        /\ w \in Held(p)
    BY <1>1, <1>2, <1>4, <1>6 DEF At, Hands
  <2>2. QED
    BY <1>1, <1>7, <2>1 DEF Hands
<1>9. ASSUME NEW q \in Admitters, q # p PROVE Hands(q)'
  BY <1>1, <1>6, <1>9, HandsKept DEF LoopInv, Types, TypeOK
<1>10. Ledger' /\ Lined' /\ Kept'
  BY <1>1, <1>7 DEF Ledger, Lined, Kept
<1>11. QED
  BY <1>6, <1>8, <1>9, <1>10 DEF LoopInv

LEMMA PipelineFailsOK ==
    ASSUME LoopInv, NEW p \in Admitters, PipelineFails(p)
    PROVE  LoopInv'
<1>1. CASE admitter[p].tries < MaxRetries
  <2>1. PICK r : r = [admitter[p] EXCEPT !.left = admitter[p].batch, !.tries = @ + 1]
    OBVIOUS
  <2>2. admitter' = [admitter EXCEPT ![p] = r]
    BY <1>1, <2>1 DEF PipelineFails
  <2>3. /\ r \in Processes /\ r.now <= clock
        /\ r.at = "recording" /\ r.batch = Held(p) /\ r.left = r.batch
        /\ r.refused = admitter[p].refused
    <3>1. At(p, "recording") /\ Held(p) \in SUBSET Popped
      BY RecordOf DEF PipelineFails
    <3>2. admitter[p].tries + 1 \in 0 .. MaxRetries
      BY <1>1, RecordOf
    <3>3. admitter[p] \in Processes /\ admitter[p].now <= clock
      BY RecordOf
    <3>4. QED
      BY <2>1, <3>1, <3>2, <3>3 DEF At, Held, Processes
  <2>4. UNCHANGED <<queueVars, clock, passes, history>>
    BY <1>1 DEF PipelineFails, history
  <2>5. QED
    BY <2>2, <2>3, <2>4, SameBatch
<1>2. CASE ~(admitter[p].tries < MaxRetries)
  BY <1>2, LetGo DEF PipelineFails
<1>3. QED
  BY <1>1, <1>2

LEMMA DieOK ==
    ASSUME LoopInv, NEW p \in Admitters, Die(p)
    PROVE  LoopInv'
BY LetGo DEF Die

\* Neither the passage of time nor a new configuration touches a batch.
LEMMA NobodyMoves ==
    ASSUME LoopInv, TypeOK', Dense', clock' \in Times, clock <= clock',
           UNCHANGED <<queue, seq, admitted, admitter, passes, history>>
    PROVE  LoopInv'
<1>1. /\ Types /\ Lined /\ Ledger /\ Kept
      /\ UNCHANGED <<arrivals, recorded, stranded>>
  BY DEF LoopInv, history
<1>2. Types'
  <2>1. \A p \in Admitters : admitter[p].now \in Nat /\ admitter[p].now <= clock
    BY RecordOf, LoopAssumption
  <2>2. clock \in Nat /\ clock' \in Nat
    BY <1>1, LoopAssumption DEF Types
  <2>3. \A p \in Admitters : admitter[p].now <= clock'
    BY <2>1, <2>2
  <2>4. QED
    BY <1>1, <2>3 DEF Types
<1>3. \A p \in Admitters : Hands(p)'
  BY <1>1 DEF LoopInv, Hands, Held, At
<1>4. Lined' /\ Ledger' /\ Kept'
  BY <1>1 DEF Lined, Ledger, Kept, Held
<1>5. QED
  BY <1>2, <1>3, <1>4 DEF LoopInv

LEMMA TickOK ==
    ASSUME LoopInv, Tick
    PROVE  LoopInv'
<1>1. TypeOK' /\ Dense' /\ UNCHANGED <<queue, seq, admitted>>
  BY StutterOK DEF Tick, LoopInv, Types, queueVars
<1>2. clock' \in Times /\ clock <= clock'
  BY LoopAssumption DEF Tick, LoopInv, Types
<1>3. QED
  BY <1>1, <1>2, NobodyMoves DEF Tick

LEMMA ReconfigureOK ==
    ASSUME LoopInv, NEW c \in Configs, Reconfigure(c)
    PROVE  LoopInv'
<1>1. TypeOK' /\ Dense' /\ UNCHANGED <<queue, seq, admitted>>
  BY PutConfigOK DEF Reconfigure, PutConfig, LoopInv, Types
<1>2. clock' \in Times /\ clock <= clock'
  BY LoopAssumption DEF Reconfigure, LoopInv, Types
<1>3. QED
  BY <1>1, <1>2, NobodyMoves DEF Reconfigure

LEMMA LoopStutterOK ==
    ASSUME LoopInv, UNCHANGED loopVars
    PROVE  LoopInv'
<1>1. TypeOK' /\ Dense' /\ UNCHANGED <<queue, seq, admitted>>
  BY StutterOK DEF loopVars, LoopInv, Types, queueVars
<1>2. clock' \in Times /\ clock <= clock'
  BY LoopAssumption DEF loopVars, LoopInv, Types
<1>3. QED
  BY <1>1, <1>2, NobodyMoves DEF loopVars

-----------------------------------------------------------------------------
(* What a step does to the invariant, the batches, the passes and the       *)
(* history.                                                                *)

LEMMA LoopNextKeeps ==
    ASSUME LoopInv, [LoopNext]_loopVars
    PROVE  LoopInv'
<1>1. ASSUME NEW t \in Tokens, JoinQueue(t) PROVE LoopInv'
  BY <1>1, JoinQueueOK
<1>2. ASSUME NEW p \in Admitters, Work(p) PROVE LoopInv'
  BY <1>2, StartTickOK, ScriptAnsweredOK, StorePassOK, FinishTickOK DEF Work
<1>3. ASSUME NEW p \in Admitters, Fail(p) PROVE LoopInv'
  BY <1>3, ScriptReplyLostOK, ScriptNotRunOK, RefusePassOK, PipelineFailsOK, DieOK DEF Fail
<1>4. CASE Tick
  BY <1>4, TickOK
<1>5. ASSUME NEW c \in Configs, Reconfigure(c) PROVE LoopInv'
  BY <1>5, ReconfigureOK
<1>6. CASE UNCHANGED loopVars
  BY <1>6, LoopStutterOK
<1>7. QED
  BY <1>1, <1>2, <1>3, <1>4, <1>5, <1>6 DEF LoopNext

\* A record replaces that of one process; the others keep theirs.
LEMMA RecordReplaced ==
    ASSUME LoopInv, NEW p \in Admitters, NEW r, admitter' = [admitter EXCEPT ![p] = r]
    PROVE  /\ admitter'[p] = r
           /\ \A q \in Admitters \ {p} : admitter'[q] = admitter[q]
BY DEF LoopInv, Types

\* What a process may have in hand after a step: nothing, what it had before
\* from the same tick, or the numbers that have just been called, all of them.
Handed(p) ==
    \/ Held(p)' = {}
    \/ Held(p)' = Held(p) /\ admitter'[p].now = admitter[p].now
    \/ /\ \A w \in Held(p)' : admitted < w.number /\ w.number <= admitted'
       /\ \A k \in admitted + 1 .. admitted' : \E w \in Held(p)' : w.number = k
       /\ \A w, v \in Held(p)' : w.token = v.token => w = v

LEMMA SameRecordHanded ==
    ASSUME NEW p \in Admitters, admitter'[p] = admitter[p]
    PROVE  Handed(p)
BY DEF Handed, Held

LEMMA AgainHands ==
    ASSUME LoopInv, NEW p \in Admitters, At(p, "calling"), Again(p), NEW q \in Admitters
    PROVE  Handed(q)
<1>1. PICK r : r.batch = {} /\ admitter' = [admitter EXCEPT ![p] = r]
  BY AgainIs
<1>2. QED
  BY <1>1, RecordReplaced, SameRecordHanded DEF Handed, Held

LEMMA ReplyTokens ==
    ASSUME LoopInv, NEW now \in Times, RunScript(now)
    PROVE  /\ \A w \in Reply(now) : admitted < w.number /\ w.number <= admitted'
           /\ \A k \in admitted + 1 .. admitted' : \E w \in Reply(now) : w.number = k
           /\ \A w, v \in Reply(now) : w.token = v.token => w = v
           /\ admitted \in Nat /\ admitted' \in Nat /\ admitted <= admitted'
<1>1. /\ \A w \in Reply(now) : w.number \in admitted + 1 .. admitted'
      /\ \A k \in admitted + 1 .. admitted' : \E w \in Reply(now) : w.number = k
  BY ReplyFacts DEF LoopInv
<1>2. admitted \in Nat /\ admitted' \in Nat /\ admitted <= admitted'
  BY ReplyFacts DEF LoopInv, Types, TypeOK
<1>3. \A w, v \in Reply(now) : w.token = v.token => w = v
  BY DEF Reply
<1>4. QED
  BY <1>1, <1>2, <1>3

LEMMA BatchesMove ==
    ASSUME LoopInv, [LoopNext]_loopVars, NEW q \in Admitters
    PROVE  Handed(q)
<1>1. ASSUME UNCHANGED admitter PROVE Handed(q)
  BY <1>1, SameRecordHanded
<1>2. ASSUME NEW p \in Admitters, Work(p) PROVE Handed(q)
  <2>1. CASE StartTick(p)
    <3>1. PICK r : r = [Asleep EXCEPT !.at = "calling", !.now = clock]
      OBVIOUS
    <3>2. r.batch = {} /\ admitter' = [admitter EXCEPT ![p] = r]
      BY <2>1, <3>1 DEF StartTick, Asleep
    <3>3. QED
      BY <3>2, RecordReplaced, SameRecordHanded DEF Handed, Held
  <2>2. CASE ScriptAnswered(p)
    <3> DEFINE now == admitter[p].now
    <3>1. PICK r : r = IF Reply(now) = {} THEN Asleep
                       ELSE [at |-> "recording", now |-> now, batch |-> Reply(now),
                             left |-> Reply(now), refused |-> {}, tries |-> 0]
      OBVIOUS
    <3>2. r.batch = Reply(now)
      BY <3>1 DEF Asleep
    <3>3. admitter' = [admitter EXCEPT ![p] = r] /\ RunScript(now)
      BY <2>2, <3>1 DEF ScriptAnswered
    <3>4. now \in Times
      BY RecordOf
    <3>5. QED
      BY <3>2, <3>3, <3>4, ReplyTokens, RecordReplaced, SameRecordHanded DEF Handed, Held
  <2>3. CASE StorePass(p)
    <3>1. PICK w : admitter' = [admitter EXCEPT ![p].left = admitter[p].left \ {w}]
      BY <2>3 DEF StorePass
    <3>2. QED
      BY <3>1 DEF Handed, Held, LoopInv, Types, Processes
  <2>4. CASE FinishTick(p)
    BY <2>4, RecordReplaced, SameRecordHanded DEF FinishTick, Asleep, Handed, Held
  <2>5. QED
    BY <1>2, <2>1, <2>2, <2>3, <2>4 DEF Work
<1>3. ASSUME NEW p \in Admitters, Fail(p) PROVE Handed(q)
  <2>1. CASE ScriptReplyLost(p) \/ (ScriptNotRun(p) /\ Again(p))
    BY <2>1, AgainHands DEF ScriptReplyLost, ScriptNotRun
  <2>2. CASE PipelineFails(p)
    <3>1. CASE admitter[p].tries < MaxRetries
      BY <2>2, <3>1 DEF PipelineFails, Handed, Held, LoopInv, Types, Processes
    <3>2. CASE ~(admitter[p].tries < MaxRetries)
      BY <2>2, <3>2, RecordReplaced, SameRecordHanded
         DEF PipelineFails, Asleep, Handed, Held
    <3>3. QED
      BY <3>1, <3>2
  <2>3. CASE Die(p) \/ admitter' = [admitter EXCEPT ![p] = Asleep]
    BY <2>3, RecordReplaced, SameRecordHanded DEF Die, Asleep, Handed, Held
  <2>4. CASE RefusePass(p)
    <3>1. PICK w : admitter' = [admitter EXCEPT ![p].left = admitter[p].left \ {w},
                                              ![p].refused = admitter[p].refused \cup {w}]
      BY <2>4 DEF RefusePass
    <3>2. QED
      BY <3>1 DEF Handed, Held, LoopInv, Types, Processes
  <2>5. QED
    BY <1>3, <2>1, <2>2, <2>3, <2>4 DEF Fail, ScriptNotRun
<1>4. QED
  BY <1>1, <1>2, <1>3 DEF LoopNext, loopVars, JoinQueue, Tick, Reconfigure

\* A key changes only when a process stores the pass of a waiter in its hand.
Stored(p, w) ==
    /\ w \in Held(p)
    /\ passes' = [passes EXCEPT ![w.token] = PassOf(p, w)]
    /\ Held(p)' = Held(p)
    /\ w.number \in recorded'

LEMMA PassesMove ==
    ASSUME LoopInv, [LoopNext]_loopVars
    PROVE  UNCHANGED passes \/ \E p \in Admitters : \E w \in Held(p) : Stored(p, w)
<1>1. ASSUME NEW p \in Admitters, StorePass(p)
      PROVE  \E w \in Held(p) : Stored(p, w)
  <2>1. PICK w \in First(admitter[p].left) :
           /\ passes' = [passes EXCEPT ![w.token] = PassOf(p, w)]
           /\ admitter' = [admitter EXCEPT ![p].left = admitter[p].left \ {w}]
           /\ recorded' = recorded \cup {w.number}
    BY <1>1 DEF StorePass
  <2>2. w \in Held(p)
    BY RecordOf DEF First
  <2>3. Held(p)' = Held(p)
    BY <2>1 DEF Held, LoopInv, Types, Processes
  <2>4. QED
    BY <2>1, <2>2, <2>3 DEF Stored
<1>2. ASSUME NEW p \in Admitters, Work(p), ~StorePass(p) PROVE UNCHANGED passes
  BY <1>2 DEF Work, StartTick, ScriptAnswered, FinishTick
<1>3. ASSUME NEW p \in Admitters, Fail(p) PROVE UNCHANGED passes
  BY <1>3 DEF Fail, ScriptReplyLost, ScriptNotRun, RefusePass, PipelineFails, Die
<1>4. QED
  BY <1>1, <1>2, <1>3 DEF LoopNext, loopVars, JoinQueue, Tick, Reconfigure

\* The counter and the history only grow.
LEMMA HistoryGrows ==
    ASSUME LoopInv, [LoopNext]_loopVars
    PROVE  /\ recorded \subseteq recorded'
           /\ \A k \in 1 .. seq : arrivals'[k] = arrivals[k]
           /\ admitted \in Nat /\ admitted' \in Nat /\ admitted <= admitted'
<1> DEFINE Grown == /\ recorded \subseteq recorded'
                    /\ \A k \in 1 .. seq : arrivals'[k] = arrivals[k]
                    /\ admitted <= admitted'
<1>1. LoopInv' /\ admitted \in Nat /\ admitted' \in Nat
  BY LoopNextKeeps DEF LoopInv, Types, TypeOK
<1>2. ASSUME UNCHANGED <<recorded, arrivals, admitted>> PROVE Grown
  BY <1>1, <1>2
<1>3. ASSUME NEW p \in Admitters, RunScript(admitter[p].now), UNCHANGED <<recorded, arrivals>>
      PROVE  Grown
  BY <1>1, <1>3, RecordOf, ReplyTokens
<1>4. ASSUME NEW t \in Tokens, JoinQueue(t) PROVE Grown
  <2>1. UNCHANGED <<recorded, admitted>>
    BY <1>4 DEF JoinQueue, Join
  <2>2. arrivals \in Seq(Tokens) /\ Len(arrivals) = seq /\ seq \in Nat
    BY DEF LoopInv, Types, TypeOK
  <2>3. arrivals' = arrivals \/ arrivals' = Append(arrivals, t)
    BY <1>4 DEF JoinQueue
  <2>4. \A k \in 1 .. seq : arrivals'[k] = arrivals[k]
    BY <2>2, <2>3
  <2>5. QED
    BY <1>1, <2>1, <2>4
<1>5. ASSUME NEW p \in Admitters, StorePass(p) PROVE Grown
  <2>1. recorded \subseteq recorded' /\ UNCHANGED <<arrivals, admitted>>
    BY <1>5 DEF StorePass, queueVars
  <2>2. QED
    BY <1>1, <2>1
<1>6. ASSUME NEW p \in Admitters, Work(p) PROVE Grown
  BY <1>2, <1>3, <1>5, <1>6
     DEF Work, StartTick, ScriptAnswered, FinishTick, queueVars, history
<1>7. ASSUME NEW p \in Admitters, Fail(p) PROVE Grown
  <2>1. CASE ScriptReplyLost(p)
    BY <1>3, <2>1 DEF ScriptReplyLost
  <2>2. CASE ScriptNotRun(p) \/ RefusePass(p) \/ PipelineFails(p) \/ Die(p)
    BY <1>2, <2>2 DEF ScriptNotRun, RefusePass, PipelineFails, Die, queueVars, history
  <2>3. QED
    BY <1>7, <2>1, <2>2 DEF Fail
<1>8. ASSUME UNCHANGED <<queueVars, history>> PROVE Grown
  BY <1>2, <1>8 DEF queueVars, history
<1>9. CASE Tick \/ UNCHANGED loopVars
  <2>1. UNCHANGED <<queueVars, history>>
    BY <1>9 DEF Tick, loopVars
  <2>2. QED
    BY <1>1, <1>8, <2>1
<1>10. ASSUME NEW c \in Configs, Reconfigure(c) PROVE Grown
  BY <1>2, <1>10 DEF Reconfigure, PutConfig, history
<1>11. QED
  BY <1>1, <1>4, <1>6, <1>7, <1>9, <1>10 DEF LoopNext

\* A join leaves its token in the queue, with a number of its own if it is new.
LEMMA JoinMoves ==
    ASSUME LoopInv, NEW t \in Tokens, JoinQueue(t)
    PROVE  /\ seq \in Nat /\ seq' \in Nat /\ seq <= seq'
           /\ t \in DOMAIN queue'
           /\ \A u \in DOMAIN queue' :
                \/ u \in DOMAIN queue /\ queue'[u] = queue[u]
                \/ u = t /\ u \notin DOMAIN queue /\ queue'[u] = seq + 1
<1>1. seq \in Nat
  BY DEF LoopInv, Types, TypeOK
<1>2. CASE Queued(t)
  BY <1>1, <1>2 DEF JoinQueue, Join, Queued
<1>3. CASE ~Queued(t)
  <2>1. /\ seq' = seq + 1 /\ t \notin DOMAIN queue
        /\ queue' = [u \in DOMAIN queue \cup {t} |-> IF u = t THEN seq + 1 ELSE queue[u]]
    BY <1>3 DEF JoinQueue, Join, Enqueue, Queued
  <2>2. ASSUME NEW u \in DOMAIN queue'
        PROVE  \/ u \in DOMAIN queue /\ queue'[u] = queue[u]
               \/ u = t /\ u \notin DOMAIN queue /\ queue'[u] = seq + 1
    BY <2>1
  <2>3. t \in DOMAIN queue'
    BY <2>1
  <2>4. QED
    BY <1>1, <2>1, <2>2, <2>3
<1>4. QED
  BY <1>2, <1>3

\* Nothing but a join lets anybody into the queue.
LEMMA QueueShrinks ==
    ASSUME LoopInv,
           \/ \E p \in Admitters : Work(p) \/ Fail(p)
           \/ Tick
           \/ \E c \in Configs : Reconfigure(c)
           \/ UNCHANGED loopVars
    PROVE  /\ seq' = seq
           /\ \A t \in DOMAIN queue' : t \in DOMAIN queue /\ queue'[t] = queue[t]
<1> DEFINE Shrinks == /\ seq' = seq
                      /\ \A t \in DOMAIN queue' : t \in DOMAIN queue /\ queue'[t] = queue[t]
<1>1. ASSUME UNCHANGED <<queue, seq>> PROVE Shrinks
  BY <1>1
<1>2. ASSUME NEW p \in Admitters, RunScript(admitter[p].now) PROVE Shrinks
  BY <1>2, RecordOf, ReplyFacts DEF LoopInv
<1>3. ASSUME NEW p \in Admitters, Work(p) PROVE Shrinks
  BY <1>1, <1>2, <1>3 DEF Work, StartTick, ScriptAnswered, StorePass, FinishTick, queueVars
<1>4. ASSUME NEW p \in Admitters, Fail(p) PROVE Shrinks
  <2>1. CASE ScriptReplyLost(p)
    BY <1>2, <2>1 DEF ScriptReplyLost
  <2>2. CASE ScriptNotRun(p) \/ RefusePass(p) \/ PipelineFails(p) \/ Die(p)
    BY <1>1, <2>2 DEF ScriptNotRun, RefusePass, PipelineFails, Die, queueVars
  <2>3. QED
    BY <1>4, <2>1, <2>2 DEF Fail
<1>5. CASE Tick \/ UNCHANGED loopVars
  BY <1>1, <1>5 DEF Tick, loopVars, queueVars
<1>6. ASSUME NEW c \in Configs, Reconfigure(c) PROVE Shrinks
  BY <1>1, <1>6 DEF Reconfigure, PutConfig
<1>7. QED
  BY <1>3, <1>4, <1>5, <1>6

\* Who is in the queue was there with the same number, or has a new one.
LEMMA QueueMoves ==
    ASSUME LoopInv, [LoopNext]_loopVars
    PROVE  /\ seq \in Nat /\ seq' \in Nat /\ seq <= seq'
           /\ \A t \in DOMAIN queue' :
                \/ t \in DOMAIN queue /\ queue'[t] = queue[t]
                \/ queue'[t] = seq + 1
<1>1. LoopInv' /\ seq \in Nat /\ seq' \in Nat
  BY LoopNextKeeps DEF LoopInv, Types, TypeOK
<1>2. CASE \E t \in Tokens : JoinQueue(t)
  BY <1>2, JoinMoves
<1>3. CASE ~(\E t \in Tokens : JoinQueue(t))
  <2>1. /\ seq' = seq
        /\ \A t \in DOMAIN queue' : t \in DOMAIN queue /\ queue'[t] = queue[t]
    BY <1>3, QueueShrinks DEF LoopNext
  <2>2. QED
    BY <1>1, <2>1
<1>4. QED
  BY <1>2, <1>3

-----------------------------------------------------------------------------
(* The theorems.                                                           *)

\* Whatever the processes, however many repetitions, wherever one of them
\* fails: the ledger of admitted numbers stays balanced.
THEOREM LoopInvariant == LoopSpec => []LoopInv
<1>1. LoopInit => LoopInv
  BY LoopInitOK
<1>2. LoopInv /\ [LoopNext]_loopVars => LoopInv'
  BY LoopNextKeeps
<1>3. QED
  BY <1>1, <1>2, PTL DEF LoopSpec

\* The types of the loop, and every stored pass is kept under the token of
\* the waiter who was given its number.
THEOREM LoopTypes == LoopSpec => []LoopTypeOK
<1>1. LoopInv => LoopTypeOK
  <2> SUFFICES ASSUME LoopInv PROVE LoopTypeOK
    OBVIOUS
  <2>1. \A p \in Admitters :
          /\ admitter[p].at \in {"asleep", "calling", "recording"}
          /\ admitter[p].now \in 0 .. clock
          /\ admitter[p].left \subseteq admitter[p].batch
          /\ admitter[p].refused \subseteq admitter[p].batch
          /\ admitter[p].batch \subseteq Popped
          /\ admitter[p].tries \in 0 .. MaxRetries
    <3> TAKE p \in Admitters
    <3>1. admitter[p].now \in Nat /\ admitter[p].now <= clock /\ clock \in Nat
      BY RecordOf, LoopAssumption
    <3>2. admitter[p].at \in {"asleep", "calling", "recording"}
      BY RecordOf DEF Processes
    <3>3. /\ admitter[p].left \subseteq Held(p) /\ admitter[p].refused \subseteq Held(p)
          /\ Held(p) \subseteq Popped
      BY RecordOf
    <3>4. admitter[p].tries \in 0 .. MaxRetries
      BY RecordOf
    <3>5. QED
      BY <3>1, <3>2, <3>3, <3>4 DEF Held
  <2>2. QED
    BY <2>1 DEF LoopInv, LoopTypeOK, Types, Kept
<1>2. QED
  BY <1>1, LoopInvariant, PTL

LEMMA AccountedFor == LoopInv => EveryAdmissionAccountedFor
<1> SUFFICES ASSUME LoopInv PROVE EveryAdmissionAccountedFor
  OBVIOUS
<1>1. Ledger /\ admitted \in Nat
  BY DEF LoopInv, Types, TypeOK
<1>2. ASSUME NEW p \in Admitters, NEW w \in Held(p)
      PROVE  w.number \in 1 .. admitted /\ (w.number \in recorded \/ w.number \in Owed(p))
  <2>1. Hands(p) /\ w \in Popped
    BY RecordOf
  <2>2. w.number \in 1 .. admitted
    BY <1>1, <2>1 DEF Hands, Popped
  <2>3. w.number \in recorded \/ w.number \in Owed(p)
    BY DEF Owed, Numbers, Held
  <2>4. QED
    BY <2>2, <2>3
<1>3. ASSUME NEW p \in Admitters, NEW k \in Owed(p)
      PROVE  \E w \in Held(p) : w.number = k
  BY DEF Owed, Numbers, Held
<1>4. 1 .. admitted = recorded \cup stranded \cup InFlight
  <2>1. recorded \cup stranded \subseteq 1 .. admitted
    BY <1>1 DEF Ledger
  <2>2. InFlight \subseteq 1 .. admitted
    BY <1>2, <1>3 DEF InFlight
  <2>3. ASSUME NEW k \in 1 .. admitted, k \notin recorded \cup stranded
        PROVE  k \in InFlight
    <3>1. PICK p \in Admitters : \E w \in Held(p) : w.number = k
      BY <1>1, <2>3 DEF Ledger
    <3>2. k \in Owed(p)
      BY <1>2, <2>3, <3>1
    <3>3. QED
      BY <3>2 DEF InFlight
  <2>4. QED
    BY <2>1, <2>2, <2>3
<1>5. recorded \cap stranded = {} /\ InFlight \cap stranded = {}
  BY <1>1, <1>3 DEF Ledger, InFlight
<1>6. \A p, q \in Admitters :
        p # q => Numbers(admitter[p].batch) \cap Numbers(admitter[q].batch) = {}
  BY <1>1 DEF Ledger, Numbers, Held
<1>7. QED
  BY <1>4, <1>5, <1>6 DEF EveryAdmissionAccountedFor

\* Every number the admitted counter has passed is accounted for once: a
\* pass was stored for it, one process owes it, or a failure stranded it.
THEOREM AdmissionsAccountedFor == LoopSpec => []EveryAdmissionAccountedFor
BY AccountedFor, LoopInvariant, PTL

\* Whoever arrived first can collect his pass first, within a batch, however
\* often the pipeline that stores it is repeated, unless his SET was refused.
THEOREM BatchesStoredInOrder == LoopSpec => []PassesInBatchOrder
<1>1. LoopInv => PassesInBatchOrder
  BY RecordOf DEF PassesInBatchOrder, Hands, Held, Owed
<1>2. QED
  BY <1>1, LoopInvariant, PTL

\* No pass that is still valid is dropped from its key, however late in its
\* tick the process stored it.
THEOREM PassesKeptWhileValid == LoopSpec => []KeyCoversPass
<1>1. LoopInv => KeyCoversPass
  BY DEF LoopInv, Kept, KeyCoversPass
<1>2. QED
  BY <1>1, LoopInvariant, PTL

-----------------------------------------------------------------------------
(* Passes that are put back, with any number of admitters.                 *)

\* The tokens of a batch are distinct, and it has no gaps.
Whole(p) ==
    /\ \A w, v \in Held(p) : w.token = v.token => w = v
    /\ \A w, v \in Held(p) : \A k \in w.number .. v.number :
         \E u \in Held(p) : u.number = k

LEMMA WholeKept ==
    ASSUME LoopInv, [LoopNext]_loopVars, NEW p \in Admitters, Whole(p)
    PROVE  Whole(p)'
<1>1. CASE Held(p)' = {} \/ Held(p)' = Held(p)
  BY <1>1 DEF Whole
<1>2. CASE /\ \A w \in Held(p)' : admitted < w.number /\ w.number <= admitted'
           /\ \A k \in admitted + 1 .. admitted' : \E w \in Held(p)' : w.number = k
           /\ \A w, v \in Held(p)' : w.token = v.token => w = v
  <2>1. admitted \in Nat /\ admitted' \in Nat /\ \A w \in Held(p)' : w.number \in Int
    <3>1. LoopInv'
      BY LoopNextKeeps
    <3>2. Held(p)' \subseteq Popped
      BY <3>1 DEF LoopInv, Types, Processes, Held
    <3>3. QED
      BY <3>1, <3>2 DEF LoopInv, Types, TypeOK, Popped
  <2>2. ASSUME NEW w \in Held(p)', NEW v \in Held(p)', NEW k \in w.number .. v.number
        PROVE  k \in admitted + 1 .. admitted'
    BY <1>2, <2>1
  <2>3. QED
    BY <1>2, <2>2 DEF Whole
<1>3. QED
  BY <1>1, <1>2, BatchesMove DEF Handed

\* A key holds no pass of a number within a batch but the one that the batch
\* has for its token.
LEMMA BeforeOrAfter ==
    ASSUME LoopInv, NEW p \in Admitters, Whole(p), NEW w \in Held(p),
           passes[w.token] # NoPass, w.number < passes[w.token].number, NEW v \in Held(p)
    PROVE  v.number < passes[w.token].number
<1>1. /\ Hands(p) /\ w \in Popped /\ v \in Popped
      /\ w.token \in Tokens /\ w.number \in Int /\ v.number \in Int
  BY RecordOf DEF Popped
<1>2. PICK n : n = passes[w.token].number /\ n \in Int /\ arrivals[n] = w.token
  BY <1>1 DEF LoopInv, Kept, Keys
<1>3. CASE n <= v.number
  <2>1. PICK u \in Held(p) : u.number = n
    BY <1>1, <1>2, <1>3 DEF Whole
  <2>2. u.token = w.token
    BY <1>1, <1>2, <2>1 DEF Hands
  <2>3. QED
    BY <1>1, <1>2, <2>1, <2>2 DEF Whole
<1>4. QED
  BY <1>1, <1>2, <1>3

\* Whatever fails, however many processes there are and however often a
\* pipeline is repeated: a pass gives way to that of an earlier stay only if
\* it is later than the whole batch which that one is stored from.
THEOREM OnlyOvertakenPutBack == LoopSpec => OnlyOlderBatchesPutBack
<1>1. LoopInit => \A p \in Admitters : Whole(p)
  BY AsleepIs DEF LoopInit, Whole, Held
<1>2. LoopInv /\ (\A p \in Admitters : Whole(p)) /\ [LoopNext]_loopVars
        => (\A p \in Admitters : Whole(p))'
  BY WholeKept
<1>3. LoopInv /\ (\A p \in Admitters : Whole(p)) /\ [LoopNext]_loopVars
        => [\A t \in Tokens : passes[t] # NoPass =>
              /\ passes'[t] # NoPass
              /\ passes'[t].number < passes[t].number =>
                   \A p \in Admitters :
                       passes'[t].number \in Numbers(admitter[p].batch) =>
                           \A k \in Numbers(admitter[p].batch) :
                               k < passes[t].number]_passes
  <2> SUFFICES ASSUME LoopInv, \A p \in Admitters : Whole(p), [LoopNext]_loopVars,
                      passes' # passes, NEW t \in Tokens, passes[t] # NoPass
               PROVE  /\ passes'[t] # NoPass
                      /\ passes'[t].number < passes[t].number =>
                           \A p \in Admitters :
                               passes'[t].number \in Numbers(admitter[p].batch) =>
                                   \A k \in Numbers(admitter[p].batch) :
                                       k < passes[t].number
    OBVIOUS
  <2>1. passes[t].number \in Int /\ DOMAIN passes = Tokens
    BY DEF LoopInv, Kept, Keys, Types
  <2>2. PICK q \in Admitters : \E w \in Held(q) : Stored(q, w)
    BY PassesMove
  <2>3. PICK w \in Held(q) : Stored(q, w)
    BY <2>2
  <2>4. passes' = [passes EXCEPT ![w.token] = PassOf(q, w)]
    BY <2>3 DEF Stored
  <2>5. CASE t # w.token
    BY <2>1, <2>4, <2>5
  <2>6. CASE t = w.token
    <3>1. passes'[t] = PassOf(q, w) /\ passes'[t].number = w.number
      BY <2>1, <2>4, <2>6 DEF PassOf
    <3>2. passes'[t] # NoPass
      <4>1. w \in Popped /\ clock \in Nat /\ admitter[q].now \in Times
            /\ admitter[q].now <= clock
        BY RecordOf DEF Popped
      <4>2. admitter[q].now \in Nat /\ NoPass \notin Keys
        BY <4>1, LoopAssumption
      <4>3. Expiry(admitter[q].now) \in Int /\ clock + PassTTL * Second \in Int
        BY <4>1, <4>2, ExpiryFirst
      <4>4. w.number \in Nat
        BY <4>1 DEF Popped
      <4>5. PassOf(q, w) \in Keys
        BY <4>3, <4>4 DEF PassOf, Keys
      <4>6. QED
        BY <3>1, <4>2, <4>5
    <3>3. ASSUME w.number < passes[t].number, NEW p \in Admitters, NEW v \in Held(p),
                 v.number = w.number, NEW u \in Held(p)
          PROVE  u.number < passes[t].number
      <4>1. p = q
        BY <3>3 DEF LoopInv, Ledger
      <4>2. QED
        BY <2>6, <3>3, <4>1, BeforeOrAfter
    <3>4. QED
      BY <3>1, <3>2, <3>3 DEF Numbers, Held
  <2>7. QED
    BY <2>5, <2>6
<1>4. QED
  BY <1>1, <1>2, <1>3, LoopInvariant, PTL DEF LoopSpec, OnlyOlderBatchesPutBack

-----------------------------------------------------------------------------
(* The loop is one of the things that can happen to an event.              *)

\* A step of the loop is a step of the event's Redis state, or none.
LEMMA LoopMovesQueue ==
    ASSUME LoopInv, [LoopNext]_loopVars
    PROVE  [Next]_queueVars
<1>1. ASSUME NEW p \in Admitters, RunScript(admitter[p].now) PROVE [Next]_queueVars
  BY <1>1, RecordOf DEF RunScript, Next
<1>2. ASSUME NEW p \in Admitters, Work(p) PROVE [Next]_queueVars
  BY <1>1, <1>2 DEF Work, StartTick, ScriptAnswered, StorePass, FinishTick
<1>3. ASSUME NEW p \in Admitters, Fail(p) PROVE [Next]_queueVars
  BY <1>1, <1>3 DEF Fail, ScriptReplyLost, ScriptNotRun, RefusePass, PipelineFails, Die
<1>4. CASE Tick \/ UNCHANGED loopVars
  BY <1>4 DEF Tick, loopVars
<1>5. QED
  BY <1>2, <1>3, <1>4 DEF LoopNext, JoinQueue, Reconfigure, Next

\* Whatever processes that sleep, repeat, fail and die do to an event is what
\* the scripts alone could do to it: what is proved of EventQueue holds.
THEOREM LoopImplementsQueue == LoopSpec => Spec
<1>1. LoopInit => Init
  BY DEF LoopInit
<1>2. LoopInv /\ [LoopNext]_loopVars => [Next]_queueVars
  BY LoopMovesQueue
<1>3. QED
  BY <1>1, <1>2, LoopInvariant, PTL DEF LoopSpec, Spec

\* With any number of admitters, late replies and crashes, the waiting room
\* is a fair line: places are kept, and admission is from the head only.
THEOREM LoopIsFairLine == LoopSpec => IsFairLine
BY LoopImplementsQueue, EventQueueIsFairLine, PTL

-----------------------------------------------------------------------------
(* What becomes of a batch: the part of PoppedIsSettled that needs no      *)
(* fairness.                                                               *)

\* A step of p with its batch in hand: it repeats the pipeline at the cost of
\* a retry, or has one pass less to store, or lets the batch go, and then
\* every waiter of it is accounted for.
Settles(p) ==
    \/ /\ At(p, "recording")' /\ Held(p)' = Held(p)
       /\ \/ admitter'[p].tries = admitter[p].tries + 1
          \/ /\ admitter'[p].tries = admitter[p].tries
             /\ admitter'[p].left \subseteq admitter[p].left
             /\ admitter'[p].left # admitter[p].left
    \/ /\ ~At(p, "recording")'
       /\ Owed(p) \subseteq recorded' \cup stranded'

LEMMA WorkSettles ==
    ASSUME LoopInv, NEW p \in Admitters, At(p, "recording"), Work(p)
    PROVE  Settles(p)
<1>1. CASE StorePass(p)
  <2>1. PICK w \in First(admitter[p].left) :
           admitter' = [admitter EXCEPT ![p].left = admitter[p].left \ {w}]
    BY <1>1 DEF StorePass
  <2>2. w \in admitter[p].left
    BY DEF First
  <2>3. /\ admitter'[p].at = admitter[p].at /\ admitter'[p].batch = admitter[p].batch
        /\ admitter'[p].tries = admitter[p].tries
        /\ admitter'[p].left = admitter[p].left \ {w}
    BY <2>1 DEF LoopInv, Types, Processes
  <2>4. At(p, "recording")' /\ Held(p)' = Held(p)
    BY <2>3 DEF At, Held
  <2>5. admitter'[p].left \subseteq admitter[p].left /\ admitter'[p].left # admitter[p].left
    BY <2>2, <2>3
  <2>6. QED
    BY <2>3, <2>4, <2>5 DEF Settles
<1>2. CASE FinishTick(p)
  <2>1. admitter'[p] = Asleep /\ stranded' = stranded \cup Owed(p)
    BY <1>2 DEF FinishTick, LoopInv, Types
  <2>2. ~At(p, "recording")'
    BY <2>1 DEF At, Asleep
  <2>3. QED
    BY <2>1, <2>2 DEF Settles
<1>3. ~StartTick(p) /\ ~ScriptAnswered(p)
  BY DEF StartTick, ScriptAnswered, At
<1>4. QED
  BY <1>1, <1>2, <1>3 DEF Work

LEMMA FailSettles ==
    ASSUME LoopInv, NEW p \in Admitters, At(p, "recording"), Fail(p)
    PROVE  Settles(p)
<1>1. ASSUME admitter' = [admitter EXCEPT ![p] = Asleep], stranded' = stranded \cup Owed(p)
      PROVE  Settles(p)
  <2>1. admitter'[p] = Asleep
    BY <1>1 DEF LoopInv, Types
  <2>2. ~At(p, "recording")'
    BY <2>1 DEF At, Asleep
  <2>3. QED
    BY <1>1, <2>2 DEF Settles
<1>2. CASE Die(p)
  BY <1>1, <1>2 DEF Die
<1>3. CASE PipelineFails(p)
  <2>1. CASE admitter[p].tries < MaxRetries
    <3>1. admitter' = [admitter EXCEPT ![p].left = admitter[p].batch,
                                       ![p].tries = admitter[p].tries + 1]
      BY <1>3, <2>1 DEF PipelineFails
    <3>2. /\ admitter'[p].at = admitter[p].at /\ admitter'[p].batch = admitter[p].batch
          /\ admitter'[p].tries = admitter[p].tries + 1
      BY <3>1 DEF LoopInv, Types, Processes
    <3>3. QED
      BY <3>2 DEF Settles, At, Held
  <2>2. CASE ~(admitter[p].tries < MaxRetries)
    BY <1>1, <1>3, <2>2 DEF PipelineFails
  <2>3. QED
    BY <2>1, <2>2
<1>4. ~ScriptReplyLost(p) /\ ~ScriptNotRun(p)
  BY DEF ScriptReplyLost, ScriptNotRun, At
<1>5. CASE RefusePass(p)
  <2>1. PICK w \in admitter[p].left :
           admitter' = [admitter EXCEPT ![p].left = admitter[p].left \ {w},
                                        ![p].refused = admitter[p].refused \cup {w}]
    BY <1>5 DEF RefusePass, First
  <2>2. /\ admitter'[p].at = admitter[p].at /\ admitter'[p].batch = admitter[p].batch
        /\ admitter'[p].tries = admitter[p].tries
        /\ admitter'[p].left = admitter[p].left \ {w}
    BY <2>1 DEF LoopInv, Types, Processes
  <2>3. QED
    BY <2>1, <2>2 DEF Settles, At, Held
<1>6. QED
  BY <1>2, <1>3, <1>4, <1>5 DEF Fail

\* A process that is sent back to a batch by no more than MaxRetries failures
\* and by nothing else cannot hold it for ever, and lets go of nobody in it
\* who is neither stored nor counted as stranded.
THEOREM BatchesRunDown ==
    LoopSpec => [][\A p \in Admitters :
                     At(p, "recording") /\ admitter'[p] # admitter[p]
                       => Settles(p) /\ admitter'[p].tries <= MaxRetries]_loopVars
<1>1. LoopInv /\ LoopInv' /\ [LoopNext]_loopVars =>
          \A p \in Admitters :
              At(p, "recording") /\ admitter'[p] # admitter[p]
                => Settles(p) /\ admitter'[p].tries <= MaxRetries
  <2> SUFFICES ASSUME LoopInv, LoopInv', [LoopNext]_loopVars,
                      NEW p \in Admitters, At(p, "recording"), admitter'[p] # admitter[p]
               PROVE  Settles(p) /\ admitter'[p].tries <= MaxRetries
    OBVIOUS
  <2>1. ASSUME NEW q \in Admitters, Work(q) \/ Fail(q) PROVE q = p
    <3> SUFFICES ASSUME q # p PROVE FALSE
      OBVIOUS
    <3>1. p \in Admitters \ {q}
      OBVIOUS
    <3>2. admitter'[p] = admitter[p]
      BY <2>1, <3>1 DEF Work, Fail, StartTick, ScriptAnswered, StorePass, FinishTick,
         ScriptReplyLost, ScriptNotRun, RefusePass, PipelineFails, Die, Again, LoopInv, Types
    <3>3. QED
      BY <3>2
  <2>2. Work(p) \/ Fail(p)
    BY <2>1 DEF LoopNext, JoinQueue, Tick, Reconfigure, loopVars
  <2>3. admitter'[p].tries \in 0 .. MaxRetries
    BY DEF LoopInv, Types, Processes
  <2>4. admitter'[p].tries <= MaxRetries
    BY <2>3, LoopAssumption
  <2>5. QED
    BY <2>2, <2>4, WorkSettles, FailSettles
<1>2. QED
  BY <1>1, LoopInvariant, PTL DEF LoopSpec

-----------------------------------------------------------------------------
\* What is left of LivePassIsShown: the place that hides a pass is always one
\* that its token took after the pass was earned.  Nobody who has not joined
\* again is told to wait when a pass of his is stored.
THEOREM HiddenByLaterJoin ==
    LoopSpec => [](\A t \in DOMAIN queue : passes[t] # NoPass => passes[t].number < queue[t])
<1>1. LoopInv => \A t \in DOMAIN queue : passes[t] # NoPass => passes[t].number < queue[t]
  <2> SUFFICES ASSUME LoopInv, NEW t \in DOMAIN queue, passes[t] # NoPass
               PROVE  passes[t].number < queue[t]
    OBVIOUS
  <2>1. t \in Tokens /\ queue[t] \in admitted + 1 .. seq /\ admitted \in Nat /\ seq \in Nat
    BY DEF LoopInv, Types, TypeOK, Dense
  <2>2. passes[t].number \in 1 .. admitted
    BY <2>1 DEF LoopInv, Kept, Ledger
  <2>3. QED
    BY <2>1, <2>2
<1>2. QED
  BY <1>1, LoopInvariant, PTL

=============================================================================
