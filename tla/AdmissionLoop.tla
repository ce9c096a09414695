---------------------------- MODULE AdmissionLoop ----------------------------
(***************************************************************************)
(* The admitter processes of queue_service at work on one event: each runs *)
(* AdmissionController.run_forever, which reads the clock, awaits          *)
(* admit_batch.lua, signs a pass for each waiter popped and stores the     *)
(* passes in a pipeline.  Between two awaits anything may happen: joins,   *)
(* other admitters, the passage of time, the process's death.              *)
(*                                                                         *)
(* The Redis client repeats a command after a connection error or timeout, *)
(* up to MaxRetries times, whether or not Redis executed it; after that    *)
(* run_forever logs the exception and goes back to sleep.  A command that  *)
(* Redis answers with an error (out of memory, read only) is not repeated. *)
(*                                                                         *)
(*   clock     time, in ticks; Second of them make a second                *)
(*   admitter  where each process is and what it holds between two awaits  *)
(*   passes    the keys qf:{event}:pass:{token}                            *)
(*                                                                         *)
(* and, as history variables, by arrival number: arrivals (the token that  *)
(* was given it), recorded (its pass was stored) and stranded (it was      *)
(* popped and the process that should have issued its pass failed).        *)
(***************************************************************************)
EXTENDS EventQueue, Sequences

CONSTANTS Admitters,    \* processes that run run_admitter
          Second,       \* ticks in a second: 1000 in the code
          PassTTL,      \* PASS_TTL_SECONDS
          MaxRetries,   \* repetitions of a command by the Redis client: 3
          NoPass        \* the key does not exist

\* What a key holds, and the time at which Redis drops it.
Keys == [number : Nat, exp : Int, until : Int]

ASSUME LoopAssumption ==
    /\ IsFiniteSet(Admitters)
    /\ Second \in Nat \ {0}
    /\ PassTTL \in Nat \ {0}
    /\ MaxRetries \in Nat
    /\ Times \subseteq Nat
    /\ 0 \in Times
    /\ NoPass \notin Keys

VARIABLES clock, admitter, passes, arrivals, recorded, stranded

history == <<arrivals, recorded, stranded>>

loopVars == <<queueVars, clock, admitter, passes, history>>

\* A waiter as the pop returns him.
Popped == [token : Tokens, number : 1 .. MaxSeq]

\* Of a batch: the SETs that are still to come, and, as history, those that
\* Redis answered with an error.
Asleep == [at |-> "asleep", now |-> 0, batch |-> {}, left |-> {}, refused |-> {},
           tries |-> 0]

Numbers(popped) == {w.number : w \in popped}

At(p, place) == admitter[p].at = place

\* Fault: the expiry is rounded up to a whole second.
ExpiryRoundedUp(now) == ((now + Second - 1) \div Second) + PassTTL

\* PassIssuer.issue: the expiry is in whole seconds from the tick's reading.
Expiry(now) == (now \div Second) + PassTTL

\* The key of a pass is still there.
Live(t) == passes[t] # NoPass /\ clock < passes[t].until

-----------------------------------------------------------------------------
(* POST /join by a holder of a queue token.                                *)

JoinQueue(t) ==
    /\ Join(t)
    /\ arrivals' = IF seq' = seq THEN arrivals ELSE Append(arrivals, t)
    /\ UNCHANGED <<clock, admitter, passes, recorded, stranded>>

-----------------------------------------------------------------------------
(* admit_once, up to the reply of admit_batch.                             *)

\* The tick begins: the clock is read before the script is awaited.
StartTick(p) ==
    /\ At(p, "asleep")
    /\ admitter' = [admitter EXCEPT ![p] = [Asleep EXCEPT !.at = "calling", !.now = clock]]
    /\ UNCHANGED <<queueVars, clock, passes, history>>

\* The script runs in Redis, whichever of its ends it comes to.
RunScript(now) == IF AdmissionClosed THEN UNCHANGED queueVars ELSE AdmitBatch(now)

\* What its reply carries.
Reply(now) ==
    IF AdmissionClosed \/ Batch(now) <= 0
    THEN {}
    ELSE {[token |-> t, number |-> queue[t]] : t \in ZPopMin(Batch(now))}

\* An empty batch ends the tick; so does an unknown event.
ScriptAnswered(p) ==
    LET reply == Reply(admitter[p].now)
    IN  /\ At(p, "calling")
        /\ RunScript(admitter[p].now)
        /\ admitter' =
             [admitter EXCEPT ![p] =
                IF reply = {} THEN Asleep
                ELSE [at |-> "recording", now |-> admitter[p].now, batch |-> reply,
                      left |-> reply, refused |-> {}, tries |-> 0]]
        /\ UNCHANGED <<clock, passes, history>>

\* The client repeats the command, or the exception ends the tick.
Again(p) ==
    IF admitter[p].tries < MaxRetries
    THEN admitter' = [admitter EXCEPT ![p].tries = @ + 1]
    ELSE admitter' = [admitter EXCEPT ![p] = Asleep]

\* The script ran and its reply was lost: nobody knows whom it popped.
ScriptReplyLost(p) ==
    /\ At(p, "calling")
    /\ RunScript(admitter[p].now)
    /\ Again(p)
    /\ stranded' = stranded \cup Numbers(Reply(admitter[p].now))
    /\ UNCHANGED <<clock, passes, arrivals, recorded>>

\* The command never reached Redis, or Redis refused to run it.
ScriptNotRun(p) ==
    /\ At(p, "calling")
    /\ Again(p) \/ admitter' = [admitter EXCEPT ![p] = Asleep]
    /\ UNCHANGED <<queueVars, clock, passes, history>>

-----------------------------------------------------------------------------
(* record_admissions: one SET per pass, in the order of the batch, without *)
(* a transaction: each of them is executed or refused by itself, and the   *)
(* first refusal is raised when every reply has been read.                 *)

\* Fault: the batch is walked from its end.
Last(popped) == {w \in popped : \A v \in popped : w.number >= v.number}

First(popped) == {w \in popped : \A v \in popped : w.number <= v.number}

PassOf(p, w) ==
    [number |-> w.number,
     exp    |-> Expiry(admitter[p].now),
     until  |-> clock + PassTTL * Second]

\* Fault: every SET of a pipeline uses the key of the last waiter.
StoreUnderLast(p) ==
    \E w \in First(admitter[p].left), v \in Last(admitter[p].batch) :
        /\ At(p, "recording")
        /\ passes' = [passes EXCEPT ![v.token] = PassOf(p, w)]
        /\ admitter' = [admitter EXCEPT ![p].left = @ \ {w}]
        /\ recorded' = recorded \cup {w.number}
        /\ UNCHANGED <<queueVars, clock, arrivals, stranded>>

StorePass(p) ==
    \E w \in First(admitter[p].left) :
        /\ At(p, "recording")
        /\ passes' = [passes EXCEPT ![w.token] = PassOf(p, w)]
        /\ admitter' = [admitter EXCEPT ![p].left = @ \ {w}]
        /\ recorded' = recorded \cup {w.number}
        /\ UNCHANGED <<queueVars, clock, arrivals, stranded>>

\* Fault: the tick does not wait for the whole pipeline.
FinishUnawaited(p) ==
    /\ At(p, "recording")
    /\ admitter' = [admitter EXCEPT ![p] = Asleep]
    /\ UNCHANGED <<queueVars, clock, passes, history>>

\* A SET is answered with an error; the ones behind it are executed all the
\* same.
RefusePass(p) ==
    \E w \in First(admitter[p].left) :
        /\ At(p, "recording")
        /\ admitter' = [admitter EXCEPT ![p].left = @ \ {w}, ![p].refused = @ \cup {w}]
        /\ UNCHANGED <<queueVars, clock, passes, history>>

\* Who of its batch has no pass: a process that lets go of them strands them.
Owed(p) == Numbers(admitter[p].batch) \ recorded

\* Every SET was answered.  If one was refused the tick ends in an exception,
\* and the pass it was for is never stored.
FinishTick(p) ==
    /\ At(p, "recording")
    /\ admitter[p].left = {}
    /\ admitter' = [admitter EXCEPT ![p] = Asleep]
    /\ stranded' = stranded \cup Owed(p)
    /\ UNCHANGED <<queueVars, clock, passes, arrivals, recorded>>

\* Fault: the client never gives up.
PipelineRepeats(p) ==
    /\ At(p, "recording")
    /\ admitter' = [admitter EXCEPT ![p].left = admitter[p].batch]
    /\ UNCHANGED <<queueVars, clock, passes, history>>

\* Fault: what could not be stored is stored together with the next batch.
PipelineCarriesOver(p) ==
    /\ At(p, "recording")
    /\ RunScript(clock)
    /\ admitter' = [admitter EXCEPT ![p].batch = @ \cup Reply(clock),
                                   ![p].left  = @ \cup Reply(clock)]
    /\ UNCHANGED <<clock, passes, history>>

\* The connection fails, before or after any command of the pipeline was
\* executed: the client sends all of them again, or the tick ends there.
PipelineFails(p) ==
    /\ At(p, "recording")
    /\ IF admitter[p].tries < MaxRetries
       THEN /\ admitter' = [admitter EXCEPT ![p].left = admitter[p].batch, ![p].tries = @ + 1]
            /\ UNCHANGED stranded
       ELSE /\ admitter' = [admitter EXCEPT ![p] = Asleep]
            /\ stranded' = stranded \cup Owed(p)
    /\ UNCHANGED <<queueVars, clock, passes, arrivals, recorded>>

\* The process is killed or cancelled, and started again; what it held is gone.
Die(p) ==
    /\ ~At(p, "asleep")
    /\ admitter' = [admitter EXCEPT ![p] = Asleep]
    /\ stranded' = stranded \cup Owed(p)
    /\ UNCHANGED <<queueVars, clock, passes, arrivals, recorded>>

-----------------------------------------------------------------------------

Tick ==
    /\ clock + 1 \in Times
    /\ clock' = clock + 1
    /\ UNCHANGED <<queueVars, admitter, passes, history>>

\* create_event without --reset, for a new event or a running one.
Reconfigure(c) ==
    /\ PutConfig(c)
    /\ UNCHANGED <<clock, admitter, passes, history>>

LoopInit ==
    /\ Init
    /\ clock = 0
    /\ admitter = [p \in Admitters |-> Asleep]
    /\ passes = [t \in Tokens |-> NoPass]
    /\ arrivals = <<>>
    /\ recorded = {}
    /\ stranded = {}

\* A step of the process that does not fail.
Work(p) == StartTick(p) \/ ScriptAnswered(p) \/ StorePass(p) \/ FinishTick(p)

Fail(p) ==
    ScriptReplyLost(p) \/ ScriptNotRun(p) \/ RefusePass(p) \/ PipelineFails(p) \/ Die(p)

LoopNext ==
    \/ \E t \in Tokens : JoinQueue(t)
    \/ \E p \in Admitters : Work(p) \/ Fail(p)
    \/ Tick
    \/ \E c \in Configs : Reconfigure(c)

LoopSpec == LoopInit /\ [][LoopNext]_loopVars

\* The event loop of a process that lives resumes it after each await.
LoopFairSpec == LoopSpec /\ \A p \in Admitters : WF_loopVars(Work(p))

-----------------------------------------------------------------------------
(* Properties.                                                             *)

\* Types, and: a stored pass is kept under the token of the waiter who holds
\* its number.
LoopTypeOK ==
    /\ clock \in Times
    /\ \A p \in Admitters :
         /\ admitter[p].at \in {"asleep", "calling", "recording"}
         /\ admitter[p].now \in 0 .. clock
         /\ admitter[p].left \subseteq admitter[p].batch
         /\ admitter[p].refused \subseteq admitter[p].batch
         /\ admitter[p].batch \subseteq Popped
         /\ admitter[p].tries \in 0 .. MaxRetries
    /\ \A t \in Tokens : passes[t] # NoPass =>
         arrivals[passes[t].number] = t /\ passes[t].number \in recorded
    /\ Len(arrivals) = seq

\* The waiters popped whose pass is still owed.
InFlight == UNION {Owed(p) : p \in Admitters}

\* Every number the admitted counter has passed is accounted for once: its
\* pass was stored, or one process still owes it, or a failure stranded it.
\* Two processes never hold the same waiter, and a waiter is popped once.
EveryAdmissionAccountedFor ==
    /\ 1 .. admitted = recorded \cup stranded \cup InFlight
    /\ recorded \cap stranded = {}
    /\ InFlight \cap stranded = {}
    /\ \A p, q \in Admitters :
         p # q => Numbers(admitter[p].batch) \cap Numbers(admitter[q].batch) = {}

\* Within a batch, whoever arrived first can collect his pass first, even
\* when the pipeline is sent more than once, unless Redis refused his SET.
PassesInBatchOrder ==
    \A p \in Admitters : \A w, v \in admitter[p].batch :
        w.number \in recorded /\ v.number \in Owed(p) =>
            w.number < v.number \/ v \in admitter[p].refused

\* No pass that the booking service would accept is dropped from its key:
\* the key, whose life is counted from the SET, is there until the expiry in
\* the pass, which is counted from the tick's own second.  (It is there for
\* longer, which KeyNeverOutlivesPass says it is not; and a key that is there
\* is not always looked at, which LivePassIsShown says it is.)
KeyCoversPass ==
    \A t \in Tokens : passes[t] # NoPass => passes[t].exp * Second <= passes[t].until

\* "The key cannot outlive the credential it holds" (queue_repository.py:182,
\* test_admission.py:83): nobody is handed a pass that has expired.
KeyNeverOutlivesPass ==
    \A t \in Tokens : Live(t) => clock < passes[t].exp * Second

\* Every process runs this loop, and "that is safe" (admission.py:7-10,
\* run_admitter.py:3-12): a token that was admitted twice keeps the pass of
\* its later stay.
PassesOnlyMoveOn ==
    [][\A t \in Tokens : passes[t] # NoPass =>
          passes'[t] # NoPass /\ passes'[t].number >= passes[t].number]_passes

\* What is left of it: no pass is taken away, and a pass that gives way to
\* that of an earlier stay was overtaken.  It is later than everything in the
\* batch that the other is stored from, which its process popped before.  No
\* repetition, and no batch in itself, sets a key back.
OnlyOlderBatchesPutBack ==
    [][\A t \in Tokens : passes[t] # NoPass =>
          /\ passes'[t] # NoPass
          /\ passes'[t].number < passes[t].number =>
               \A p \in Admitters :
                   passes'[t].number \in Numbers(admitter[p].batch) =>
                       \A k \in Numbers(admitter[p].batch) : k < passes[t].number]_passes

\* Refreshing cannot hurt (product-spec.md, F2; join.lua:4-7): nobody whose
\* pass is waiting to be collected is told to wait in the queue, which is
\* what position.lua answers, without looking at the pass, when he is queued.
LivePassIsShown == \A t \in Tokens : Live(t) => ~Queued(t)

\* No process sits on a waiter for ever: a waiter who was popped has his
\* pass stored, or a failure of that process is to blame.
PoppedIsSettled ==
    \A k \in 1 .. MaxSeq : k \in InFlight ~> k \in recorded \cup stranded

=============================================================================
