-------------------------------- MODULE Drain --------------------------------
(***************************************************************************)
(* The line moves: an event of EventQueue whose admitters go on calling    *)
(* admit_batch.lua (run_forever survives every failed tick) while time     *)
(* passes, waiters keep arriving and staff change the configuration.       *)
(*                                                                         *)
(* Nothing here ends, so nothing may grow.  Time is counted backwards from *)
(* the present: a reading is minus its age, and as time passes the last    *)
(* refill gets older.  Arrival numbers are counted from the last admission *)
(* every now and then.  Neither changes what a script does: they only ever *)
(* use differences of two readings or of two numbers.                      *)
(***************************************************************************)
EXTENDS EventQueue

CONSTANTS MaxLag,   \* how old a clock reading may be when Redis runs the script
          Horizon   \* a refill this old fills any bucket

ASSUME DrainAssumption ==
    /\ MaxLag \in Nat
    /\ Horizon \in Nat
    /\ MaxLag <= Horizon
    /\ Times = {-lag : lag \in 0 .. MaxLag}
    /\ \A c \in Configs :
         c.rate_per_min > 0 => c.burst * Unit <= c.rate_per_min * (Horizon - MaxLag)

-----------------------------------------------------------------------------

\* A tick of some admitter that reaches Redis.
Call == \E now \in Times : IF AdmissionClosed THEN UNCHANGED queueVars ELSE AdmitBatch(now)

\* Time passes for everybody; the age of the last refill stops at Horizon.
Pass ==
    /\ bucket # NoBucket
    /\ bucket.last_refill_ms > -Horizon
    /\ bucket' = [bucket EXCEPT !.last_refill_ms = @ - 1]
    /\ UNCHANGED <<queue, seq, admitted, config>>

Renumber ==
    /\ admitted > 0
    /\ queue' = [t \in DOMAIN queue |-> queue[t] - admitted]
    /\ seq' = seq - admitted
    /\ admitted' = 0
    /\ UNCHANGED <<bucket, config>>

DrainNext ==
    \/ \E t \in Tokens : Join(t)
    \/ Call
    \/ Pass
    \/ Renumber
    \/ ResetState
    \/ \E c \in Configs : PutConfig(c)

\* run_forever comes back after every tick, and time does not stop.  Nobody
\* has to join, and staff have to do nothing.
DrainSpec ==
    /\ Init /\ [][DrainNext]_queueVars
    /\ WF_queueVars(Call) /\ WF_queueVars(Pass) /\ WF_queueVars(Renumber)

-----------------------------------------------------------------------------
(* Properties.                                                             *)

\* Types and Dense, in an event that is never over.
DrainTypeOK ==
    /\ TypeOK
    /\ Dense
    /\ bucket # NoBucket => bucket.last_refill_ms \in -Horizon .. 0

\* The event is on, and its configuration lets a single waiter through.
Running ==
    /\ ~AdmissionClosed
    /\ config.burst >= 1
    /\ config.batch_max >= 1

\* What the line is owed for the time since the last refill, uncapped.
Credit == bucket.tokens - config.rate_per_min * bucket.last_refill_ms

\* Enough for a whole token even to a call whose reading is as late as any.
Due == bucket = NoBucket \/ Credit >= Unit + config.rate_per_min * MaxLag

\* "Under-admitting for one tick is recoverable" (admit_batch.lua:79): as
\* long as a running event is left configured as it is and nobody leaves its
\* line, no call forfeits credit, however late its reading, however small the
\* fraction of a token it finds, and whatever order the readings come in.
CreditIsKept ==
    [][/\ Running /\ config' = config
       /\ bucket # NoBucket
       /\ DOMAIN queue # {} /\ DOMAIN queue \subseteq DOMAIN queue'
       => Credit' >= Credit]_queueVars

\* Credit is spent: nobody's place ever grows, and once a whole token is due
\* the next call to reach Redis brings everybody who stays in the line
\* forward, even if its own reading is older than the last refill.
PlacesMoveUp ==
    [][\A t \in DOMAIN queue \cap DOMAIN queue' :
          /\ ZRank(t)' <= ZRank(t)
          /\ Running /\ Due /\ Call => ZRank(t)' < ZRank(t)]_queueVars

\* "Under-admitting for one tick is recoverable; a stalled queue is not"
\* (admit_batch.lua:79-80): once staff leave a running event alone, whoever
\* is in the queue leaves it, however slow the rate is next to the calls,
\* however late and disordered their readings, and however many join.
EveryoneIsCalled ==
    <>[]Running => \A t \in Tokens : Queued(t) ~> ~Queued(t)

=============================================================================
