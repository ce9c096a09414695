---------------------------- MODULE RateEnvelope ----------------------------
(***************************************************************************)
(* How many waiters an event may admit in a stretch of time.               *)
(*                                                                         *)
(* Every admitter reads its own clock before it awaits the script          *)
(* (admission.py: now_ms = self._clock(), then await admit_batch), so the  *)
(* reading is up to MaxLag old when Redis runs the script, and readings    *)
(* arrive out of order.  `clock' is the time in Redis; `window' is a       *)
(* history variable: a stretch that opens at some call of admit_batch,     *)
(* any call, with the number admitted since, that call's batch included,   *)
(* and how far last_refill_ms has been set back in all.                    *)
(***************************************************************************)
EXTENDS EventQueue

CONSTANTS MaxLag,     \* how old a clock reading may be
          MaxBurst,   \* the largest burst of a configuration
          MaxRate,    \* the largest rate of a configuration
          NoWindow,   \* no stretch has been opened
          MaxRewound  \* bound on exploration: how far one window is set back

ASSUME EnvelopeAssumption ==
    /\ MaxLag \in Nat
    /\ MaxBurst \in Nat
    /\ MaxRate \in Nat
    /\ \A c \in Configs : c.burst \in 0 .. MaxBurst /\ c.rate_per_min <= MaxRate
    /\ 0 \in Times
    /\ MaxRewound \in Nat

Windows == [start : Int, count : Nat, rewound : Nat]

ASSUME WindowAssumption == NoWindow \notin Windows

VARIABLES clock, window

envelopeVars == <<queueVars, clock, window>>

\* The clock readings a call that runs now may carry.
Readings == {now \in Times : clock - MaxLag <= now /\ now <= clock}

\* How far a call sets last_refill_ms back.
Rewind(now) ==
    IF bucket # NoBucket /\ now < bucket.last_refill_ms
    THEN bucket.last_refill_ms - now
    ELSE 0

OpenWindow(now) ==
    window' = [start |-> now, count |-> admitted' - admitted, rewound |-> 0]

ExtendWindow(now) ==
    /\ window # NoWindow
    /\ window.rewound + Rewind(now) <= MaxRewound
    /\ window' = [window EXCEPT !.count = @ + (admitted' - admitted),
                                !.rewound = @ + Rewind(now)]

\* A call with a negative batch_max pays tokens into the bucket (tokens - n):
\* no stretch reaches over it.
Admit(now) ==
    /\ AdmitBatch(now)
    /\ \/ config.batch_max >= 0 /\ OpenWindow(now)
       \/ config.batch_max >= 0 /\ ExtendWindow(now)
       \/ config.batch_max < 0 /\ window' = NoWindow
    /\ UNCHANGED clock

Tick ==
    /\ clock + 1 \in Times
    /\ clock' = clock + 1
    /\ UNCHANGED <<queueVars, window>>

\* Clearing the bucket starts a new event, with a new burst.
Restart ==
    /\ ResetState
    /\ window' = NoWindow
    /\ UNCHANGED clock

EnvelopeInit ==
    /\ Init
    /\ clock = 0
    /\ window = NoWindow

EnvelopeNext ==
    \/ Tick
    \/ \E t \in Tokens : Join(t) /\ UNCHANGED <<clock, window>>
    \/ \E now \in Readings : Admit(now)
    \/ \E c \in Configs : PutConfig(c) /\ UNCHANGED <<clock, window>>
    \/ Restart

EnvelopeSpec == EnvelopeInit /\ [][EnvelopeNext]_envelopeVars

-----------------------------------------------------------------------------
(* Properties.                                                             *)

\* Types: the bucket never goes into debt, and a window has a bucket.
EnvelopeTypeOK ==
    /\ clock \in Times
    /\ window \in Windows \cup {NoWindow}
    /\ bucket # NoBucket => 0 <= bucket.tokens /\ bucket.last_refill_ms <= clock
    /\ window # NoWindow => bucket # NoBucket

\* Admissions plus what is left in the bucket never exceed a burst plus the
\* rate over the bucket's own time, in which every stretch by which
\* last_refill_ms was set back counts twice.  This is what admit_batch.lua
\* guarantees whatever clock readings it is called with.
RateWithRewinds ==
    window # NoWindow =>
        window.count * Unit + bucket.tokens
          <= MaxBurst * Unit
             + MaxRate * (bucket.last_refill_ms - window.start + window.rewound)

\* The documented contract: in any stretch of time at most a burst plus the
\* rate times the time elapsed, however many processes call
\* (admit_batch.lua:3-5, test_admit_batch.py:245-250).
RateContract ==
    window # NoWindow =>
        window.count * Unit <= MaxBurst * Unit + MaxRate * (clock - window.start)

=============================================================================
