------------------------------ MODULE PassGate ------------------------------
(***************************************************************************)
(* From the pass to the ticket: the admitters of AdmissionLoop, waiters    *)
(* who collect their passes from GET /position and present them to the     *)
(* booking service, its verification of a pass, and the sale.  The sale    *)
(* itself is TicketSale, which Booking implements; the two services share  *)
(* nothing but the pass, and the booking host has a clock of its own.      *)
(*                                                                         *)
(*   skew    how far the booking host's clock is ahead of the queue's      *)
(*   wallet  the passes that were collected                                *)
(*   sold    the claims that hold a ticket                                 *)
(*                                                                         *)
(* and, as a history variable, by arrival number: rewound (how far         *)
(* last_refill_ms was set back since the number was called).               *)
(***************************************************************************)
EXTENDS AdmissionLoop

CONSTANTS ThisEvent,    \* the event the queue is for, and its passes
          OtherEvents,  \* other events the booking service knows
          Seats,        \* tickets of every event
          Skews,        \* possible values of skew
          MaxBurst,     \* the largest burst of a configuration
          MaxRate       \* the largest rate of a configuration

ASSUME GateAssumption ==
    /\ ThisEvent \notin OtherEvents
    /\ Seats \in Nat
    /\ Skews \subseteq Int
    /\ MaxBurst \in Nat
    /\ MaxRate \in Nat

VARIABLES skew, wallet, sold, rewound

gateVars == <<skew, wallet, sold, rewound>>

allVars == <<loopVars, gateVars>>

\* What Hs256PassIssuer signs.  A jti is a fresh uuid for each waiter popped,
\* as his number is.
PassClaims == [jti : 1 .. MaxSeq, user_id : Tokens, event_id : {ThisEvent}]

Credential == [claims : PassClaims, iat : Int, exp : Int]

ClaimsFor(t) == [jti |-> passes[t].number, user_id |-> t, event_id |-> ThisEvent]

\* Fault: a pass is signed when it is collected.
SignedOnCollection(t) ==
    [claims |-> ClaimsFor(t), iat |-> clock \div Second, exp |-> Expiry(clock)]

Signed(t) ==
    [claims |-> ClaimsFor(t), iat |-> passes[t].exp - PassTTL, exp |-> passes[t].exp]

-----------------------------------------------------------------------------
(* Collecting.                                                             *)

\* GET /position hands a pass out to whoever is not queued and has one.
Offered(t) == config # NoConfig /\ ~Queued(t) /\ Live(t)

Collect(t) ==
    /\ Offered(t)
    /\ wallet' = wallet \cup {Signed(t)}
    /\ UNCHANGED <<loopVars, skew, sold, rewound>>

-----------------------------------------------------------------------------
(* Verification, by the booking host's clock and in whole seconds: jwt.decode *)
(* refuses what is expired, and what was issued in its future.             *)

BookingClock == clock + skew

Expired(pass) == pass.exp * Second <= BookingClock

Immature(pass) == BookingClock < pass.iat * Second

\* Fault: the time of issue is taken for a diagnostic.
VerifiedByExpiry(pass) == ~Expired(pass)

Verified(pass) == ~Expired(pass) /\ ~Immature(pass)

TS == INSTANCE TicketSale
        WITH Claims <- PassClaims, Capacity <- [e \in {ThisEvent} \cup OtherEvents |-> Seats]

\* POST /events/{event_id}/book comes to a booking.  Its other ends (401, 403,
\* 404, 409, the booking that is there) change nothing.  A request may pass
\* the verification and sell much later; nothing below depends on when.
Book(pass, event_id) ==
    /\ pass \in wallet
    /\ Verified(pass)
    /\ pass.claims.event_id = event_id
    /\ TS!Sell(pass.claims)
    /\ UNCHANGED <<loopVars, skew, wallet, rewound>>

-----------------------------------------------------------------------------
(* The queue service's own steps.                                          *)

\* How far a step sets last_refill_ms back: admit_batch writes the reading it
\* is called with, also when it is older than the one it finds.
SetBack ==
    IF bucket # NoBucket /\ bucket'.last_refill_ms < bucket.last_refill_ms
    THEN bucket.last_refill_ms - bucket'.last_refill_ms
    ELSE 0

QueueStep ==
    /\ LoopNext
    /\ rewound' = [k \in 1 .. admitted' |-> IF k <= admitted THEN rewound[k] + SetBack ELSE 0]
    /\ UNCHANGED <<skew, wallet, sold>>

-----------------------------------------------------------------------------

GateInit ==
    /\ LoopInit
    /\ skew \in Skews
    /\ wallet = {}
    /\ TS!SaleInit
    /\ rewound = <<>>

GateNext ==
    \/ QueueStep
    \/ \E t \in Tokens : Collect(t)
    \/ \E pass \in wallet, e \in {ThisEvent} \cup OtherEvents : Book(pass, e)

GateSpec == GateInit /\ [][GateNext]_allVars

-----------------------------------------------------------------------------
(* Properties.                                                             *)

\* Types, and: a place in the line is worth one pass with one expiry, which
\* is never renewed (product-spec.md, rule 11), however often it is stored
\* or collected.
GateTypeOK ==
    /\ skew \in Skews
    /\ wallet \subseteq Credential
    /\ \A p, q \in wallet : p.claims.jti = q.claims.jti => p = q
    /\ sold \subseteq {pass.claims : pass \in wallet}

\* The pass is proof of having waited (pass_issuer.py:7-10): behind every
\* ticket stands one place in the line that its holder held himself, that
\* was called, and whose pass was delivered; no place is behind two tickets.
EveryTicketWaited ==
    /\ \A c \in sold : /\ c.jti \in recorded \ stranded
                       /\ c.jti <= admitted
                       /\ arrivals[c.jti] = c.user_id
                       /\ c.event_id = ThisEvent
    /\ \A c, d \in sold : c.jti = d.jti => c = d

\* Passes that would be let in at this moment, of those that were collected
\* or can be.
Crowd ==
    {pass \in wallet \cup {Signed(t) : t \in {u \in Tokens : Offered(u)}} : Verified(pass)}

\* Configurations that meter.  A negative batch_max, which nothing refuses,
\* does not: each call with it pays tokens into the bucket.
Metering ==
    \A c \in Configs : /\ c.burst <= MaxBurst
                       /\ c.rate_per_min <= MaxRate
                       /\ c.batch_max \in Nat

\* Passes do not pile up (settings.py:143-145, product-spec.md, Journey D).
\* Of those who can enter the booking service at one moment, a pass and the
\* later ones are no more than a burst and the rate over the life of a pass,
\* plus the time that late readings were credited twice since the first of
\* them was called: with any number of admitters, whatever the booking host's
\* clock says and whoever keeps his pass for later.
CrowdBounded ==
    Metering =>
        \A pass \in Crowd :
            Cardinality({q \in Crowd : pass.claims.jti <= q.claims.jti}) * Unit
              <= MaxBurst * Unit
                 + MaxRate * (PassTTL * Second - 1 + rewound[pass.claims.jti])

=============================================================================
