------------------------------ MODULE Booking ------------------------------
(***************************************************************************)
(* booking_service: book_ticket() as run by several requests at once on    *)
(* PostgreSQL in READ COMMITTED, one action per SQL statement.             *)
(*                                                                         *)
(* A statement sees what is committed when it runs.  The conditional       *)
(* UPDATE of an event's row takes the row's lock until its transaction     *)
(* ends; another UPDATE of a row that still looks free waits for the lock  *)
(* and then evaluates its WHERE clause again, but one that finds the       *)
(* committed row full matches nothing and does not wait.                   *)
(*                                                                         *)
(*   capacity        the rows of Event, with their capacity                *)
(*   tickets_booked  the committed counter of each event's row             *)
(*   bookings        the committed rows of Booking                         *)
(*   lock            who holds the lock of an event's row                  *)
(*   req             where each request is in book_ticket(), with the      *)
(*                   claims it serves and its answer                       *)
(***************************************************************************)
EXTENDS Integers, FiniteSets

CONSTANTS Requests,   \* server threads
          Claims,     \* verified AdmissionClaims that may be presented
          Events,     \* ids an event may have
          Capacity,   \* the events that have a row at first, with their capacity
          NoRequest   \* nobody holds a lock

\* A pass is signed with a fresh uuid4 as jti, so a jti stands for one pass.
ASSUME ClaimsAssumption ==
    /\ \A c, d \in Claims : c.jti = d.jti => c = d
    /\ \A c \in Claims : c.event_id \in Events

ASSUME CapacityAssumption ==
    DOMAIN Capacity \subseteq Events /\ Capacity \in [DOMAIN Capacity -> Nat]

ASSUME NoRequestAssumption == NoRequest \notin Requests

VARIABLES capacity, tickets_booked, bookings, lock, req

vars == <<capacity, tickets_booked, bookings, lock, req>>

\* The events that have a row.
Listed == DOMAIN capacity

\* Where a request can be; "idle" is before its start and after its answer.
Places == {"idle", "find_jti", "find_user", "update", "no_row", "insert",
           "commit", "refind_jti", "refind_user"}

Answers == {"none", "created", "existing", "sold_out", "not_found", "error"}

\* The unique constraints of models.Booking.
Conflict(c, d) ==
    \/ c.jti = d.jti
    \/ c.event_id = d.event_id /\ c.user_id = d.user_id

Booked(c) == \E b \in bookings : Conflict(c, b)

RowsOf(e) == {b \in bookings : b.event_id = e}

At(r, place) == req[r].at = place

Go(r, place) == req' = [req EXCEPT ![r].at = place]

Reply(r, answer) == req' = [req EXCEPT ![r].at = "idle", ![r].answer = answer]

-----------------------------------------------------------------------------
(* A request is received.  `replay' is a history field: whether a booking  *)
(* for these claims was committed before the request began.                *)

\* Fault: no search before the transaction.
ReceiveUnsearched(r, c) ==
    /\ At(r, "idle")
    /\ req' = [req EXCEPT ![r] = [at |-> "update", claims |-> c,
                                  answer |-> "none", replay |-> Booked(c)]]
    /\ UNCHANGED <<capacity, tickets_booked, bookings, lock>>

Receive(r, c) ==
    /\ At(r, "idle")
    /\ req' = [req EXCEPT ![r] = [at |-> "find_jti", claims |-> c,
                                  answer |-> "none", replay |-> Booked(c)]]
    /\ UNCHANGED <<capacity, tickets_booked, bookings, lock>>

-----------------------------------------------------------------------------
(* _find_existing: two SELECTs, the second only if the first finds nothing. *)

FindByJti(r, from, next) ==
    /\ At(r, from)
    /\ IF \E b \in bookings : b.jti = req[r].claims.jti
       THEN Reply(r, "existing")
       ELSE Go(r, next)
    /\ UNCHANGED <<capacity, tickets_booked, bookings, lock>>

HoldsTicket(c) == \E b \in RowsOf(c.event_id) : b.user_id = c.user_id

FindByUser(r) ==
    /\ At(r, "find_user")
    /\ IF HoldsTicket(req[r].claims) THEN Reply(r, "existing") ELSE Go(r, "update")
    /\ UNCHANGED <<capacity, tickets_booked, bookings, lock>>

\* Fault: the search after an IntegrityError is by jti only.
RefindNobody(r) ==
    /\ At(r, "refind_user")
    /\ Reply(r, "error")
    /\ UNCHANGED <<capacity, tickets_booked, bookings, lock>>

\* The second search, after an IntegrityError; a miss re-raises it (500).
RefindByUser(r) ==
    /\ At(r, "refind_user")
    /\ Reply(r, IF HoldsTicket(req[r].claims) THEN "existing" ELSE "error")
    /\ UNCHANGED <<capacity, tickets_booked, bookings, lock>>

-----------------------------------------------------------------------------
(* transaction.atomic(): the conditional UPDATE, the INSERT, the COMMIT.   *)

HasRoom(e) == e \in Listed /\ tickets_booked[e] < capacity[e]

\* Fault: the room is checked in Python, the row is not locked.
ClaimUnlocked(r) ==
    /\ At(r, "update")
    /\ HasRoom(req[r].claims.event_id)
    /\ Go(r, "insert")
    /\ UNCHANGED <<capacity, tickets_booked, bookings, lock>>

\* The UPDATE matches: it takes the row's lock; its increment is not visible
\* to others before the commit.
ClaimTicket(r) ==
    LET e == req[r].claims.event_id
    IN  /\ At(r, "update")
        /\ HasRoom(e)
        /\ lock[e] = NoRequest
        /\ lock' = [lock EXCEPT ![e] = r]
        /\ Go(r, "insert")
        /\ UNCHANGED <<capacity, tickets_booked, bookings>>

\* Fault: a ticket claimed by a transaction that has not ended counts as sold.
ClaimNothingDirty(r) ==
    LET e == req[r].claims.event_id
    IN  /\ At(r, "update")
        /\ \/ ~HasRoom(e)
           \/ HasRoom(e) /\ lock[e] # NoRequest /\ tickets_booked[e] + 1 = capacity[e]
        /\ Go(r, "no_row")
        /\ UNCHANGED <<capacity, tickets_booked, bookings, lock>>

\* The UPDATE matches no row: the event is full, or there is none.
ClaimNothing(r) ==
    /\ At(r, "update")
    /\ ~HasRoom(req[r].claims.event_id)
    /\ Go(r, "no_row")
    /\ UNCHANGED <<capacity, tickets_booked, bookings, lock>>

\* exists(), then the exception that rolls the empty transaction back.
RefuseSale(r) ==
    /\ At(r, "no_row")
    /\ Reply(r, IF req[r].claims.event_id \in Listed THEN "sold_out" ELSE "not_found")
    /\ UNCHANGED <<capacity, tickets_booked, bookings, lock>>

Unlock(r) == lock' = [e \in Events |-> IF lock[e] = r THEN NoRequest ELSE lock[e]]

\* Rows inserted by transactions that have not committed yet.
Uncommitted == {q \in Requests : At(q, "commit")}

\* Fault: an IntegrityError does not undo the increment.
InsertKeepsIncrement(r) ==
    /\ At(r, "insert")
    /\ IF Booked(req[r].claims)
       THEN /\ Unlock(r)
            /\ Go(r, "refind_jti")
            /\ tickets_booked' = [tickets_booked EXCEPT ![req[r].claims.event_id] = @ + 1]
       ELSE Go(r, "commit") /\ UNCHANGED <<lock, tickets_booked>>
    /\ UNCHANGED <<capacity, bookings>>

\* Fault: an IntegrityError leaves the transaction open.
InsertKeepsLock(r) ==
    /\ At(r, "insert")
    /\ IF Booked(req[r].claims) THEN Go(r, "refind_jti") ELSE Go(r, "commit")
    /\ UNCHANGED <<capacity, tickets_booked, bookings, lock>>

\* Fault: only the jti is unique.
InsertByJti(r) ==
    /\ At(r, "insert")
    /\ IF \E b \in bookings : b.jti = req[r].claims.jti
       THEN Unlock(r) /\ Go(r, "refind_jti")
       ELSE UNCHANGED lock /\ Go(r, "commit")
    /\ UNCHANGED <<capacity, tickets_booked, bookings>>

\* The INSERT waits for an uncommitted row it conflicts with, and violates a
\* constraint if it conflicts with a committed one; the transaction is then
\* rolled back, the increment with it.
InsertBooking(r) ==
    /\ At(r, "insert")
    /\ \A q \in Uncommitted : ~Conflict(req[r].claims, req[q].claims)
    /\ IF Booked(req[r].claims)
       THEN Unlock(r) /\ Go(r, "refind_jti")
       ELSE UNCHANGED lock /\ Go(r, "commit")
    /\ UNCHANGED <<capacity, tickets_booked, bookings>>

CommitBooking(r) ==
    LET c == req[r].claims
    IN  /\ At(r, "commit")
        /\ tickets_booked' = [tickets_booked EXCEPT ![c.event_id] = @ + 1]
        /\ bookings' = bookings \cup {c}
        /\ Unlock(r)
        /\ UNCHANGED capacity

\* The worker answers 201, or dies with the answer unsent.
Commit(r) ==
    /\ CommitBooking(r)
    /\ Reply(r, "created") \/ Reply(r, "none")

\* The worker or its connection dies before the COMMIT: PostgreSQL rolls the
\* transaction back and nobody is answered.
Die(r) ==
    /\ ~At(r, "idle")
    /\ Unlock(r)
    /\ Reply(r, "none")
    /\ UNCHANGED <<capacity, tickets_booked, bookings>>

-----------------------------------------------------------------------------

Init ==
    /\ capacity = Capacity
    /\ tickets_booked = [e \in Events |-> 0]
    /\ bookings = {}
    /\ lock = [e \in Events |-> NoRequest]
    /\ \E c \in Claims :
         req = [r \in Requests |-> [at |-> "idle", claims |-> c,
                                    answer |-> "none", replay |-> FALSE]]

\* The steps of a request that is being served.
Serve(r) ==
    \/ FindByJti(r, "find_jti", "find_user")
    \/ FindByUser(r)
    \/ ClaimTicket(r)
    \/ ClaimNothing(r)
    \/ RefuseSale(r)
    \/ InsertBooking(r)
    \/ Commit(r)
    \/ FindByJti(r, "refind_jti", "refind_user")
    \/ RefindByUser(r)

Next ==
    \E r \in Requests :
        \/ \E c \in Claims : Receive(r, c)
        \/ Serve(r)
        \/ Die(r)

Spec == Init /\ [][Next]_vars

\* A worker that has started goes on, and PostgreSQL hands a row's lock to
\* those who wait for it in turn.
Fairness ==
    \A r \in Requests : WF_vars(Serve(r)) /\ SF_vars(ClaimTicket(r))

FairSpec == Spec /\ Fairness

-----------------------------------------------------------------------------
(* Properties.                                                             *)

TypeOK ==
    /\ Listed \subseteq Events /\ capacity \in [Listed -> Nat]
    /\ tickets_booked \in [Events -> Nat]
    /\ bookings \subseteq Claims
    /\ lock \in [Events -> Requests \cup {NoRequest}]
    /\ req \in [Requests -> [at : Places, claims : Claims,
                              answer : Answers, replay : BOOLEAN]]

InTransaction(r) == req[r].at \in {"insert", "commit"}

Locked ==
    /\ \A r \in Requests :
         InTransaction(r) => /\ req[r].claims.event_id \in Listed
                             /\ lock[req[r].claims.event_id] = r
    /\ \A e \in Events :
         lock[e] # NoRequest => /\ InTransaction(lock[e])
                                /\ req[lock[e]].claims.event_id = e

\* Types, and the lock of an event's row is held by exactly the request that
\* is between its matching UPDATE and the end of its transaction: a refusal,
\* an IntegrityError or a dead worker leaves no row locked behind it.
LockProtocol == TypeOK /\ Locked

\* The counter the UPDATE guards and the rows the INSERT adds always agree:
\* a lost race, a rollback or a crash leaves no increment without its row.
CounterMatchesRows ==
    \A e \in Events : tickets_booked[e] = Cardinality(RowsOf(e))

\* There are never more rows than tickets, counting those whose transaction
\* has claimed one and has yet to commit.
NeverOversold ==
    \A e \in Listed :
        Cardinality(RowsOf(e))
          + Cardinality({r \in Requests : /\ InTransaction(r)
                                          /\ req[r].claims.event_id = e})
          <= capacity[e]

\* The re-raise at the end of book_ticket (booking.py:80) is unreachable:
\* whoever loses the race for a constraint finds the booking that won.
LoserFindsWinner == \A r \in Requests : req[r].answer # "error"

\* What a requester was told is so: a ticket he was given is on record, and
\* an event he was told is sold out has sold its last ticket for good, not
\* one that a transaction still open may hand back.
AnswersAreTrue ==
    \A r \in Requests :
        LET c == req[r].claims
        IN  /\ req[r].answer = "created" => c \in bookings
            /\ req[r].answer = "existing" => Booked(c)
            /\ req[r].answer = "sold_out" =>
                 c.event_id \in Listed /\ tickets_booked[c.event_id] = capacity[c.event_id]

\* A request that begins after the booking was made is answered with that
\* booking and nothing else, the event being sold out by then or not.
LateReplayFindsBooking ==
    \A r \in Requests : req[r].replay => req[r].answer \in {"none", "existing"}

\* Retrying with a pass returns its booking (product-spec.md, rule 15): no
\* pass that holds a booking is ever answered that the event is sold out.
ReplayNeverSoldOut ==
    [][\A r \in Requests :
          ~At(r, "idle") /\ req'[r].answer = "sold_out"
            => \A b \in bookings : b.jti # req[r].claims.jti]_vars

\* No deadlock: a transaction that holds an event's row never has to wait for
\* another one's uncommitted booking, which would itself be waiting for rows.
\* Every conflict the INSERT can meet was settled at the row's lock before.
HoldersNeverWait ==
    \A r \in Requests : At(r, "insert") =>
        \A q \in Uncommitted : ~Conflict(req[r].claims, req[q].claims)

\* Every request is answered or its worker dies: none waits for a row for ever.
EveryRequestEnds == \A r \in Requests : ~At(r, "idle") ~> At(r, "idle")

\* The transactions sell tickets one at a time.
TS == INSTANCE TicketSale WITH sold <- bookings

IsTicketSale == TS!SaleSpec

=============================================================================
