----------------------------- MODULE BookingAdmin -----------------------------
(***************************************************************************)
(* The Django admin site of booking_service at work next to book_ticket(). *)
(*                                                                         *)
(* Staff load the page of an Event and submit it at any later time.  The   *)
(* page carries every editable field, tickets_booked among them, and the   *)
(* submission writes all of them back: whatever was booked in between is   *)
(* not counted any more.  Bookings are added and deleted by hand and the   *)
(* counter is not told.  A submission is one transaction with one write,   *)
(* so it is one step, which waits for the lock of the row it writes.       *)
(*                                                                         *)
(*   forms   the pages of events that were loaded: a page may be submitted *)
(*           once, many times or never                                     *)
(***************************************************************************)
EXTENDS Booking

CONSTANT Sizes   \* numbers that staff may type

\* PositiveIntegerField.
ASSUME SizesAssumption == Sizes \subseteq Nat

VARIABLE forms

adminVars == <<vars, forms>>

Free(e) == lock[e] = NoRequest

-----------------------------------------------------------------------------
(* EventAdmin.                                                             *)

LoadEvent(e) ==
    /\ e \in Listed
    /\ forms' = forms \cup {[event_id |-> e, tickets_booked |-> tickets_booked[e]]}
    /\ UNCHANGED vars

\* The counter is a field of the page like any other.
TypeCount(form, n) ==
    /\ forms' = forms \cup {[form EXCEPT !.tickets_booked = n]}
    /\ UNCHANGED vars

\* Fault: no CheckConstraint.
SaveUnchecked(form, size) ==
    /\ form.event_id \in Listed
    /\ Free(form.event_id)
    /\ capacity' = [capacity EXCEPT ![form.event_id] = size]
    /\ tickets_booked' = [tickets_booked EXCEPT ![form.event_id] = form.tickets_booked]
    /\ UNCHANGED <<bookings, lock, req, forms>>

\* event_not_oversold rejects a counter above the capacity, in the form and
\* in PostgreSQL, and nothing else.
SaveEvent(form, size) ==
    /\ form.event_id \in Listed
    /\ Free(form.event_id)
    /\ form.tickets_booked <= size
    /\ capacity' = [capacity EXCEPT ![form.event_id] = size]
    /\ tickets_booked' = [tickets_booked EXCEPT ![form.event_id] = form.tickets_booked]
    /\ UNCHANGED <<bookings, lock, req, forms>>

\* Also what becomes of a page submitted under another event_id, the key.
AddEvent(e, size, n) ==
    /\ e \notin Listed
    /\ n <= size
    /\ capacity' = [d \in Listed \cup {e} |-> IF d = e THEN size ELSE capacity[d]]
    /\ tickets_booked' = [tickets_booked EXCEPT ![e] = n]
    /\ UNCHANGED <<bookings, lock, req, forms>>

Unlist(e) ==
    /\ capacity' = [d \in Listed \ {e} |-> capacity[d]]
    /\ tickets_booked' = [tickets_booked EXCEPT ![e] = 0]
    /\ UNCHANGED <<bookings, lock, req, forms>>

\* Fault: the foreign key does not protect the event.
DeleteUnprotected(e) ==
    /\ e \in Listed
    /\ Free(e)
    /\ Unlist(e)

\* PROTECT: an event that somebody has booked is not deleted.
DeleteEvent(e) ==
    /\ e \in Listed
    /\ Free(e)
    /\ RowsOf(e) = {}
    /\ Unlist(e)

-----------------------------------------------------------------------------
(* BookingAdmin; an edit is a deletion and an addition.                    *)

\* The row waits for those it conflicts with, and must satisfy the
\* constraints; the row of the event is only shared and need not be free.
AddBooking(c) ==
    /\ c.event_id \in Listed
    /\ \A q \in Uncommitted : ~Conflict(c, req[q].claims)
    /\ ~Booked(c)
    /\ bookings' = bookings \cup {c}
    /\ UNCHANGED <<capacity, tickets_booked, lock, req, forms>>

DeleteBooking(c) ==
    /\ c \in bookings
    /\ bookings' = bookings \ {c}
    /\ UNCHANGED <<capacity, tickets_booked, lock, req, forms>>

-----------------------------------------------------------------------------

AdminInit == Init /\ forms = {}

Administer ==
    \/ \E e \in Events : LoadEvent(e) \/ DeleteEvent(e)
    \/ \E form \in forms, n \in Sizes : TypeCount(form, n) \/ SaveEvent(form, n)
    \/ \E e \in Events, size, n \in Sizes : AddEvent(e, size, n)
    \/ \E c \in Claims : AddBooking(c) \/ DeleteBooking(c)

AdminNext == (Next /\ UNCHANGED forms) \/ Administer

AdminSpec == AdminInit /\ [][AdminNext]_adminVars

\* Staff are under no fairness.
AdminFairSpec == AdminSpec /\ Fairness

-----------------------------------------------------------------------------
(* What survives the staff.                                                *)

\* Types, and the locks are still those of book_ticket's transactions: no
\* submission is ever made under an open one, or leaves a row locked.
AdminTypeOK ==
    /\ LockProtocol
    /\ forms \subseteq [event_id : Events, tickets_booked : Nat]

Open(e) == {r \in Requests : InTransaction(r) /\ req[r].claims.event_id = e}

\* The counter, with the increments that are still to be committed, never
\* exceeds the capacity, whatever staff make of either.
CounterWithinCapacity ==
    \A e \in Listed : tickets_booked[e] + Cardinality(Open(e)) <= capacity[e]

\* Every booking is for an event that exists, and so is every one that a
\* transaction has yet to insert or commit.
BookingsHaveEvents ==
    /\ \A b \in bookings : b.event_id \in Listed
    /\ \A r \in Requests : InTransaction(r) => req[r].claims.event_id \in Listed

Miscount(e) == Cardinality(RowsOf(e)) - tickets_booked[e]

\* Rows and counter drift apart by submissions only: no step of a request,
\* a rollback or a crash included, adds to a difference or hides one.
RequestsCountRight ==
    [][req' # req => \A e \in Events : Miscount(e)' = Miscount(e)]_adminVars

=============================================================================
