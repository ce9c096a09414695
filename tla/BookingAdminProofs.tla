-------------------------- MODULE BookingAdminProofs --------------------------
(***************************************************************************)
(* Proofs about BookingAdmin: what book_ticket keeps whatever staff do.    *)
(*                                                                         *)
(* AdminInv is what is left of BookingProofs' Inv when rows and counter    *)
(* may differ: the lock protocol, the room under a lock, and that a row    *)
(* that waits for its COMMIT is new.  It says nothing of answers.          *)
(***************************************************************************)
EXTENDS BookingAdmin, BookingProofs

USE DEF Listed

\* The counter is within the capacity, with one more while the row is locked.
Room ==
    \A e \in Listed :
        /\ tickets_booked[e] <= capacity[e]
        /\ lock[e] # NoRequest => tickets_booked[e] < capacity[e]

Rows ==
    /\ IsFiniteSet(bookings)
    /\ \A b \in bookings : b.event_id \in Listed
    /\ \A r \in Requests : At(r, "commit") => ~Booked(req[r].claims)

AdminInv == AdminTypeOK /\ Room /\ Rows

-----------------------------------------------------------------------------
(* The steps of a request.                                                 *)

\* What a step of r other than a commit must keep.
LEMMA RequestStep ==
    ASSUME AdminInv, NEW r \in Requests, UNCHANGED <<capacity, tickets_booked, bookings, forms>>,
           TypeOK', Locked',
           \A e \in Events : lock'[e] \in {lock[e], NoRequest} \/ tickets_booked[e] < capacity[e],
           \A q \in Requests \ {r} : req'[q] = req[q],
           At(r, "commit")' => ~Booked(req'[r].claims)
    PROVE  AdminInv'
<1>1. AdminTypeOK'
  BY DEF AdminInv, AdminTypeOK, LockProtocol
<1>2. Room'
  BY DEF AdminInv, AdminTypeOK, LockProtocol, TypeOK, Room
<1>3. Rows'
  BY DEF AdminInv, Rows, At, Booked
<1>4. QED
  BY <1>1, <1>2, <1>3 DEF AdminInv

\* A step of r outside a transaction.
LEMMA OutsideStep ==
    ASSUME AdminInv, NEW r \in Requests,
           UNCHANGED <<capacity, tickets_booked, bookings, lock, forms>>,
           req' \in [Requests -> [at : Places, claims : Claims,
                                  answer : Answers, replay : BOOLEAN]],
           \A q \in Requests \ {r} : req'[q] = req[q],
           ~InTransaction(r), ~InTransaction(r)'
    PROVE  AdminInv'
<1>1. TypeOK /\ Locked
  BY DEF AdminInv, AdminTypeOK, LockProtocol
<1>2. TypeOK'
  BY <1>1 DEF TypeOK
<1>3. Locked'
  BY <1>1, SameLocks
<1>4. QED
  BY <1>2, <1>3, RequestStep DEF At, InTransaction

\* A rollback by r.
LEMMA BackOut ==
    ASSUME AdminInv, NEW r \in Requests, Unlock(r),
           UNCHANGED <<capacity, tickets_booked, bookings, forms>>,
           req' \in [Requests -> [at : Places, claims : Claims,
                                  answer : Answers, replay : BOOLEAN]],
           \A q \in Requests \ {r} : req'[q] = req[q],
           ~InTransaction(r)'
    PROVE  AdminInv'
<1>1. TypeOK /\ Locked
  BY DEF AdminInv, AdminTypeOK, LockProtocol
<1>2. Locked' /\ lock' \in [Events -> Requests \cup {NoRequest}]
  BY <1>1, UnlockLocked
<1>3. TypeOK'
  BY <1>1, <1>2 DEF TypeOK
<1>4. \A e \in Events : lock'[e] \in {lock[e], NoRequest}
  BY DEF Unlock
<1>5. QED
  BY <1>2, <1>3, <1>4, RequestStep DEF At, InTransaction

\* Receiving, searching, finding no room, refusing.
LEMMA LookOK ==
    ASSUME AdminInv, UNCHANGED forms, NEW r \in Requests,
           \/ \E c \in Claims : Receive(r, c)
           \/ FindByJti(r, "find_jti", "find_user")
           \/ FindByJti(r, "refind_jti", "refind_user")
           \/ FindByUser(r) \/ RefindByUser(r) \/ ClaimNothing(r) \/ RefuseSale(r)
    PROVE  AdminInv'
<1>1. TypeOK
  BY DEF AdminInv, AdminTypeOK, LockProtocol
<1>2. ~InTransaction(r) /\ UNCHANGED <<capacity, tickets_booked, bookings, lock>>
  BY DEF Receive, FindByJti, FindByUser, RefindByUser, ClaimNothing, RefuseSale,
         At, InTransaction
<1>3. CASE \E c \in Claims : Receive(r, c)
  <2>1. PICK c \in Claims : Receive(r, c)
    BY <1>3
  <2>2. /\ req'[r].at = "find_jti" /\ \A q \in Requests \ {r} : req'[q] = req[q]
        /\ req' \in [Requests -> [at : Places, claims : Claims,
                                  answer : Answers, replay : BOOLEAN]]
    BY <1>1, <2>1 DEF Receive, TypeOK, Places, Answers, Booked
  <2>3. QED
    BY <1>2, <2>2, OutsideStep DEF InTransaction
<1>4. ASSUME NEW place \in {"find_user", "refind_user", "update", "no_row"}, Go(r, place)
      PROVE  AdminInv'
  <2>1. place \in Places
    BY DEF Places
  <2>2. QED
    BY <1>1, <1>2, <1>4, <2>1, GoFacts, OutsideStep DEF InTransaction
<1>5. ASSUME NEW answer \in {"existing", "error", "sold_out", "not_found"}, Reply(r, answer)
      PROVE  AdminInv'
  <2>1. answer \in Answers
    BY DEF Answers
  <2>2. QED
    BY <1>1, <1>2, <1>5, <2>1, ReplyFacts, OutsideStep DEF InTransaction
<1>6. QED
  BY <1>3, <1>4, <1>5 DEF FindByJti, FindByUser, RefindByUser, ClaimNothing, RefuseSale

LEMMA AdminClaimOK ==
    ASSUME AdminInv, UNCHANGED forms, NEW r \in Requests, ClaimTicket(r)
    PROVE  AdminInv'
<1>1. TypeOK /\ Locked
  BY DEF AdminInv, AdminTypeOK, LockProtocol
<1>2. TypeOK' /\ Locked'
  BY <1>1, ClaimLocked
<1>3. req'[r].at = "insert" /\ \A q \in Requests \ {r} : req'[q] = req[q]
  <2>1. "insert" \in Places /\ Go(r, "insert")
    BY DEF Places, ClaimTicket
  <2>2. QED
    BY <1>1, <2>1, GoFacts
<1>4. /\ UNCHANGED <<capacity, tickets_booked, bookings>>
      /\ \A e \in Events : lock'[e] \in {lock[e], NoRequest} \/ tickets_booked[e] < capacity[e]
  BY <1>1 DEF ClaimTicket, HasRoom, TypeOK
<1>5. QED
  BY <1>2, <1>3, <1>4, RequestStep DEF At

LEMMA AdminInsertOK ==
    ASSUME AdminInv, UNCHANGED forms, NEW r \in Requests, InsertBooking(r)
    PROVE  AdminInv'
<1>1. /\ TypeOK /\ Locked /\ req[r].at = "insert"
      /\ UNCHANGED <<capacity, tickets_booked, bookings>>
      /\ "refind_jti" \in Places /\ "commit" \in Places
  BY DEF AdminInv, AdminTypeOK, LockProtocol, InsertBooking, At, Places
<1>2. CASE Booked(req[r].claims)
  <2>1. Unlock(r) /\ Go(r, "refind_jti")
    BY <1>2 DEF InsertBooking
  <2>2. QED
    BY <1>1, <2>1, GoFacts, BackOut DEF InTransaction
<1>3. CASE ~Booked(req[r].claims)
  <2>1. UNCHANGED lock /\ Go(r, "commit")
    BY <1>3 DEF InsertBooking
  <2>2. /\ req'[r].at = "commit" /\ req'[r].claims = req[r].claims
        /\ \A q \in Requests \ {r} : req'[q] = req[q]
    BY <1>1, <2>1, GoFacts
  <2>3. TypeOK'
    BY <1>1, <2>1, GoFacts DEF TypeOK
  <2>4. Locked'
    BY <1>1, <2>1, <2>2, SameLocks DEF InTransaction
  <2>5. \A e \in Events : lock'[e] \in {lock[e], NoRequest}
    BY <2>1
  <2>6. QED
    BY <1>1, <1>3, <2>2, <2>3, <2>4, <2>5, RequestStep DEF At
<1>4. QED
  BY <1>2, <1>3

LEMMA AdminDieOK ==
    ASSUME AdminInv, UNCHANGED forms, NEW r \in Requests, Die(r)
    PROVE  AdminInv'
<1>1. /\ TypeOK /\ Unlock(r) /\ Reply(r, "none") /\ "none" \in Answers
      /\ UNCHANGED <<capacity, tickets_booked, bookings>>
  BY DEF AdminInv, AdminTypeOK, LockProtocol, Die, Answers
<1>2. QED
  BY <1>1, ReplyFacts, BackOut DEF InTransaction

\* What a COMMIT does to the tables.
LEMMA CommitFacts ==
    ASSUME AdminInv, UNCHANGED forms, NEW r \in Requests, Commit(r)
    PROVE  LET c == req[r].claims
               e == req[r].claims.event_id
           IN  /\ e \in Listed /\ e \in Events /\ c \in Claims
               /\ tickets_booked[e] \in Nat /\ tickets_booked[e] < capacity[e]
               /\ tickets_booked' = [tickets_booked EXCEPT ![e] = @ + 1]
               /\ bookings' = bookings \cup {c} /\ c \notin bookings
               /\ UNCHANGED capacity
               /\ req'[r].at = "idle" /\ \A q \in Requests \ {r} : req'[q] = req[q]
               /\ lock'[e] = NoRequest
               /\ \A d \in Events : lock'[d] \in {lock[d], NoRequest}
               /\ lock[e] = r
               /\ TypeOK' /\ Locked'
<1> DEFINE c == req[r].claims
           e == req[r].claims.event_id
<1>1. PICK answer \in {"created", "none"} : Reply(r, answer)
  BY DEF Commit
<1>2. /\ TypeOK /\ Locked /\ req[r].at = "commit" /\ InTransaction(r) /\ Unlock(r)
      /\ tickets_booked' = [tickets_booked EXCEPT ![e] = @ + 1]
      /\ bookings' = bookings \cup {c} /\ UNCHANGED capacity
      /\ answer \in Answers /\ c \in Claims
  BY DEF Commit, CommitBooking, At, AdminInv, AdminTypeOK, LockProtocol, InTransaction,
         Answers, TypeOK
<1>3. /\ e \in Listed /\ e \in Events /\ lock[e] = r /\ tickets_booked[e] \in Nat
  BY <1>2 DEF Locked, TypeOK
<1>4. tickets_booked[e] < capacity[e]
  BY <1>3, NoRequestAssumption DEF AdminInv, Room
<1>5. c \notin bookings
  BY <1>2 DEF AdminInv, Rows, At, Booked, Conflict
<1>6. /\ req'[r].at = "idle" /\ \A q \in Requests \ {r} : req'[q] = req[q]
      /\ req' \in [Requests -> [at : Places, claims : Claims,
                                answer : Answers, replay : BOOLEAN]]
  BY <1>1, <1>2, ReplyFacts
<1>7. Locked' /\ lock' \in [Events -> Requests \cup {NoRequest}]
  BY <1>2, <1>6, UnlockLocked DEF InTransaction
<1>8. lock'[e] = NoRequest /\ \A d \in Events : lock'[d] \in {lock[d], NoRequest}
  BY <1>2, <1>3 DEF Unlock
<1>9. tickets_booked' \in [Events -> Nat] /\ bookings' \subseteq Claims
  BY <1>2, <1>3 DEF TypeOK
<1>10. TypeOK'
  BY <1>2, <1>6, <1>7, <1>9 DEF TypeOK
<1>11. QED
  BY <1>2, <1>3, <1>4, <1>5, <1>6, <1>7, <1>8, <1>10

LEMMA AdminCommitOK ==
    ASSUME AdminInv, UNCHANGED forms, NEW r \in Requests, Commit(r)
    PROVE  AdminInv'
<1> DEFINE c == req[r].claims
           e == req[r].claims.event_id
<1>1. /\ e \in Listed /\ e \in Events /\ c \in Claims
      /\ tickets_booked[e] \in Nat /\ tickets_booked[e] < capacity[e]
      /\ tickets_booked' = [tickets_booked EXCEPT ![e] = @ + 1]
      /\ bookings' = bookings \cup {c} /\ c \notin bookings
      /\ UNCHANGED capacity
      /\ req'[r].at = "idle" /\ \A q \in Requests \ {r} : req'[q] = req[q]
      /\ lock'[e] = NoRequest
      /\ \A d \in Events : lock'[d] \in {lock[d], NoRequest}
      /\ lock[e] = r
      /\ TypeOK' /\ Locked'
  BY CommitFacts
<1>2. TypeOK /\ Locked
  BY DEF AdminInv, AdminTypeOK, LockProtocol
<1>3. AdminTypeOK'
  BY <1>1 DEF AdminInv, AdminTypeOK, LockProtocol
<1>4. Room'
  <2> SUFFICES ASSUME NEW d \in Listed
               PROVE  /\ tickets_booked'[d] <= capacity[d]
                      /\ lock'[d] # NoRequest => tickets_booked'[d] < capacity[d]
    BY <1>1 DEF Room
  <2>1. d \in Events /\ capacity[d] \in Nat /\ capacity[e] \in Nat
    BY <1>1, <1>2 DEF TypeOK
  <2>2. CASE d = e
    BY <1>1, <1>2, <2>1, <2>2 DEF TypeOK
  <2>3. CASE d # e
    BY <1>1, <1>2, <2>1, <2>3 DEF TypeOK, AdminInv, Room
  <2>4. QED
    BY <2>2, <2>3
<1>5. Rows'
  <2>1. IsFiniteSet(bookings')
    BY <1>1, FS_AddElement DEF AdminInv, Rows
  <2>2. \A b \in bookings' : b.event_id \in Listed'
    BY <1>1 DEF AdminInv, Rows
  <2>3. ASSUME NEW q \in Requests, req'[q].at = "commit"
        PROVE  ~Booked(req[q].claims)' /\ req'[q] = req[q]
    <3>1. q # r /\ req'[q] = req[q] /\ At(q, "commit") /\ ~Booked(req[q].claims)
      BY <1>1, <2>3 DEF AdminInv, Rows, At
    <3>2. ~Conflict(req[q].claims, c)
      <4>1. SUFFICES ASSUME Conflict(req[q].claims, c) PROVE FALSE
        OBVIOUS
      <4>2. req[q].claims \in Claims /\ req[q].claims.event_id = e
        BY <1>1, <1>2, <4>1, ClaimsAssumption DEF Conflict, TypeOK
      <4>3. lock[e] = q
        BY <1>2, <3>1, <4>2 DEF Locked, InTransaction, At
      <4>4. QED
        BY <1>1, <3>1, <4>3
    <3>3. \A b \in bookings' : ~Conflict(req[q].claims, b)
      BY <1>1, <3>1, <3>2 DEF Booked
    <3>4. QED
      BY <1>1, <3>1, <3>3 DEF Booked
  <2>4. QED
    BY <2>1, <2>2, <2>3 DEF Rows, At, Booked
<1>6. QED
  BY <1>3, <1>4, <1>5 DEF AdminInv

-----------------------------------------------------------------------------
(* The submissions of staff.                                               *)

\* Who holds the lock of a row that exists still does.
LEMMA StaffLocks ==
    ASSUME TypeOK, Locked, UNCHANGED <<lock, req>>,
           \A e \in Listed : lock[e] # NoRequest => e \in Listed'
    PROVE  Locked'
<1>1. ASSUME NEW r \in Requests, InTransaction(r)
      PROVE  /\ req[r].claims.event_id \in Listed'
             /\ lock[req[r].claims.event_id] = r
  BY <1>1, NoRequestAssumption DEF Locked
<1>2. QED
  BY <1>1 DEF Locked, InTransaction

LEMMA SaveEventOK ==
    ASSUME AdminInv, NEW form \in forms, NEW size \in Sizes, SaveEvent(form, size)
    PROVE  AdminInv'
<1> DEFINE e == form.event_id
<1>1. /\ TypeOK /\ Locked /\ forms \subseteq [event_id : Events, tickets_booked : Nat]
      /\ e \in Events /\ form.tickets_booked \in Nat /\ size \in Nat
      /\ e \in Listed /\ lock[e] = NoRequest /\ form.tickets_booked <= size
      /\ capacity' = [capacity EXCEPT ![e] = size]
      /\ tickets_booked' = [tickets_booked EXCEPT ![e] = form.tickets_booked]
      /\ UNCHANGED <<bookings, lock, req, forms>>
  BY SizesAssumption DEF AdminInv, AdminTypeOK, LockProtocol, SaveEvent, Free
<1>2. /\ Listed' = Listed
      /\ capacity' \in [Listed -> Nat] /\ tickets_booked' \in [Events -> Nat]
  BY <1>1 DEF TypeOK
<1>3. TypeOK'
  BY <1>1, <1>2 DEF TypeOK
<1>4. Locked'
  BY <1>1, <1>2, StaffLocks
<1>5. Room'
  BY <1>1, <1>2 DEF AdminInv, Room, TypeOK
<1>6. Rows'
  BY <1>1, <1>2 DEF AdminInv, Rows, At, Booked
<1>7. QED
  BY <1>1, <1>3, <1>4, <1>5, <1>6 DEF AdminInv, AdminTypeOK, LockProtocol

LEMMA AddEventOK ==
    ASSUME AdminInv, NEW e \in Events, NEW size \in Sizes, NEW n \in Sizes,
           AddEvent(e, size, n)
    PROVE  AdminInv'
<1>1. /\ TypeOK /\ Locked /\ forms \subseteq [event_id : Events, tickets_booked : Nat]
      /\ size \in Nat /\ n \in Nat /\ n <= size /\ e \notin Listed
      /\ capacity' = [d \in Listed \cup {e} |-> IF d = e THEN size ELSE capacity[d]]
      /\ tickets_booked' = [tickets_booked EXCEPT ![e] = n]
      /\ UNCHANGED <<bookings, lock, req, forms>>
  BY SizesAssumption DEF AdminInv, AdminTypeOK, LockProtocol, AddEvent
<1>2. /\ Listed' = Listed \cup {e}
      /\ capacity' \in [Listed' -> Nat] /\ tickets_booked' \in [Events -> Nat]
  BY <1>1 DEF TypeOK
<1>3. TypeOK'
  BY <1>1, <1>2 DEF TypeOK
<1>4. Locked'
  BY <1>1, <1>2, StaffLocks
<1>5. lock[e] = NoRequest
  BY <1>1 DEF Locked, TypeOK
<1>6. Room'
  BY <1>1, <1>2, <1>5 DEF AdminInv, Room, TypeOK
<1>7. Rows'
  BY <1>1, <1>2 DEF AdminInv, Rows, At, Booked
<1>8. QED
  BY <1>1, <1>3, <1>4, <1>6, <1>7 DEF AdminInv, AdminTypeOK, LockProtocol

LEMMA DeleteEventOK ==
    ASSUME AdminInv, NEW e \in Events, DeleteEvent(e)
    PROVE  AdminInv'
<1>1. /\ TypeOK /\ Locked /\ forms \subseteq [event_id : Events, tickets_booked : Nat]
      /\ lock[e] = NoRequest /\ RowsOf(e) = {}
      /\ capacity' = [d \in Listed \ {e} |-> capacity[d]]
      /\ tickets_booked' = [tickets_booked EXCEPT ![e] = 0]
      /\ UNCHANGED <<bookings, lock, req, forms>>
  BY DEF AdminInv, AdminTypeOK, LockProtocol, DeleteEvent, Unlist, Free
<1>2. /\ Listed' = Listed \ {e}
      /\ capacity' \in [Listed' -> Nat] /\ tickets_booked' \in [Events -> Nat]
  BY <1>1 DEF TypeOK
<1>3. TypeOK'
  BY <1>1, <1>2 DEF TypeOK
<1>4. Locked'
  BY <1>1, <1>2, StaffLocks
<1>5. Room'
  BY <1>1, <1>2 DEF AdminInv, Room, TypeOK
<1>6. Rows'
  BY <1>1, <1>2 DEF AdminInv, Rows, RowsOf, At, Booked
<1>7. QED
  BY <1>1, <1>3, <1>4, <1>5, <1>6 DEF AdminInv, AdminTypeOK, LockProtocol

\* A Booking added or deleted by hand: only the rows change.
LEMMA ByHandOK ==
    ASSUME AdminInv, NEW c \in Claims, AddBooking(c) \/ DeleteBooking(c)
    PROVE  AdminInv'
<1>1. /\ TypeOK /\ Locked /\ UNCHANGED <<capacity, tickets_booked, lock, req, forms>>
      /\ bookings' = bookings \cup {c} \/ bookings' = bookings \ {c}
  BY DEF AdminInv, AdminTypeOK, LockProtocol, AddBooking, DeleteBooking
<1>2. TypeOK' /\ Locked'
  BY <1>1, StaffLocks DEF TypeOK
<1>3. AdminTypeOK' /\ Room'
  BY <1>1, <1>2 DEF AdminInv, AdminTypeOK, LockProtocol, Room
<1>4. IsFiniteSet(bookings')
  BY <1>1, FS_AddElement, FS_RemoveElement DEF AdminInv, Rows
<1>5. CASE AddBooking(c)
  <2>1. /\ c.event_id \in Listed /\ bookings' = bookings \cup {c}
        /\ \A q \in Requests : At(q, "commit") => ~Conflict(req[q].claims, c)
    BY <1>5 DEF AddBooking, Uncommitted, Conflict
  <2>2. QED
    BY <1>1, <1>3, <1>4, <2>1 DEF AdminInv, Rows, At, Booked
<1>6. CASE DeleteBooking(c)
  <2>1. bookings' \subseteq bookings
    BY <1>6 DEF DeleteBooking
  <2>2. QED
    BY <1>1, <1>3, <1>4, <2>1 DEF AdminInv, Rows, At, Booked
<1>7. QED
  BY <1>5, <1>6

LEMMA LoadEventOK ==
    ASSUME AdminInv, NEW e \in Events, LoadEvent(e)
    PROVE  AdminInv'
<1>1. TypeOK /\ Locked /\ UNCHANGED <<capacity, tickets_booked, bookings, lock, req>>
  BY DEF AdminInv, AdminTypeOK, LockProtocol, LoadEvent, vars
<1>2. forms' \subseteq [event_id : Events, tickets_booked : Nat]
  BY DEF LoadEvent, AdminInv, AdminTypeOK, LockProtocol, TypeOK
<1>3. TypeOK' /\ Locked'
  BY <1>1, StaffLocks DEF TypeOK
<1>4. QED
  BY <1>1, <1>2, <1>3
  DEF AdminInv, AdminTypeOK, LockProtocol, Room, Rows, At, Booked

LEMMA TypeCountOK ==
    ASSUME AdminInv, NEW form \in forms, NEW n \in Sizes, TypeCount(form, n)
    PROVE  AdminInv'
<1>1. TypeOK /\ Locked /\ UNCHANGED <<capacity, tickets_booked, bookings, lock, req>>
  BY DEF AdminInv, AdminTypeOK, LockProtocol, TypeCount, vars
<1>2. forms' \subseteq [event_id : Events, tickets_booked : Nat]
  BY SizesAssumption DEF TypeCount, AdminInv, AdminTypeOK
<1>3. TypeOK' /\ Locked'
  BY <1>1, StaffLocks DEF TypeOK
<1>4. QED
  BY <1>1, <1>2, <1>3
  DEF AdminInv, AdminTypeOK, LockProtocol, Room, Rows, At, Booked

\* Nothing that staff submit, at any moment, breaks what book_ticket relies on.
THEOREM AdminInvariant == AdminSpec => []AdminInv
<1>1. AdminInit => AdminInv
  <2> SUFFICES ASSUME AdminInit PROVE AdminInv
    OBVIOUS
  <2>1. Inv /\ forms = {} /\ bookings = {}
    BY InitOK DEF AdminInit, Init
  <2>2. AdminTypeOK /\ Room
    BY <2>1 DEF Inv, Tables, AdminTypeOK, LockProtocol, Room
  <2>3. Rows
    BY <2>1, FS_EmptySet DEF Rows, Booked
  <2>4. QED
    BY <2>2, <2>3 DEF AdminInv
<1>2. AdminInv /\ [AdminNext]_adminVars => AdminInv'
  <2> SUFFICES ASSUME AdminInv, [AdminNext]_adminVars PROVE AdminInv'
    OBVIOUS
  <2>1. ASSUME UNCHANGED forms, NEW r \in Requests, NEW c \in Claims, Receive(r, c)
        PROVE  AdminInv'
    BY <2>1, LookOK
  <2>2. ASSUME UNCHANGED forms, NEW r \in Requests, Serve(r) PROVE AdminInv'
    BY <2>2, LookOK, AdminClaimOK, AdminInsertOK, AdminCommitOK DEF Serve
  <2>3. ASSUME UNCHANGED forms, NEW r \in Requests, Die(r) PROVE AdminInv'
    BY <2>3, AdminDieOK
  <2>4. CASE Administer
    BY <2>4, LoadEventOK, TypeCountOK, SaveEventOK, AddEventOK, DeleteEventOK, ByHandOK DEF Administer
  <2>5. CASE UNCHANGED adminVars
    <3>1. UNCHANGED <<capacity, tickets_booked, bookings, lock, req, forms>>
      BY <2>5 DEF adminVars, vars
    <3>2. TypeOK' /\ Locked'
      BY <3>1, StaffLocks DEF AdminInv, AdminTypeOK, LockProtocol, TypeOK
    <3>3. QED
      BY <3>1, <3>2 DEF AdminInv, AdminTypeOK, LockProtocol, Room, Rows, At, Booked
  <2>6. QED
    BY <2>1, <2>2, <2>3, <2>4, <2>5 DEF AdminNext, Next
<1>3. QED
  BY <1>1, <1>2, PTL DEF AdminSpec

-----------------------------------------------------------------------------
(* What it gives.                                                          *)

\* The state has its types, and the locks are those of book_ticket.
THEOREM AdminTypes == AdminSpec => []AdminTypeOK
<1>1. AdminInv => AdminTypeOK
  BY DEF AdminInv
<1>2. QED
  BY <1>1, AdminInvariant, PTL

\* The counter, open increments included, stays within the capacity while
\* staff change either.
THEOREM CounterAlwaysWithinCapacity == AdminSpec => []CounterWithinCapacity
<1>1. AdminInv => CounterWithinCapacity
  <2> SUFFICES ASSUME AdminInv, NEW e \in Listed
               PROVE  tickets_booked[e] + Cardinality(Open(e)) <= capacity[e]
    BY DEF CounterWithinCapacity
  <2>1. \A r \in Open(e) : lock[e] = r /\ r \in Requests
    BY DEF Open, AdminInv, AdminTypeOK, LockProtocol, Locked
  <2>2. /\ tickets_booked[e] \in Nat /\ capacity[e] \in Nat
        /\ tickets_booked[e] <= capacity[e]
        /\ lock[e] # NoRequest => tickets_booked[e] < capacity[e]
    BY DEF AdminInv, AdminTypeOK, LockProtocol, TypeOK, Room
  <2>3. CASE Open(e) = {}
    BY <2>2, <2>3, FS_EmptySet
  <2>4. CASE Open(e) # {}
    <3>1. Open(e) = {lock[e]} /\ lock[e] # NoRequest
      BY <2>1, <2>4, NoRequestAssumption
    <3>2. Cardinality(Open(e)) = 1
      BY <3>1, FS_Singleton
    <3>3. QED
      BY <2>2, <3>1, <3>2
  <2>5. QED
    BY <2>3, <2>4
<1>2. QED
  BY <1>1, AdminInvariant, PTL

\* No booking loses its event, and no transaction its event's row.
THEOREM BookingsAlwaysHaveEvents == AdminSpec => []BookingsHaveEvents
<1>1. AdminInv => BookingsHaveEvents
  BY DEF AdminInv, Rows, AdminTypeOK, LockProtocol, Locked, BookingsHaveEvents
<1>2. QED
  BY <1>1, AdminInvariant, PTL

\* Whatever staff have made of them, a request moves rows and counter together.
THEOREM RequestsAlwaysCountRight == AdminSpec => RequestsCountRight
<1>1. AdminInv /\ [AdminNext]_adminVars
        => [req' # req => \A e \in Events : Miscount(e)' = Miscount(e)]_adminVars
  <2> SUFFICES ASSUME AdminInv, [AdminNext]_adminVars, req' # req, NEW d \in Events
               PROVE  Miscount(d)' = Miscount(d)
    OBVIOUS
  <2>1. PICK r \in Requests : (\E c \in Claims : Receive(r, c)) \/ Serve(r) \/ Die(r)
    BY DEF AdminNext, Next, Administer, LoadEvent, TypeCount, SaveEvent, AddEvent, DeleteEvent, Unlist,
           AddBooking, DeleteBooking, adminVars, vars
  <2>2. CASE UNCHANGED <<tickets_booked, bookings>>
    BY <2>2 DEF Miscount, RowsOf
  <2>3. CASE ~UNCHANGED <<tickets_booked, bookings>>
    <3>1. Commit(r)
      BY <2>1, <2>3 DEF Serve, Receive, Die, FindByJti, FindByUser, RefindByUser, ClaimTicket,
             ClaimNothing, RefuseSale, InsertBooking
    <3> DEFINE c == req[r].claims
               e == req[r].claims.event_id
    <3>2. UNCHANGED forms
      BY <2>3 DEF AdminNext, Administer, LoadEvent, TypeCount, SaveEvent, AddEvent, DeleteEvent, Unlist,
             AddBooking, DeleteBooking, adminVars, vars
    <3>3. /\ e \in Events /\ tickets_booked[e] \in Nat
          /\ tickets_booked' = [tickets_booked EXCEPT ![e] = @ + 1]
          /\ bookings' = bookings \cup {c} /\ c \notin bookings
      BY <3>1, <3>2, CommitFacts
    <3>4. tickets_booked \in [Events -> Nat]
      BY DEF AdminInv, AdminTypeOK, LockProtocol, TypeOK
    <3>5. CASE d = e
      <4>1. RowsOf(d)' = RowsOf(d) \cup {c} /\ c \notin RowsOf(d)
        BY <3>3, <3>5 DEF RowsOf
      <4>2. IsFiniteSet(RowsOf(d))
        BY FS_Subset DEF RowsOf, AdminInv, Rows
      <4>3. Cardinality(RowsOf(d)') = Cardinality(RowsOf(d)) + 1
        BY <4>1, <4>2, FS_AddElement
      <4>4. Cardinality(RowsOf(d)) \in Nat
        BY <4>2, FS_CardinalityType
      <4>5. QED
        BY <3>3, <3>4, <3>5, <4>3, <4>4 DEF Miscount
    <3>6. CASE d # e
      <4>1. RowsOf(d)' = RowsOf(d) /\ tickets_booked'[d] = tickets_booked[d]
        BY <3>3, <3>4, <3>6 DEF RowsOf
      <4>2. QED
        BY <4>1 DEF Miscount
    <3>7. QED
      BY <3>5, <3>6
  <2>4. QED
    BY <2>2, <2>3
<1>2. QED
  BY <1>1, AdminInvariant, PTL DEF AdminSpec, RequestsCountRight

\* Nor do the transactions deadlock while staff resize, delete and add events.
THEOREM HoldersProceedDespiteStaff == AdminSpec => []HoldersNeverWait
<1>1. AdminInv => HoldersNeverWait
  BY OneHolder DEF AdminInv, AdminTypeOK, LockProtocol
<1>2. QED
  BY <1>1, AdminInvariant, PTL

=============================================================================
