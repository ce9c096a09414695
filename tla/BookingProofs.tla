---------------------------- MODULE BookingProofs ----------------------------
(***************************************************************************)
(* Proofs about Booking, for any requests, claims and capacities.          *)
(*                                                                         *)
(* The inductive invariant Inv says what the row lock protects: the lock   *)
(* of an event is held by exactly the request that is between its UPDATE   *)
(* and the end of its transaction (Locked), while it is held there is room *)
(* for one more (Tables), and each request knows what its place in         *)
(* book_ticket tells it (Sound).                                           *)
(***************************************************************************)
EXTENDS Booking, FiniteSetTheorems, TLAPS

USE DEF Listed

Tables ==
    /\ capacity = Capacity
    /\ IsFiniteSet(bookings)
    /\ \A e \in Events : tickets_booked[e] = Cardinality(RowsOf(e))
    /\ \A e \in Listed :
         /\ tickets_booked[e] <= capacity[e]
         /\ lock[e] # NoRequest => tickets_booked[e] < capacity[e]

Full(e) == e \in Listed /\ tickets_booked[e] = capacity[e]

\* What request r may conclude from where it is and what it answered.
Sound(r) ==
    LET c == req[r].claims
    IN  /\ req[r].at = "commit" => ~Booked(c)
        /\ req[r].at = "no_row" /\ c.event_id \in Listed => Full(c.event_id)
        /\ req[r].at = "refind_jti" => Booked(c)
        /\ req[r].at = "refind_user" => HoldsTicket(c)
        /\ req[r].answer = "created" => c \in bookings
        /\ req[r].answer = "existing" => Booked(c)
        /\ req[r].answer = "sold_out" => Full(c.event_id)
        /\ req[r].answer # "error"
        /\ req[r].at # "idle" => req[r].answer = "none"
        /\ req[r].replay =>
             /\ Booked(c)
             /\ req[r].at \in {"idle", "find_jti", "find_user"}
             /\ req[r].at = "find_user" => HoldsTicket(c)
             /\ req[r].answer \in {"none", "existing"}

Inv ==
    /\ TypeOK
    /\ Tables
    /\ Locked
    /\ \A r \in Requests : Sound(r)

-----------------------------------------------------------------------------
(* What a step does to the record of the request that takes it.            *)

LEMMA GoFacts ==
    ASSUME TypeOK, NEW r \in Requests, NEW place \in Places, Go(r, place)
    PROVE  /\ req' \in [Requests -> [at : Places, claims : Claims,
                                     answer : Answers, replay : BOOLEAN]]
           /\ req'[r] = [req[r] EXCEPT !.at = place]
           /\ req'[r].at = place /\ req'[r].claims = req[r].claims
           /\ req'[r].answer = req[r].answer /\ req'[r].replay = req[r].replay
           /\ \A q \in Requests \ {r} : req'[q] = req[q]
BY DEF TypeOK, Go

LEMMA ReplyFacts ==
    ASSUME TypeOK, NEW r \in Requests, NEW answer \in Answers, Reply(r, answer)
    PROVE  /\ req' \in [Requests -> [at : Places, claims : Claims,
                                     answer : Answers, replay : BOOLEAN]]
           /\ req'[r].at = "idle" /\ req'[r].claims = req[r].claims
           /\ req'[r].answer = answer /\ req'[r].replay = req[r].replay
           /\ \A q \in Requests \ {r} : req'[q] = req[q]
<1>1. "idle" \in Places
  BY DEF Places
<1>2. QED
  BY <1>1 DEF TypeOK, Reply

\* A step by r that leaves the locks alone, outside a transaction or inside.
LEMMA SameLocks ==
    ASSUME TypeOK, Locked, NEW r \in Requests, UNCHANGED <<capacity, lock>>,
           req'[r].claims = req[r].claims \/ ~InTransaction(r),
           \A q \in Requests \ {r} : req'[q] = req[q],
           InTransaction(r)' <=> InTransaction(r)
    PROVE  Locked'
<1>1. \A q \in Requests : /\ InTransaction(q)' <=> InTransaction(q)
                          /\ InTransaction(q) => req'[q].claims = req[q].claims
  BY DEF InTransaction
<1>2. \A e \in Events : lock[e] # NoRequest => lock[e] \in Requests
  BY DEF TypeOK
<1>3. QED
  BY <1>1, <1>2 DEF Locked, InTransaction

\* A step by r that leaves the tables and the locks alone, outside a transaction.
LEMMA LocalStep ==
    ASSUME Inv, NEW r \in Requests, UNCHANGED <<capacity, tickets_booked, bookings, lock>>,
           req' \in [Requests -> [at : Places, claims : Claims,
                                  answer : Answers, replay : BOOLEAN]],
           \A q \in Requests \ {r} : req'[q] = req[q],
           ~InTransaction(r), ~InTransaction(r)', Sound(r)'
    PROVE  Inv'
<1>1. TypeOK'
  BY DEF Inv, TypeOK
<1>2. Tables'
  BY DEF Inv, Tables, RowsOf
<1>3. Locked'
  BY SameLocks DEF Inv
<1>4. ASSUME NEW q \in Requests \ {r} PROVE Sound(q)'
  BY DEF Inv, Sound, Booked, HoldsTicket, RowsOf, Full
<1>5. QED
  BY <1>1, <1>2, <1>3, <1>4 DEF Inv

LEMMA ReceiveOK ==
    ASSUME Inv, NEW r \in Requests, NEW c \in Claims, Receive(r, c)
    PROVE  Inv'
<1>1. /\ req'[r] = [at |-> "find_jti", claims |-> c, answer |-> "none", replay |-> Booked(c)]
      /\ \A q \in Requests \ {r} : req'[q] = req[q]
      /\ req' \in [Requests -> [at : Places, claims : Claims,
                                answer : Answers, replay : BOOLEAN]]
  BY DEF Receive, Inv, TypeOK, Places, Answers, Booked
<1>2. Sound(r)'
  BY <1>1 DEF Receive, Sound, Booked
<1>3. QED
  BY <1>1, <1>2, LocalStep DEF Receive, At, InTransaction

\* A conflicting booking that is not for the same jti is for the same seat.
LEMMA NotByJti ==
    ASSUME NEW c, Booked(c), \A b \in bookings : b.jti # c.jti
    PROVE  HoldsTicket(c)
BY DEF Booked, HoldsTicket, Conflict, RowsOf

LEMMA FindByJtiOK ==
    ASSUME Inv, NEW r \in Requests, NEW from, NEW next,
           \/ from = "find_jti" /\ next = "find_user"
           \/ from = "refind_jti" /\ next = "refind_user",
           FindByJti(r, from, next)
    PROVE  Inv'
<1> DEFINE c == req[r].claims
<1>1. /\ TypeOK /\ Sound(r) /\ req[r].at = from /\ UNCHANGED <<capacity, tickets_booked, bookings, lock>>
      /\ next \in Places /\ "existing" \in Answers
  BY DEF FindByJti, At, Inv, Places, Answers
<1>2. CASE \E b \in bookings : b.jti = c.jti
  <2>1. Reply(r, "existing")
    BY <1>2 DEF FindByJti
  <2>2. Booked(c)
    BY <1>2 DEF Booked, Conflict
  <2>3. Sound(r)'
    BY <1>1, <2>1, <2>2, ReplyFacts DEF Sound, Booked
  <2>4. QED
    BY <1>1, <2>1, <2>3, ReplyFacts, LocalStep DEF InTransaction
<1>3. CASE ~(\E b \in bookings : b.jti = c.jti)
  <2>1. Go(r, next)
    BY <1>3 DEF FindByJti
  <2>2. Booked(c) => HoldsTicket(c)
    BY <1>3, NotByJti
  <2>3. Sound(r)'
    <3>1. req'[r].at = next /\ req'[r].claims = c /\ req'[r].answer = "none"
          /\ req'[r].replay = req[r].replay
      BY <1>1, <2>1, GoFacts DEF Sound
    <3>2. CASE from = "find_jti" /\ next = "find_user"
      BY <1>1, <2>2, <3>1, <3>2 DEF Sound, Booked, HoldsTicket, RowsOf
    <3>3. CASE from = "refind_jti" /\ next = "refind_user"
      BY <1>1, <2>2, <3>1, <3>3 DEF Sound, Booked, HoldsTicket, RowsOf
    <3>4. QED
      BY <3>2, <3>3
  <2>4. QED
    BY <1>1, <2>1, <2>3, GoFacts, LocalStep DEF InTransaction
<1>4. QED
  BY <1>2, <1>3

\* A seat that is held is a booking that conflicts.
LEMMA TicketIsBooking ==
    ASSUME NEW c, HoldsTicket(c)
    PROVE  Booked(c)
BY DEF HoldsTicket, Booked, Conflict, RowsOf

LEMMA FindByUserOK ==
    ASSUME Inv, NEW r \in Requests, FindByUser(r)
    PROVE  Inv'
<1>1. /\ TypeOK /\ Sound(r) /\ req[r].at = "find_user"
      /\ UNCHANGED <<capacity, tickets_booked, bookings, lock>>
      /\ "update" \in Places /\ "existing" \in Answers
  BY DEF FindByUser, At, Inv, Places, Answers
<1>2. CASE HoldsTicket(req[r].claims)
  <2>1. Reply(r, "existing")
    BY <1>2 DEF FindByUser
  <2>2. Booked(req[r].claims)
    BY <1>2, TicketIsBooking
  <2>3. Sound(r)'
    BY <1>1, <2>1, <2>2, ReplyFacts DEF Sound, Booked
  <2>4. QED
    BY <1>1, <2>1, <2>3, ReplyFacts, LocalStep DEF InTransaction
<1>3. CASE ~HoldsTicket(req[r].claims)
  <2>1. Go(r, "update")
    BY <1>3 DEF FindByUser
  <2>2. Sound(r)'
    BY <1>1, <1>3, <2>1, GoFacts DEF Sound
  <2>3. QED
    BY <1>1, <2>1, <2>2, GoFacts, LocalStep DEF InTransaction
<1>4. QED
  BY <1>2, <1>3

LEMMA RefindByUserOK ==
    ASSUME Inv, NEW r \in Requests, RefindByUser(r)
    PROVE  Inv'
<1>1. /\ TypeOK /\ Sound(r) /\ req[r].at = "refind_user"
      /\ UNCHANGED <<capacity, tickets_booked, bookings, lock>> /\ "existing" \in Answers
  BY DEF RefindByUser, At, Inv, Answers
<1>2. HoldsTicket(req[r].claims) /\ Booked(req[r].claims)
  BY <1>1, TicketIsBooking DEF Sound
<1>3. Reply(r, "existing")
  BY <1>2 DEF RefindByUser
<1>4. Sound(r)'
  BY <1>1, <1>2, <1>3, ReplyFacts DEF Sound, Booked
<1>5. QED
  BY <1>1, <1>3, <1>4, ReplyFacts, LocalStep DEF InTransaction

LEMMA ClaimNothingOK ==
    ASSUME Inv, NEW r \in Requests, ClaimNothing(r)
    PROVE  Inv'
<1>1. /\ TypeOK /\ Sound(r) /\ req[r].at = "update" /\ Go(r, "no_row")
      /\ UNCHANGED <<capacity, tickets_booked, bookings, lock>> /\ "no_row" \in Places
  BY DEF ClaimNothing, At, Inv, Places
<1>2. ASSUME req[r].claims.event_id \in Listed PROVE Full(req[r].claims.event_id)
  <2> DEFINE e == req[r].claims.event_id
  <2>1. e \in Events /\ tickets_booked[e] \in Nat /\ capacity[e] \in Nat
    BY <1>1, <1>2 DEF TypeOK
  <2>2. tickets_booked[e] <= capacity[e]
    BY <1>2 DEF Inv, Tables
  <2>3. ~(tickets_booked[e] < capacity[e])
    BY <1>2 DEF ClaimNothing, HasRoom
  <2>4. tickets_booked[e] = capacity[e]
    BY <2>1, <2>2, <2>3
  <2>5. QED
    BY <1>2, <2>4 DEF Full
<1>3. Sound(r)'
  BY <1>1, <1>2, GoFacts DEF Sound, Full
<1>4. QED
  BY <1>1, <1>3, GoFacts, LocalStep DEF InTransaction

LEMMA RefuseSaleOK ==
    ASSUME Inv, NEW r \in Requests, RefuseSale(r)
    PROVE  Inv'
<1>1. /\ TypeOK /\ Sound(r) /\ req[r].at = "no_row"
      /\ UNCHANGED <<capacity, tickets_booked, bookings, lock>>
      /\ "sold_out" \in Answers /\ "not_found" \in Answers
  BY DEF RefuseSale, At, Inv, Answers
<1>2. PICK answer \in {"sold_out", "not_found"} :
        /\ Reply(r, answer)
        /\ answer = "sold_out" => req[r].claims.event_id \in Listed
  BY DEF RefuseSale
<1>3. Sound(r)'
  BY <1>1, <1>2, ReplyFacts DEF Sound, Full
<1>4. QED
  BY <1>1, <1>2, <1>3, ReplyFacts, LocalStep DEF InTransaction

-----------------------------------------------------------------------------
(* The steps that take or give up a lock.                                  *)

\* The UPDATE that matches makes the request the holder of the row's lock.
LEMMA ClaimLocked ==
    ASSUME TypeOK, Locked, NEW r \in Requests, ClaimTicket(r)
    PROVE  TypeOK' /\ Locked'
<1> DEFINE e == req[r].claims.event_id
<1>1. /\ req[r].at = "update" /\ Go(r, "insert") /\ "insert" \in Places
      /\ e \in Listed /\ e \in Events /\ lock[e] = NoRequest
      /\ lock' = [lock EXCEPT ![e] = r]
      /\ UNCHANGED <<capacity, tickets_booked, bookings>>
  BY DEF ClaimTicket, HasRoom, At, TypeOK, Places
<1>2. /\ req'[r].at = "insert" /\ req'[r].claims = req[r].claims
      /\ \A q \in Requests \ {r} : req'[q] = req[q]
  BY <1>1, GoFacts
<1>3. /\ lock'[e] = r
      /\ \A d \in Events \ {e} : lock'[d] = lock[d]
  BY <1>1 DEF TypeOK
<1>4. TypeOK'
  BY <1>1, GoFacts DEF TypeOK
<1>5. Locked'
  <2>1. ASSUME NEW q \in Requests, InTransaction(q)'
        PROVE  /\ req'[q].claims.event_id \in Listed'
               /\ lock'[req'[q].claims.event_id] = q
    <3>1. CASE q = r
      BY <1>1, <1>2, <1>3, <3>1
    <3>2. CASE q # r
      <4>1. /\ InTransaction(q) /\ req'[q] = req[q]
            /\ req[q].claims.event_id \in Listed /\ lock[req[q].claims.event_id] = q
        BY <1>2, <2>1, <3>2 DEF InTransaction, Locked
      <4>2. req[q].claims.event_id # e
        BY <1>1, <4>1, NoRequestAssumption
      <4>3. QED
        BY <1>1, <1>3, <4>1, <4>2 DEF TypeOK
    <3>3. QED
      BY <3>1, <3>2
  <2>2. ASSUME NEW d \in Events, lock'[d] # NoRequest
        PROVE  /\ req'[lock'[d]].at \in {"insert", "commit"}
               /\ req'[lock'[d]].claims.event_id = d
    <3>1. CASE d = e
      BY <1>2, <1>3, <3>1
    <3>2. CASE d # e
      <4>1. /\ lock'[d] = lock[d] /\ lock[d] \in Requests
            /\ InTransaction(lock[d]) /\ req[lock[d]].claims.event_id = d
        BY <1>1, <1>3, <2>2, <3>2 DEF Locked, TypeOK
      <4>2. lock[d] # r
        BY <1>1, <4>1 DEF InTransaction
      <4>3. QED
        BY <1>2, <4>1, <4>2 DEF InTransaction
    <3>3. QED
      BY <3>1, <3>2
  <2>3. QED
    BY <2>1, <2>2 DEF Locked, InTransaction
<1>6. QED
  BY <1>4, <1>5

LEMMA ClaimTicketOK ==
    ASSUME Inv, NEW r \in Requests, ClaimTicket(r)
    PROVE  Inv'
<1> DEFINE e == req[r].claims.event_id
<1>1. /\ TypeOK /\ Sound(r) /\ req[r].at = "update" /\ Go(r, "insert") /\ "insert" \in Places
      /\ e \in Listed /\ e \in Events /\ tickets_booked[e] < capacity[e] /\ lock[e] = NoRequest
      /\ lock' = [lock EXCEPT ![e] = r]
      /\ UNCHANGED <<capacity, tickets_booked, bookings>>
  BY DEF ClaimTicket, HasRoom, At, Inv, TypeOK, Places
<1>2. /\ req'[r].at = "insert" /\ req'[r].claims = req[r].claims
      /\ \A q \in Requests \ {r} : req'[q] = req[q]
  BY <1>1, GoFacts
<1>3. /\ lock'[e] = r
      /\ \A d \in Events \ {e} : lock'[d] = lock[d]
  BY <1>1 DEF TypeOK
<1>4. TypeOK' /\ Locked'
  BY ClaimLocked DEF Inv
<1>5. Tables'
  BY <1>1, <1>3 DEF Inv, Tables, RowsOf
<1>6. Sound(r)'
  BY <1>1, GoFacts DEF Sound, Booked, HoldsTicket, RowsOf, Full
<1>7. ASSUME NEW q \in Requests \ {r} PROVE Sound(q)'
  BY <1>1, <1>2 DEF Inv, Sound, Booked, HoldsTicket, RowsOf, Full
<1>8. QED
  BY <1>4, <1>5, <1>6, <1>7 DEF Inv

\* A request that ends its transaction gives up its lock and no other.
LEMMA UnlockLocked ==
    ASSUME TypeOK, Locked, NEW r \in Requests, Unlock(r), UNCHANGED capacity,
           ~InTransaction(r)',
           \A q \in Requests \ {r} : req'[q] = req[q]
    PROVE  /\ Locked'
           /\ lock' \in [Events -> Requests \cup {NoRequest}]
           /\ \A e \in Events : lock'[e] # NoRequest => lock'[e] = lock[e]
<1>1. \A e \in Events : lock'[e] = IF lock[e] = r THEN NoRequest ELSE lock[e]
  BY DEF Unlock
<1>2. lock' \in [Events -> Requests \cup {NoRequest}]
  BY DEF Unlock, TypeOK
<1>3. ASSUME NEW q \in Requests, InTransaction(q)'
      PROVE  /\ req'[q].claims.event_id \in Listed'
             /\ lock'[req'[q].claims.event_id] = q
  <2>1. q # r /\ req'[q] = req[q] /\ InTransaction(q)
    BY <1>3 DEF InTransaction
  <2>2. QED
    BY <1>1, <2>1 DEF Locked, TypeOK
<1>4. ASSUME NEW e \in Events, lock'[e] # NoRequest
      PROVE  /\ req'[lock'[e]].at \in {"insert", "commit"}
             /\ req'[lock'[e]].claims.event_id = e
  <2>1. lock'[e] = lock[e] /\ lock[e] # r /\ lock[e] \in Requests
    BY <1>1, <1>4 DEF TypeOK
  <2>2. QED
    BY <1>4, <2>1 DEF Locked, InTransaction
<1>5. QED
  BY <1>1, <1>2, <1>3, <1>4 DEF Locked, InTransaction

\* A rollback.
LEMMA RollbackStep ==
    ASSUME Inv, NEW r \in Requests, Unlock(r), UNCHANGED <<capacity, tickets_booked, bookings>>,
           req' \in [Requests -> [at : Places, claims : Claims,
                                  answer : Answers, replay : BOOLEAN]],
           \A q \in Requests \ {r} : req'[q] = req[q],
           ~InTransaction(r)', Sound(r)'
    PROVE  Inv'
<1>1. /\ Locked' /\ lock' \in [Events -> Requests \cup {NoRequest}]
      /\ \A e \in Events : lock'[e] # NoRequest => lock'[e] = lock[e]
  BY UnlockLocked DEF Inv
<1>2. TypeOK'
  BY <1>1 DEF Inv, TypeOK
<1>3. Tables'
  BY <1>1 DEF Inv, TypeOK, Tables, RowsOf
<1>4. ASSUME NEW q \in Requests \ {r} PROVE Sound(q)'
  BY DEF Inv, Sound, Booked, HoldsTicket, RowsOf, Full
<1>5. QED
  BY <1>1, <1>2, <1>3, <1>4 DEF Inv

LEMMA InsertBookingOK ==
    ASSUME Inv, NEW r \in Requests, InsertBooking(r)
    PROVE  Inv'
<1>1. /\ TypeOK /\ Sound(r) /\ req[r].at = "insert" /\ InTransaction(r)
      /\ UNCHANGED <<capacity, tickets_booked, bookings>>
      /\ "refind_jti" \in Places /\ "commit" \in Places
  BY DEF InsertBooking, At, Inv, Places, InTransaction
<1>2. CASE Booked(req[r].claims)
  <2>1. Unlock(r) /\ Go(r, "refind_jti")
    BY <1>2 DEF InsertBooking
  <2>2. Sound(r)'
    BY <1>1, <1>2, <2>1, GoFacts DEF Sound, Booked
  <2>3. QED
    BY <1>1, <2>1, <2>2, GoFacts, RollbackStep DEF InTransaction
<1>3. CASE ~Booked(req[r].claims)
  <2>1. UNCHANGED lock /\ Go(r, "commit")
    BY <1>3 DEF InsertBooking
  <2>2. Sound(r)'
    BY <1>1, <1>3, <2>1, GoFacts DEF Sound, Booked
  <2>3. /\ req'[r].at = "commit" /\ req'[r].claims = req[r].claims
        /\ \A q \in Requests \ {r} : req'[q] = req[q]
    BY <1>1, <2>1, GoFacts
  <2>4. TypeOK'
    BY <1>1, <2>1, GoFacts DEF TypeOK
  <2>5. Tables'
    BY <1>1, <2>1 DEF Inv, Tables, RowsOf
  <2>6. Locked'
    BY <1>1, <2>1, <2>3, SameLocks DEF Inv, InTransaction
  <2>7. ASSUME NEW q \in Requests \ {r} PROVE Sound(q)'
    BY <1>1, <2>3 DEF Inv, Sound, Booked, HoldsTicket, RowsOf, Full
  <2>8. QED
    BY <2>2, <2>4, <2>5, <2>6, <2>7 DEF Inv
<1>4. QED
  BY <1>2, <1>3

LEMMA DieOK ==
    ASSUME Inv, NEW r \in Requests, Die(r)
    PROVE  Inv'
<1>1. /\ TypeOK /\ Sound(r) /\ Unlock(r) /\ Reply(r, "none")
      /\ UNCHANGED <<capacity, tickets_booked, bookings>> /\ "none" \in Answers
  BY DEF Die, Inv, Answers
<1>2. Sound(r)'
  BY <1>1, ReplyFacts DEF Sound, Booked
<1>3. QED
  BY <1>1, <1>2, ReplyFacts, RollbackStep DEF InTransaction

LEMMA CommitOK ==
    ASSUME Inv, NEW r \in Requests, Commit(r)
    PROVE  Inv'
<1> DEFINE c == req[r].claims
           e == req[r].claims.event_id
<1>1. PICK answer \in {"created", "none"} : Reply(r, answer)
  BY DEF Commit
<1>2. /\ TypeOK /\ Sound(r) /\ req[r].at = "commit" /\ InTransaction(r) /\ Unlock(r)
      /\ tickets_booked' = [tickets_booked EXCEPT ![e] = @ + 1]
      /\ bookings' = bookings \cup {c} /\ UNCHANGED capacity
      /\ answer \in Answers /\ c \in Claims
  BY DEF Commit, CommitBooking, At, Inv, InTransaction, Answers, TypeOK
<1>3. /\ e \in Listed /\ e \in Events /\ lock[e] = r /\ r # NoRequest
      /\ tickets_booked[e] < capacity[e]
      /\ tickets_booked[e] \in Nat
  BY <1>2, NoRequestAssumption DEF Inv, Locked, Tables, TypeOK
<1>4. c \notin bookings
  BY <1>2 DEF Sound, Booked, Conflict
<1>5. /\ req'[r].at = "idle" /\ req'[r].claims = c /\ req'[r].answer = answer
      /\ req'[r].replay = req[r].replay
      /\ \A q \in Requests \ {r} : req'[q] = req[q]
  BY <1>1, <1>2, ReplyFacts
<1>6. /\ Locked' /\ lock' \in [Events -> Requests \cup {NoRequest}]
      /\ \A d \in Events : lock'[d] # NoRequest => lock'[d] = lock[d]
  <2>1. ~InTransaction(r)'
    BY <1>5 DEF InTransaction
  <2>2. QED
    BY <1>2, <1>5, <2>1, UnlockLocked DEF Inv
<1>7. lock'[e] = NoRequest
  BY <1>2, <1>3 DEF Unlock
<1>8. TypeOK'
  <2>1. tickets_booked' \in [Events -> Nat]
    BY <1>2, <1>3 DEF TypeOK
  <2>2. bookings' \subseteq Claims /\ UNCHANGED capacity
    BY <1>2 DEF TypeOK
  <2>3. QED
    BY <1>1, <1>2, <1>6, <2>1, <2>2, ReplyFacts DEF TypeOK
<1>9. Tables'
  <2>1. IsFiniteSet(bookings) /\ IsFiniteSet(bookings')
    BY <1>2, FS_AddElement DEF Inv, Tables
  <2>2. ASSUME NEW d \in Events
        PROVE  /\ tickets_booked'[d] = Cardinality(RowsOf(d)')
               /\ d \in Listed => /\ tickets_booked'[d] <= capacity[d]
                                  /\ lock'[d] # NoRequest => tickets_booked'[d] < capacity[d]
    <3>1. CASE d = e
      <4>1. RowsOf(d)' = RowsOf(d) \cup {c} /\ c \notin RowsOf(d)
        BY <1>2, <1>4, <3>1 DEF RowsOf
      <4>2. RowsOf(d) \subseteq bookings
        BY DEF RowsOf
      <4>3. IsFiniteSet(RowsOf(d))
        BY <2>1, <4>2, FS_Subset
      <4>4. Cardinality(RowsOf(d)') = Cardinality(RowsOf(d)) + 1
        BY <4>1, <4>3, FS_AddElement
      <4>5. tickets_booked'[d] = tickets_booked[d] + 1
        BY <1>2, <1>3, <3>1 DEF TypeOK
      <4>6. tickets_booked[d] = Cardinality(RowsOf(d)) /\ capacity[d] \in Nat
        BY <1>2, <1>3, <3>1 DEF Inv, Tables, TypeOK
      <4>7. QED
        BY <1>3, <1>7, <3>1, <4>4, <4>5, <4>6
    <3>2. CASE d # e
      <4>1. RowsOf(d)' = RowsOf(d)
        BY <1>2, <3>2 DEF RowsOf
      <4>2. tickets_booked'[d] = tickets_booked[d]
        BY <1>2, <3>2 DEF TypeOK
      <4>3. QED
        BY <1>6, <4>1, <4>2 DEF Inv, Tables
    <3>3. QED
      BY <3>1, <3>2
  <2>3. QED
    BY <1>2, <2>1, <2>2 DEF Inv, TypeOK, Tables
<1>10. Sound(r)'
  BY <1>1, <1>2, <1>5 DEF Sound, Booked
<1>11. ASSUME NEW q \in Requests \ {r} PROVE Sound(q)'
  <2> DEFINE cq == req[q].claims
  <2>1. Sound(q) /\ req'[q] = req[q] /\ cq \in Claims
    BY <1>2, <1>5 DEF Inv, TypeOK
  <2>2. Full(cq.event_id) => Full(cq.event_id)'
    <3>1. ~Full(e)
      BY <1>2, <1>3 DEF Full, TypeOK
    <3>2. QED
      BY <1>2, <2>1, <3>1 DEF Full, TypeOK
  <2>3. req[q].at = "commit" => ~Conflict(cq, c)
    <3>1. SUFFICES ASSUME req[q].at = "commit", Conflict(cq, c) PROVE FALSE
      OBVIOUS
    <3>2. cq.event_id = e
      BY <1>2, <2>1, <3>1, ClaimsAssumption DEF Conflict
    <3>3. lock[e] = q
      BY <3>1, <3>2 DEF Inv, Locked, InTransaction
    <3>4. QED
      BY <1>3, <3>3
  <2>4. Booked(cq) => Booked(cq)'
    BY <1>2, <2>1 DEF Booked
  <2>5. HoldsTicket(cq) => HoldsTicket(cq)'
    BY <1>2, <2>1 DEF HoldsTicket, RowsOf
  <2>6. req[q].at = "commit" => ~Booked(cq)'
    BY <1>2, <2>1, <2>3 DEF Booked, Sound
  <2>7. cq \in bookings => cq \in bookings'
    BY <1>2
  <2>8. UNCHANGED capacity
    BY <1>2
  <2>9. QED
    BY <2>1, <2>2, <2>4, <2>5, <2>6, <2>7, <2>8 DEF Sound
<1>12. QED
  BY <1>6, <1>8, <1>9, <1>10, <1>11 DEF Inv

LEMMA StutterOK ==
    ASSUME Inv, UNCHANGED vars
    PROVE  Inv'
<1>1. UNCHANGED <<capacity, tickets_booked, bookings, lock, req>>
  BY DEF vars
<1>2. TypeOK' /\ Tables' /\ Locked'
  BY <1>1 DEF Inv, TypeOK, Tables, Locked, InTransaction, RowsOf
<1>3. ASSUME NEW q \in Requests PROVE Sound(q)'
  BY <1>1 DEF Inv, Sound, Booked, HoldsTicket, RowsOf, Full
<1>4. QED
  BY <1>2, <1>3 DEF Inv

LEMMA InitOK == Init => Inv
<1> SUFFICES ASSUME Init PROVE Inv
  OBVIOUS
<1>1. PICK c \in Claims :
        req = [r \in Requests |-> [at |-> "idle", claims |-> c,
                                   answer |-> "none", replay |-> FALSE]]
  BY DEF Init
<1>2. /\ capacity = Capacity /\ tickets_booked = [e \in Events |-> 0] /\ bookings = {}
      /\ lock = [e \in Events |-> NoRequest]
  BY DEF Init
<1>3. TypeOK
  BY <1>1, <1>2, CapacityAssumption DEF TypeOK, Places, Answers
<1>4. Tables
  <2>1. \A e \in Events : RowsOf(e) = {}
    BY <1>2 DEF RowsOf
  <2>2. IsFiniteSet({}) /\ Cardinality({}) = 0
    BY FS_EmptySet
  <2>3. \A e \in Events : tickets_booked[e] = 0 /\ lock[e] = NoRequest
    BY <1>2
  <2>4. \A e \in Listed : e \in Events /\ 0 <= capacity[e]
    BY <1>2, CapacityAssumption
  <2>5. QED
    BY <1>2, <2>1, <2>2, <2>3, <2>4 DEF Tables
<1>5. Locked
  BY <1>1, <1>2 DEF Locked, InTransaction
<1>6. \A r \in Requests : Sound(r)
  BY <1>1, <1>2 DEF Sound
<1>7. QED
  BY <1>3, <1>4, <1>5, <1>6 DEF Inv

\* The lock protocol of book_ticket: the row lock is held exactly between an
\* UPDATE that matched and the end of its transaction, and then there is room.
THEOREM BookingInvariant == Spec => []Inv
<1>1. Inv /\ [Next]_vars => Inv'
  <2> SUFFICES ASSUME Inv, [Next]_vars PROVE Inv'
    OBVIOUS
  <2>1. ASSUME NEW r \in Requests, NEW c \in Claims, Receive(r, c) PROVE Inv'
    BY <2>1, ReceiveOK
  <2>2. ASSUME NEW r \in Requests, Serve(r) PROVE Inv'
    <3>1. CASE FindByJti(r, "find_jti", "find_user")
      BY <3>1, FindByJtiOK
    <3>2. CASE FindByJti(r, "refind_jti", "refind_user")
      BY <3>2, FindByJtiOK
    <3>3. CASE FindByUser(r)
      BY <3>3, FindByUserOK
    <3>4. CASE ClaimTicket(r)
      BY <3>4, ClaimTicketOK
    <3>5. CASE ClaimNothing(r)
      BY <3>5, ClaimNothingOK
    <3>6. CASE RefuseSale(r)
      BY <3>6, RefuseSaleOK
    <3>7. CASE InsertBooking(r)
      BY <3>7, InsertBookingOK
    <3>8. CASE Commit(r)
      BY <3>8, CommitOK
    <3>9. CASE RefindByUser(r)
      BY <3>9, RefindByUserOK
    <3>10. QED
      BY <2>2, <3>1, <3>2, <3>3, <3>4, <3>5, <3>6, <3>7, <3>8, <3>9 DEF Serve
  <2>3. ASSUME NEW r \in Requests, Die(r) PROVE Inv'
    BY <2>3, DieOK
  <2>4. CASE UNCHANGED vars
    BY <2>4, StutterOK
  <2>5. QED
    BY <2>1, <2>2, <2>3, <2>4 DEF Next
<1>2. QED
  BY <1>1, InitOK, PTL DEF Spec

-----------------------------------------------------------------------------
(* What it gives.                                                          *)

\* The state has its types, and a row's lock is held exactly by the request
\* that is between the UPDATE that matched and the end of its transaction.
THEOREM LockAlwaysHeld == Spec => []LockProtocol
<1>1. Inv => LockProtocol
  BY DEF Inv, LockProtocol
<1>2. QED
  BY <1>1, BookingInvariant, PTL

\* The counter of an event and its rows always agree.
THEOREM CounterAlwaysMatches == Spec => []CounterMatchesRows
<1>1. Inv => CounterMatchesRows
  BY DEF Inv, Tables, CounterMatchesRows
<1>2. QED
  BY <1>1, BookingInvariant, PTL

\* No event is ever sold beyond its capacity, open transactions included.
THEOREM NeverSoldBeyond == Spec => []NeverOversold
<1>1. Inv => NeverOversold
  <2> SUFFICES ASSUME Inv, NEW e \in Listed
               PROVE  Cardinality(RowsOf(e))
                        + Cardinality({r \in Requests : /\ InTransaction(r)
                                                        /\ req[r].claims.event_id = e})
                        <= capacity[e]
    BY DEF NeverOversold
  <2>1. PICK open : open = {r \in Requests : /\ InTransaction(r)
                                             /\ req[r].claims.event_id = e}
    OBVIOUS
  <2>2. \A r \in open : lock[e] = r /\ r \in Requests
    BY <2>1 DEF Inv, Locked, InTransaction
  <2>3. /\ Cardinality(RowsOf(e)) = tickets_booked[e] /\ tickets_booked[e] \in Nat
        /\ tickets_booked[e] <= capacity[e] /\ capacity[e] \in Nat
        /\ lock[e] # NoRequest => tickets_booked[e] < capacity[e]
    BY DEF Inv, Tables, TypeOK
  <2>4. CASE open = {}
    <3>1. Cardinality(open) = 0
      BY <2>4, FS_EmptySet
    <3>2. QED
      BY <2>1, <2>3, <3>1
  <2>5. CASE open # {}
    <3>1. open = {lock[e]} /\ lock[e] # NoRequest
      BY <2>2, <2>5, NoRequestAssumption
    <3>2. Cardinality(open) = 1
      BY <3>1, FS_Singleton
    <3>3. QED
      BY <2>1, <2>3, <3>1, <3>2
  <2>6. QED
    BY <2>4, <2>5
<1>2. QED
  BY <1>1, BookingInvariant, PTL

\* The re-raise at the end of book_ticket is unreachable.
THEOREM LoserAlwaysFindsWinner == Spec => []LoserFindsWinner
<1>1. Inv => LoserFindsWinner
  BY DEF Inv, Sound, LoserFindsWinner
<1>2. QED
  BY <1>1, BookingInvariant, PTL

\* Whatever a requester was told is so, and stays so.
THEOREM AnswersAlwaysTrue == Spec => []AnswersAreTrue
<1>1. Inv => AnswersAreTrue
  BY DEF Inv, Sound, Full, AnswersAreTrue
<1>2. QED
  BY <1>1, BookingInvariant, PTL

\* A request that begins after the booking was made is answered with it.
THEOREM LateReplayAlwaysFinds == Spec => []LateReplayFindsBooking
<1>1. Inv => LateReplayFindsBooking
  BY DEF Inv, Sound, LateReplayFindsBooking
<1>2. QED
  BY <1>1, BookingInvariant, PTL

\* A commit is one sale: its event has a seat left, since the transaction
\* still holds the row's lock, and no earlier booking conflicts with it.
LEMMA CommitSells ==
    ASSUME Inv, NEW r \in Requests, Commit(r)
    PROVE  TS!SaleNext
<1> DEFINE c == req[r].claims
<1>1. /\ Sound(r) /\ req[r].at = "commit" /\ c \in Claims /\ bookings' = bookings \cup {c}
  BY DEF Commit, CommitBooking, At, Inv, TypeOK
<1>2. c.event_id \in Listed /\ lock[c.event_id] # NoRequest
  BY <1>1, NoRequestAssumption DEF Inv, Locked, InTransaction
<1>3. Cardinality(TS!SoldFor(c.event_id)) < Capacity[c.event_id]
  BY <1>2 DEF Inv, Tables, TypeOK, RowsOf, TS!SoldFor
<1>4. \A b \in bookings : ~TS!Conflict(c, b)
  BY <1>1 DEF Sound, Booked, Conflict, TS!Conflict
<1>5. TS!Sell(c)
  BY <1>1, <1>2, <1>3, <1>4 DEF Inv, Tables, TS!Sell, TS!Cardinality, Cardinality
<1>6. QED
  BY <1>1, <1>5 DEF TS!SaleNext

\* And nothing but a commit sells: the lookups, the UPDATE, the INSERT, a
\* refusal and a death leave the committed rows alone.
LEMMA OnlyCommitsSell ==
    ASSUME [Next]_vars, \A r \in Requests : ~Commit(r)
    PROVE  UNCHANGED bookings
<1>1. \A r \in Requests : Serve(r) => UNCHANGED bookings
  BY DEF Serve, FindByJti, FindByUser, RefindByUser, ClaimTicket, ClaimNothing,
         RefuseSale, InsertBooking
<1>2. \A r \in Requests : Die(r) \/ (\E c \in Claims : Receive(r, c)) => UNCHANGED bookings
  BY DEF Die, Receive
<1>3. QED
  BY <1>1, <1>2 DEF Next, vars

\* The transactions implement the box office: each commit is one sale, and
\* no other step sells anything.
THEOREM BookingSellsTickets == Spec => IsTicketSale
<1>1. Init => TS!SaleInit
  BY DEF Init, TS!SaleInit
<1>2. Inv /\ [Next]_vars => [TS!SaleNext]_bookings
  BY CommitSells, OnlyCommitsSell
<1>3. QED
  BY <1>1, <1>2, BookingInvariant, PTL DEF Spec, IsTicketSale, TS!SaleSpec

\* Two passes that conflict are for the same event, whose row has one holder.
LEMMA OneHolder ==
    ASSUME TypeOK, Locked
    PROVE  HoldersNeverWait
<1> SUFFICES ASSUME NEW r \in Requests, At(r, "insert"),
                    NEW q \in Requests, At(q, "commit"),
                    Conflict(req[r].claims, req[q].claims)
             PROVE  FALSE
  BY DEF HoldersNeverWait, Uncommitted
<1>1. req[r].claims \in Claims /\ req[q].claims \in Claims
  BY DEF TypeOK
<1>2. req[r].claims.event_id = req[q].claims.event_id
  BY <1>1, ClaimsAssumption DEF Conflict
<1>3. lock[req[r].claims.event_id] = r /\ lock[req[q].claims.event_id] = q
  BY DEF Locked, InTransaction, At
<1>4. QED
  BY <1>2, <1>3 DEF At

\* No two transactions ever wait for each other: the one that holds an
\* event's row finds no uncommitted booking in its way.
THEOREM HoldersProceed == Spec => []HoldersNeverWait
<1>1. Inv => HoldersNeverWait
  BY OneHolder DEF Inv
<1>2. QED
  BY <1>1, BookingInvariant, PTL

\* One person has one ticket for an event, and one pass is worth one ticket:
\* a promise of the box office, which the transactions inherit.
THEOREM OneTicketEach == Spec => [](\A b, c \in bookings : Conflict(b, c) => b = c)
<1> DEFINE Each == \A b, c \in bookings : Conflict(b, c) => b = c
<1>1. TS!SaleInit => Each
  BY DEF TS!SaleInit
<1>2. Each /\ [TS!SaleNext]_bookings => Each'
  <2> SUFFICES ASSUME Each, [TS!SaleNext]_bookings PROVE Each'
    OBVIOUS
  <2>1. ASSUME NEW d \in Claims, TS!Sell(d) PROVE Each'
    <3>1. bookings' = bookings \cup {d} /\ \A b \in bookings : ~Conflict(d, b) /\ ~Conflict(b, d)
      BY <2>1 DEF TS!Sell, TS!Conflict, Conflict
    <3>2. QED
      BY <3>1
  <2>2. CASE UNCHANGED bookings
    BY <2>2
  <2>3. QED
    BY <2>1, <2>2 DEF TS!SaleNext
<1> HIDE DEF Each
<1>3. TS!SaleSpec => []Each
  BY <1>1, <1>2, PTL DEF TS!SaleSpec
<1>4. Each <=> \A b, c \in bookings : Conflict(b, c) => b = c
  BY DEF Each
<1>5. QED
  BY <1>3, <1>4, BookingSellsTickets, PTL DEF IsTicketSale

=============================================================================
