---------------------------- MODULE MCBookingAdmin ----------------------------
(* Two requests, the passes of two people, one event with one ticket.       *)
EXTENDS BookingAdmin

CONSTANTS ann, bob, show

Pass(j, u) == [jti |-> j, user_id |-> u, event_id |-> show]

MCClaims == {Pass(1, ann), Pass(2, bob)}

MCCapacity == [e \in {show} |-> 1]

=============================================================================
