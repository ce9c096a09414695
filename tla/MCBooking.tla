------------------------------ MODULE MCBooking ------------------------------
(* Three requests; two passes of one person, two others, a missing event.   *)
EXTENDS Booking, TLC

CONSTANTS ann, bob, cat, show, ghost

Pass(j, u, e) == [jti |-> j, user_id |-> u, event_id |-> e]

MCClaims == {Pass(1, ann, show), Pass(2, ann, show), Pass(3, bob, show),
             Pass(4, cat, show), Pass(5, bob, ghost)}

MCCapacity == [e \in {show} |-> 2]

\* One person with two passes, one other; one ticket: for liveness and replays.
MCTightClaims == {Pass(1, ann, show), Pass(2, ann, show), Pass(3, bob, show)}

MCTightCapacity == [e \in {show} |-> 1]

MCSymmetry == Permutations(Requests)

=============================================================================
