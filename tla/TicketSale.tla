----------------------------- MODULE TicketSale -----------------------------
(***************************************************************************)
(* What booking_service promises: a box office that sells one ticket at a  *)
(* time, never more than an event has, never two to one person, and never  *)
(* two for one pass.  There are no transactions, no locks, no counter.     *)
(***************************************************************************)
EXTENDS Integers, FiniteSets

CONSTANTS Claims,    \* what a verified pass says: [jti, user_id, event_id]
          Capacity   \* tickets of each event on sale

VARIABLE sold        \* the claims that were given a ticket

SoldFor(e) == {c \in sold : c.event_id = e}

\* Two claims that cannot both hold a ticket.
Conflict(c, d) ==
    \/ c.jti = d.jti
    \/ c.event_id = d.event_id /\ c.user_id = d.user_id

SaleInit == sold = {}

Sell(c) ==
    /\ c.event_id \in DOMAIN Capacity
    /\ Cardinality(SoldFor(c.event_id)) < Capacity[c.event_id]
    /\ \A d \in sold : ~Conflict(c, d)
    /\ sold' = sold \cup {c}

SaleNext == \E c \in Claims : Sell(c)

SaleSpec == SaleInit /\ [][SaleNext]_sold

=============================================================================
