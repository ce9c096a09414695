------------------------------ MODULE FairLine ------------------------------
(***************************************************************************)
(* What the waiting room promises, with no sorted set, no counters kept    *)
(* apart from each other and no token bucket: a line.  A waiter who is not *)
(* in it may take the place at its end, some number of waiters leave at    *)
(* its head, and the operator may clear it.                                *)
(*                                                                         *)
(* `called' is how many have left at the head since the line was last      *)
(* cleared; the waiter in place i therefore holds number called + i.       *)
(***************************************************************************)
EXTENDS Integers, Sequences

CONSTANT Waiters

VARIABLES line, called

lineVars == <<line, called>>

InLine(w) == \E i \in 1..Len(line) : line[i] = w

Init ==
    /\ line = <<>>
    /\ called = 0

\* Nobody joins ahead of anybody, and nobody stands in the line twice.
Join(w) ==
    /\ ~InLine(w)
    /\ line' = Append(line, w)
    /\ UNCHANGED called

\* Any number may be called at once, but always from the head.
Call(n) ==
    /\ line' = SubSeq(line, n + 1, Len(line))
    /\ called' = called + n

Clear ==
    /\ line' = <<>>
    /\ called' = 0

Next ==
    \/ \E w \in Waiters : Join(w)
    \/ \E n \in 1..Len(line) : Call(n)
    \/ Clear

Spec == Init /\ [][Next]_lineVars

=============================================================================
