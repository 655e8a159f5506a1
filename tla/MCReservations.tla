--------------------------- MODULE MCReservations ---------------------------
(***************************************************************************)
(* Instances of Reservations for TLC: which bookings may be made, with     *)
(* which rows, times and payments, and which endpoints are called.         *)
(***************************************************************************)
EXTENDS ReservationsRefinement, TLC

CONSTANTS a1, a2, b1, A, B, S1, S2, M1, P1, w1, w2

\* A: a guest's booking of up to two types; B: a booking of the small type.
GroupsOfRows == [r \in Row |-> IF r = b1 THEN B ELSE A]
Reps == [g \in Group |-> IF g = A THEN a1 ELSE b1]
Types == [r \in Row |-> IF r = a2 THEN "m" ELSE "s"]
OneBag == [r \in Row |-> 1]
UnequalBags == [r \in Row |-> IF r = a1 THEN 2 ELSE 1]

GuestsOnly == [g \in Group |-> "guest"]
GuestAndCustomer == [g \in Group |-> IF g = A THEN "guest" ELSE "customer"]

\* Both bookings for the same hours, or A before B.
StartsAt1 == [g \in Group |-> 1]
EndsAt2 == [g \in Group |-> 2]
StartsApart == [g \in Group |-> IF g = A THEN 0 ELSE 1]
EndsApart == [g \in Group |-> IF g = A THEN 1 ELSE 2]

SamePayment == [g \in Group |-> P1]
NoPayments == [g \in Group |-> NoPayment]

StorageTypes == [s \in Storage |-> IF s = M1 THEN "m" ELSE "s"]
Numbers == [s \in Storage |-> CASE s = S1 -> 1 [] s = S2 -> 2 [] s = M1 -> 3]
TwoEach == [t \in Type |-> 2]

WorkerSymmetry == Permutations(Worker)
=============================================================================
