---------------------------- MODULE BookingGroups ----------------------------
(***************************************************************************)
(* What the system promises of a guest's booking: it has one status and is *)
(* paid or not as a whole, however many rows it has, and moves along the   *)
(* lifecycle one transition at a time, each transition being allowed by    *)
(* the status the booking has at that moment.  There are no requests, no   *)
(* snapshots and no rows here.                                             *)
(***************************************************************************)
EXTENDS ReservationStatus, Integers

CONSTANTS Group, StartOf, EndOf

VARIABLES clock, status, paid

bookingVars == <<clock, status, paid>>

BookingInit ==
    /\ clock = 0
    /\ status = [g \in Group |-> Absent]
    /\ paid = [g \in Group |-> FALSE]

\* Every booking of G takes the status to.
Move(G, to) == status' = [g \in Group |-> IF g \in G THEN to ELSE status[g]]

\* A booking is made, with an online payment or without.
Book(g) ==
    /\ status[g] = Absent
    /\ Move({g}, "pending")
    /\ paid' \in {paid, [paid EXCEPT ![g] = TRUE]}
    /\ UNCHANGED clock

Approve(g) ==
    /\ status[g] = "pending"
    /\ Move({g}, "confirmed")
    /\ UNCHANGED <<clock, paid>>

\* The owner takes the luggage in; an unpaid booking is paid on the spot.
CheckIn(g) ==
    /\ status[g] \in CHECK_IN_FROM
    /\ Move({g}, "in_progress")
    /\ paid' = [paid EXCEPT ![g] = TRUE]
    /\ UNCHANGED clock

CheckOut(g) ==
    /\ status[g] \in CHECK_OUT_FROM
    /\ Move({g}, "completed")
    /\ paid' = [paid EXCEPT ![g] = TRUE]
    /\ UNCHANGED clock

NoShow(g) ==
    /\ status[g] \in NO_SHOW_FROM_STATUSES
    /\ StartOf[g] <= clock
    /\ Move({g}, "no_show")
    /\ UNCHANGED <<clock, paid>>

\* Unpaid bookings that were not checked in are cancelled, as many at once as
\* the sweep finds; bookings past their end are completed.
Expire(G) ==
    /\ \A g \in G : status[g] \in CLEANUP_FROM /\ ~paid[g]
    /\ Move(G, "cancelled")
    /\ UNCHANGED <<clock, paid>>

Complete(G) ==
    /\ \A g \in G : status[g] \in AUTO_COMPLETE_FROM /\ EndOf[g] < clock
    /\ Move(G, "completed")
    /\ UNCHANGED <<clock, paid>>

Pass == clock' = clock + 1 /\ UNCHANGED <<status, paid>>

BookingNext ==
    \/ \E g \in Group : Book(g) \/ Approve(g) \/ CheckIn(g) \/ CheckOut(g)
                        \/ NoShow(g)
    \/ \E G \in SUBSET Group : Expire(G) \/ Complete(G)
    \/ Pass

BookingSpec == BookingInit /\ [][BookingNext]_bookingVars
=============================================================================
