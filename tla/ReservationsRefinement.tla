----------------------- MODULE ReservationsRefinement -----------------------
(***************************************************************************)
(* The rows, requests and snapshots of Reservations implement BookingGroups*)
(* when bookings are guests' bookings handled through the owner's link and *)
(* the sweeps: those paths either hold a status filter in their UPDATE or  *)
(* run before anyone else knows the booking.                               *)
(***************************************************************************)
EXTENDS Reservations

\* The endpoints and jobs the claim is about.
LinkEndpoints ==
    {"guestCreate", "checkIn", "checkOut", "linkNoShow", "cleanup",
     "autoComplete"}

\* A booking has the status its rows have; rows that disagree have none.
BookingStatus ==
    [g \in Group |->
       IF \A r \in RowsOf(g) : res[r].status = res[RepOf[g]].status
       THEN res[RepOf[g]].status ELSE "split"]

BookingPaid == [g \in Group |-> \A r \in RowsOf(g) : res[r].paid]

Bookings == INSTANCE BookingGroups
                WITH clock <- now, status <- BookingStatus, paid <- BookingPaid

\* With the link's endpoints, a booking of several rows behaves as one booking
\* whose transitions are atomic.
ImplementsBookings == Bookings!BookingSpec
=============================================================================
