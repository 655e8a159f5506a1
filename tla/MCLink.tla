------------------------------- MODULE MCLink -------------------------------
(***************************************************************************)
(* The reservations that the owner's link and the sweeps handle, and the   *)
(* reports, for TLC.                                                       *)
(*                                                                         *)
(* The reports have rows and payments of their own: a behaviour is one of  *)
(* the reservations or one of the reports, which part names, and the       *)
(* variables of the other stay as they are at first.                       *)
(***************************************************************************)
EXTENDS MCReservations, Reports

CONSTANTS
    SA, SB, k1, k2, m1,
    Parts       \* the parts that run

VARIABLE part

\* Sums of these tell which rows and payments were added up.
Amounts == [i \in {k1, k2, m1} |-> CASE i = k1 -> 1 [] i = k2 -> 2 [] i = m1 -> 4]

PartsInit == part \in Parts /\ Init /\ ReportsInit

BookingsStep == part = "bookings" /\ Next /\ UNCHANGED reportVars
ReportsStep == part = "reports" /\ ReportsNext /\ UNCHANGED vars

PartsNext == UNCHANGED part /\ (BookingsStep \/ ReportsStep)

PartsSpec == PartsInit /\ [][PartsNext]_<<part, vars, reportVars>>
=============================================================================
