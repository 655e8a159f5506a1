----------------------------- MODULE MCCoupons -----------------------------
(* Values of Coupons' constants for TLC: a holder with one reservation, who *)
(* can also sign in and claim, one policy and two rows of coupons.          *)
EXTENDS Coupons, TLC

CONSTANTS p1, k1, k2, G, r1, N1, right, wrong, w1, w2

\* Claimed, issued at check-in, or withdrawn from issue.
Policies ==
    {[name |-> n, type |-> "store_benefit", on |-> t, enabled |-> TRUE] :
        n \in Name, t \in {"manual_claim", "checkin_completed"}}
    \union {[name |-> n, type |-> "payment_discount", on |-> "manual_claim",
             enabled |-> FALSE] : n \in Name}

HoldersOfReservations == [r \in Reservation |-> G]

Interchangeable == Permutations(Worker) \union Permutations(Coupon)
                   \union Permutations(Pin)
=============================================================================
