-------------------------- MODULE MCStoreAccounts --------------------------
(* Values of StoreAccounts' constants for TLC: two stores, and a staff member *)
(* of the first with two codes.                                               *)
EXTENDS StoreAccounts, TLC

CONSTANTS S1, S2, m1, c1, c2, w1, w2

StoresOfStaff == [m \in Staff |-> S1]

StaffOfCodes == [c \in Code |-> m1]

WorkerSymmetry == Permutations(Worker)
=============================================================================
