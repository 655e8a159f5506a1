------------------------- MODULE MCStoreInventory -------------------------
(* Values of StoreInventory's constants for TLC.                            *)
EXTENDS StoreInventory, TLC

CONSTANTS s, m, xl, w1, w2

Defaults == [t \in Type |-> 1]

Unchanged == [t \in Type |-> [enabled |-> Keep, capacity |-> Keep]]

\* Partial saves: one type is switched off or on, or its capacity set; the other
\* type is never named.
PartialDtos ==
    {[Unchanged EXCEPT ![s].enabled = FALSE],
     [Unchanged EXCEPT ![s].enabled = TRUE, ![s].capacity = 1],
     [Unchanged EXCEPT ![s].capacity = 0]}

\* A storage is taken out of service or back, or made one of another type.
Edits == {<<Keep, "maintenance">>, <<Keep, "available">>, <<xl, Keep>>}

WorkerSymmetry == Permutations(Worker)
=============================================================================
