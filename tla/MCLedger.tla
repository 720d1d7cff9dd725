------------------------------ MODULE MCLedger ------------------------------
(***************************************************************************)
(* Small instances of the ledger.                                          *)
(***************************************************************************)
EXTENDS LedgerProperties, TLC

MCPrices == {1, 2}

Book(asks, bids) == [asks |-> asks, bids |-> bids]
At(a, b) == [p \in MCPrices |-> IF p = 1 THEN a ELSE b]

\* Cheap asks in two levels, dear asks, bids in two levels, and both sides.
MCBooks == {Book(At(1, 1), At(0, 0)), Book(At(0, 1), At(1, 0)),
            Book(At(0, 0), At(1, 1))}

\* No user, market or run is told apart from another.
Alike == Permutations(Users) \cup Permutations(Markets) \cup Permutations(Runs)

=============================================================================
