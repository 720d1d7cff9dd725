----------------------------- MODULE MCCoinInfo -----------------------------
(* Markets, ids and syncs are alike. *)
EXTENDS CoinInfo, TLC
Alike == Permutations(Markets) \cup Permutations(CmcIds) \cup Permutations(Syncs)
=============================================================================
