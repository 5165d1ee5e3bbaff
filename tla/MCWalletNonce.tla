--------------------------- MODULE MCWalletNonce ---------------------------
(* WalletNonce with two goroutines, or with any number that do the same.   *)
EXTENDS WalletNonce, TLC

CONSTANTS c1, c2

BuyerAndApi == c1 :> {"buy", "approve"} @@ c2 :> {"native", "approvedSwap"}
Buyers      == [c \in Callers |-> {"broadcast", "buy"}]

Symmetry == Permutations(Hashes)
BuyersSymmetry == Symmetry \cup Permutations(Callers)
=============================================================================
