--------------------------- MODULE MCPaymentOrder ---------------------------
(* Instances of PaymentOrder for TLC. *)
EXTENDS PaymentOrder, TLC

CONSTANTS t1, t2, t3, o1, o2, alice

MCOneOwner == [o \in Orders |-> alice]
ThreadSymmetry == Permutations(Threads)
OrderThreadSymmetry == Permutations(Threads) \cup Permutations(Orders)
=============================================================================
