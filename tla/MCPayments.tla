----------------------------- MODULE MCPayments -----------------------------
(* Instances of PaymentProcessor for TLC. *)
EXTENDS PaymentInvariant

CONSTANT a1

\* No two blocks pay an address the same amount.  With MinPayout = 2 the second
\* block owes a1 and leaves the other address below the minimum.
DistinctAmounts ==
    [b \in Blocks |-> [a \in Addrs |-> IF a = a1 THEN 2 * b + 1 ELSE IF b = 1 THEN 4 ELSE 1]]
=============================================================================
