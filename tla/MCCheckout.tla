----------------------------- MODULE MCCheckout -----------------------------
(* A small instance of Checkout: a payment at each provider. *)
EXTENDS Checkout, TLC

CONSTANTS p1, p2

OneOfEach == [p \in Payments |-> IF p = p1 THEN "PAYSTACK" ELSE "MTN_MOMO"]

Symmetry == Permutations(Calls) \cup Permutations(Keys) \cup Permutations(Reservations)
            \cup Permutations(Verifications)
=============================================================================
