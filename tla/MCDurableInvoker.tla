-------------------------- MODULE MCDurableInvoker --------------------------
(* Instances of DurableInvoker for TLC. *)
EXTENDS DurableInvoker, TLC

CONSTANTS d1, d2, d3, r1, r2

\* The third dispatch is a redelivery of the second, with its identity.
MCRunOf == [d \in Dispatches |-> IF d = d1 THEN r1 ELSE r2]

\* One process clock runs ahead of the others.
MCSkew == [d \in Dispatches |-> IF d = d1 THEN 1 ELSE 0]

\* d2 and d3 differ in nothing.
MCSymmetry == Permutations({d2, d3})

SameClock == [d \in Dispatches |-> 0]

=============================================================================
