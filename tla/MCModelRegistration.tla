-------------------------- MODULE MCModelRegistration --------------------------
(* Small instances of ModelRegistration for TLC.                           *)
EXTENDS ModelRegistration

CONSTANTS a, b, m1, m2, p, q, i1, i2

Offer(provider, t1, t2, web) ==
  [provider |-> provider, times |-> [m \in Models |-> IF m = m1 THEN t1 ELSE t2],
   web |-> [m \in Models |-> IF m = m1 THEN web ELSE "unknown"]]

\* The inputs differ in provider, capability and models; the catalog adds a model,
\* and one model is listed twice.
TheOffers ==
  [i \in Inputs |-> [v \in 1..2 |->
     IF i = i1 THEN Offer(p, 1, v - 1, "yes") ELSE Offer(q, 3 - v, 1, "unknown")]]
BothOffer == Offer(p, 1, 0, "no")
=============================================================================
