------------------------------ MODULE MCLifecycle ------------------------------
(* Clones of two brokers: two share a cell, and slots are used again.          *)
EXTENDS Lifecycle, TLC

CONSTANTS c1, c2, c3, b1, b2, t, r1, r2

Cloned == (c1 :> b1) @@ (c2 :> b1) @@ (c3 :> b2)
\* Up to the names, every choice of runtimes but one for all three.
Called == (c1 :> {r1}) @@ (c2 :> {r1, r2}) @@ (c3 :> {r2})
PublishesTo == t :> b1
================================================================================
