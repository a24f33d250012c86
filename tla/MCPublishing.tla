----------------------------- MODULE MCPublishing -----------------------------
(***************************************************************************)
(* Small instances of Publishing for TLC.                                  *)
(***************************************************************************)
EXTENDS Publishing, TLC

CONSTANTS orders, invoices, short, full, other

\* Two spellings of one topic, and a second topic.
Spelled == (short :> orders) @@ (full :> orders) @@ (other :> invoices)
OneName == short :> orders
===============================================================================
