------------------------------- MODULE MCPulling -------------------------------
(***************************************************************************)
(* Small instances of Pulling for TLC: one message, delivered again and    *)
(* again, whose deliveries overtake each other or do not.                  *)
(***************************************************************************)
EXTENDS PullingRefinement, TLC
================================================================================
