----------------------------- MODULE MCSendPath ------------------------------
(* SendPath on small sets, for TLC. *)
EXTENDS SendPath, TLC

CONSTANTS m1, m2

\* One message of two bytes, which a write may split, and an empty one.
MCSize == m1 :> 2 @@ m2 :> 0
=============================================================================
