------------------------------ MODULE MCViews ------------------------------
(***************************************************************************)
(* The views over the same courts, with the first hour at 4, the second at *)
(* 5: at 0 the second is beyond a horizon of 4, and from 3 the first is     *)
(* within a lead of 2.                                                     *)
(***************************************************************************)
EXTENDS MCCheckoutFlow, Views

MCHourApart == [x \in Cell |-> IF x = a THEN 4 ELSE 5]
=============================================================================
