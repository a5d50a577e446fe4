---------------------------- MODULE MCLockOrder ----------------------------
(***************************************************************************)
(* c1 holds groups 1 (hour a) and 2 (hour b); c2 holds or held group 3      *)
(* (hour a).  A walk-in asks for group 4 (hour b).                           *)
(***************************************************************************)
EXTENDS LockOrder

CONSTANTS a, b, c1, c2, sync1, sync2, cancel1, walkin, desk1

MCCheckoutOf == [g \in Group |-> CASE g \in {1, 2} -> c1 [] g = 3 -> c2 [] OTHER -> NoCheckout]
MCHours == [g \in Group |-> CASE g \in {1, 3} -> <<a>> [] OTHER -> <<b>>]
MCKind == [r \in Request |->
    CASE r \in {sync1, sync2} -> "sync"
      [] r = cancel1 -> "cancel" [] r = desk1 -> "desk" [] r = walkin -> "claim"]
MCSubject == [r \in Request |->
    CASE r \in {sync1, cancel1} -> <<1, 2>>
      [] r = sync2 -> <<3>> [] r = desk1 -> <<1>> [] r = walkin -> <<4>>]
MCNotice == [r \in Request |-> r]
=============================================================================
