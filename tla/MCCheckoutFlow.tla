--------------------------- MODULE MCCheckoutFlow ---------------------------
(***************************************************************************)
(* Customers and the desk around two courts at one hour.  c1 wants both     *)
(* courts, c2 the first, the walk-in w the second, the closure m the first. *)
(* A configuration chooses which of them take part.                         *)
(***************************************************************************)
EXTENDS CheckoutFlow

CONSTANTS a, b, c1, c2, g1, g2, g3, w, m, u1, u2

MCCellsOf == [g \in Group |-> IF g \in {g1, g3, m} THEN {a} ELSE {b}]
\* One court each for c1 and c2.
MCApart == [g \in Group |-> IF g = g3 THEN {b} ELSE {a}]
MCCheckoutOf ==
    [g \in Group |-> CASE g \in {g1, g2} -> c1 [] g = g3 -> c2 [] OTHER -> NoCheckout]
\* Play starts at tick 2: a hold placed at 0 can lapse before it.
MCStartsAt == [x \in Cell |-> 2]
MCCustomerOf == [c \in Checkout |-> IF c = c1 THEN u1 ELSE u2]
MCSameCustomer == [c \in Checkout |-> u1]
=============================================================================
