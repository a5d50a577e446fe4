------------------------------- MODULE Devices -------------------------------
(***************************************************************************)
(* What a sign-in promises, refresh tokens left out: a device that signs in *)
(* stays signed in until its session ends, and never comes back by itself.  *)
(* Accounts implements this specification.                                 *)
(***************************************************************************)
CONSTANT Device

VARIABLES
    signed_in,   \* devices that can still get an access token
    ended        \* devices that could once

TypeOK ==
    /\ signed_in \subseteq Device
    /\ ended \subseteq Device

Init == signed_in = {} /\ ended = {}

SignIn(d) ==
    /\ d \notin signed_in \cup ended
    /\ signed_in' = signed_in \cup {d}
    /\ UNCHANGED ended

\* One device, by expiry or by a refused refresh, or all of a user's at once.
End(D) ==
    /\ D # {} /\ D \subseteq signed_in
    /\ signed_in' = signed_in \ D
    /\ ended' = ended \cup D

Next == (\E d \in Device : SignIn(d)) \/ (\E D \in SUBSET Device : End(D))

Spec == Init /\ [][Next]_<<signed_in, ended>>

\* A device that was signed out never appears signed in again.
EndedForGood == signed_in \cap ended = {}
=============================================================================
