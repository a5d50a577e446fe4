----------------------------- MODULE MCAccounts -----------------------------
(***************************************************************************)
(* One address and two requests that overlap as they like: everything in    *)
(* Accounts is about the rows of a single user.                            *)
(***************************************************************************)
EXTENDS Accounts, TLC

CONSTANTS ann, r1, r2

Anyone == {"verify_email", "reset_password", "accept_invitation", "resend_verification",
           "forgot_password", "resend_invitation", "revoke_invitation", "login", "refresh",
           "logout", "change_password", "deactivate", "activate"}

Interchangeable == Permutations({r1, r2})
=============================================================================
