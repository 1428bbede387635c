------------------------------- MODULE MCAccounts -------------------------------
(* Small instances of the accounts module for TLC.                         *)
EXTENDS AccountsProperties, TLC

AllOps == {"login", "google", "refresh", "logout", "block", "unblock", "approve", "verify",
           "resend", "forgot", "reset", "register", "registerBusiness", "registerGoogle"}

Interchangeable == Permutations(Requests) \cup Permutations(Devices)
=============================================================================
