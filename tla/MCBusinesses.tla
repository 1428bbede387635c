------------------------------ MODULE MCBusinesses ------------------------------
(* Small instances of the businesses module for TLC.                       *)
EXTENDS BusinessesProperties, TLC

AllOps == {"approve", "reject", "suspend", "suspendReported", "reactivate", "report", "resolve",
           "dismiss", "profile", "operational", "hours", "join", "attend", "complete", "login"}
CompleteOps == {"suspend", "complete"}

Interchangeable == Permutations(Requests)
=============================================================================
