------------------------------ MODULE MCTurnQueue ------------------------------
(* Small instances of the queue module for TLC.                            *)
EXTENDS TurnQueueProperties, TLC

CONSTANTS q1, v1, v2

OneQueue     == [v \in Windows |-> q1]

JoinOps  == {"app", "web", "manual", "phone", "call", "cancelOwn"}
ServeOps == {"app", "manual", "call", "attend", "redirect", "noShow",
             "cancelOwn", "cancelStaff", "confirm"}
ConfigureOps == {"web", "call", "attend", "redirect", "cancelGuest", "abort",
                 "createWindow", "toggleWindow", "updateWindow", "deleteWindow"}
FinishOps == {"app", "web", "call", "attend", "cancelOwn", "deleteWindow", "abort", "gate"}

Interchangeable == Permutations(TurnIds) \cup Permutations(Workers) \cup Permutations(Customers)
                   \cup Permutations(Windows)
=============================================================================
