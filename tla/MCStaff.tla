--------------------------------- MODULE MCStaff ---------------------------------
(* Small instances of a business with its employees for TLC.               *)
EXTENDS MCBusinesses, StaffProperties

AllJobs == {"invite", "accept", "cancelInvitation", "revoke", "getCode", "regenerate"}
=============================================================================
