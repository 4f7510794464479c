----------------------------- MODULE MCGovernor -----------------------------
(***************************************************************************)
(* The governor of a run that may fit, fit without its caches, or not fit, *)
(* on a machine with a limit whose abort line falls between two sizes.     *)
(***************************************************************************)
EXTENDS Governor

MCDemands == {20, 95}
MCCacheSizes == {0, 45}
MCSlacks == {0, 30}
MCRooms == {50}
MCLimits == {[caller |-> 0, machine |-> 0], [caller |-> 105, machine |-> 0],
             [caller |-> 0, machine |-> 105]}
=============================================================================
