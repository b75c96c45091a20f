---------------------------- MODULE MCStaffAccess ----------------------------
(***************************************************************************)
(* StaffAccess and Routing on a small instance: an administrator and an    *)
(* expert whom the migrations insert, and an account that may be created.  *)
(***************************************************************************)
EXTENDS Routing, TLC

CONSTANTS Root, Member, Newcomer  \* the three accounts

MCFirstRoles == Root :> "ADMIN" @@ Member :> "EXPERT" @@ Newcomer :> "NONE"

Symmetry == Permutations(Callers)
=============================================================================
