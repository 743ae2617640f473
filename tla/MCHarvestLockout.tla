-------------------------- MODULE MCHarvestLockout --------------------------
(***************************************************************************)
(* Two tenants store the same inverter login.  A unit of time is half an   *)
(* hour, longer than the three minutes in which a healthy row is due.      *)
(***************************************************************************)
EXTENDS HarvestLockout
=============================================================================
