-------------------------- MODULE MCAuthSession --------------------------
(***************************************************************************)
(* AuthSession for TLC: the instance the gateway agrees with the browser   *)
(* on and the one where it refuses what the browser holds for valid differ *)
(* only in their constants.                                                *)
(***************************************************************************)
EXTENDS AuthSession

============================================================================
