-------------------------- MODULE MCEngineLifecycle --------------------------
(***************************************************************************)
(* Two places for engines: one can be created or destroyed while another   *)
(* is open, and an address is used again after its engine was freed.       *)
(***************************************************************************)
EXTENDS EngineLifecycle, TLC

CONSTANTS a1, a2

MCAddresses == {a1, a2}
=============================================================================
