---------------------------- MODULE MCEngineClient ----------------------------
(* Instances of EngineClient for TLC. *)
EXTENDS EngineClient, TLC
===============================================================================
