---------------------------- MODULE MC_RunLifecycle ----------------------------
(* Instances of RunLifecycle for TLC. *)
EXTENDS RunLifecycle
CONSTANT c1
================================================================================
