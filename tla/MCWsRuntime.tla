----------------------------- MODULE MCWsRuntime -----------------------------
(* Model-checking instances of WsRuntime. *)
EXTENDS WsRuntime, TLC

CONSTANTS script, console
TwoSenders == {script, console}
OneSender == {script}
=============================================================================
