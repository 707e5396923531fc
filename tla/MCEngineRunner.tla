----------------------------- MODULE MCEngineRunner -----------------------------
(***************************************************************************)
(* Instances of EngineRunner for TLC.                                      *)
(***************************************************************************)
EXTENDS EngineRunner, TLC

Everywhere == {TRUE, FALSE}
OnMac      == {TRUE}
=============================================================================
