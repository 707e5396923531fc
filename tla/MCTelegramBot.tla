----------------------------- MODULE MCTelegramBot -----------------------------
(***************************************************************************)
(* Instances of TelegramBot for TLC.                                       *)
(***************************************************************************)
EXTENDS TelegramBot, TLC

Symmetry == Permutations(Chats)
=============================================================================
