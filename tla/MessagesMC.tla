----------------------------- MODULE MessagesMC -----------------------------
(* A small instance of Messages for TLC. *)
EXTENDS Messages
=============================================================================
