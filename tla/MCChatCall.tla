----------------------------- MODULE MCChatCall -----------------------------
(***************************************************************************)
(* A small instance of ChatCall.                                           *)
(***************************************************************************)
EXTENDS ChatCall

CONSTANTS chat, t1, s1
=============================================================================
